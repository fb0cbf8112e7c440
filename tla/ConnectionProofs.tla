-------------------------- MODULE ConnectionProofs --------------------------
(***************************************************************************)
(* Proofs about Connection, for any number of producers and of calls of    *)
(* Close, any capacities of the queues and any messages of the peer.       *)
(*                                                                         *)
(* Four layers.  ControlInv ties the goroutines' control points to the     *)
(* flags and the three sync.Once; DataInv has the types of the data.       *)
(* LeaseInv says who holds queueMu and that nothing is queued after the    *)
(* terminal disposal; HandlerInv where the user's handler is.  Each layer  *)
(* uses the ones before it.                                                *)
(***************************************************************************)
EXTENDS Connection, TLAPS

Shut == {"shutdown", "lock", "dispose", "release"}

Exclusive == {"lock", "dispose", "release"} \* in the body of shutdownOnce

Closing == {"close", "close_claim", "close_lease", "close_request", "close_wait",
            "close_return"}

(* Where each goroutine can be, and where its shutdown goes on.            *)
Points(p) ==
  CASE p \in Producers -> {"idle", "capacity", "await", "exited"}
    [] p \in Closers -> Closing \cup Shut \cup {"idle", "close_done", "exited"}
    [] p = "starter" -> Shut \cup {"idle", "close_done", "exited"}
    [] p = "aborter" -> Shut \cup {"idle", "exited"}
    [] p = "watcher" -> Closing \cup Shut \cup {"new", "watch", "exited"}
    [] p = "waiter" -> Shut \cup {"new", "wait", "close_done", "exited"}
    [] p = "callback" -> {"new", "spawned", "running", "returned", "failed"}
    [] p = "reader" -> Shut \cup {"new", "read", "dispatch", "pong", "pong_capacity", "exited"}
    [] p = "writer" -> Shut \cup {"new", "poll", "select", "encrypt", "write", "write_rekey",
                                  "fail_pending", "exited"}
    [] p = "handler" -> Shut \cup {"new", "poll", "select", "recheck", "call", "calling",
                                   "grace", "exited"}
    [] p = "maintenance" -> Closing \cup Shut \cup {"new", "select", "exited"}

Thens(p) ==
  CASE p \in Closers -> {"close_done", "close_return"}
    [] p \in {"starter", "waiter"} -> {"close_done"}
    [] p = "watcher" -> {"close_return"}
    [] p = "maintenance" -> {"close_return", "exited"}
    [] p = "writer" -> {"fail_pending"}
    [] OTHER -> {"exited"}

Causes == {"context", "closed", "abort", "idle_timeout", "protocol", "io",
           "handler_queue_full", "handler", "keepalive_timeout"}

LifeType ==
  [started : BOOLEAN, closing : BOOLEAN, terminal : Causes \cup {None},
   cancelled : Causes \cup {None}, startOnce : {"free", "busy", "done"},
   closeOnce : {"free", "busy", "done"}, shutdownOnce : {"free", "busy", "done"},
   released : BOOLEAN, done : Nat]

QueueType ==
  [leases : SUBSET Procs, outbound : Seq(Producers), control : Nat,
   close : {<<>>} \cup {<<p>> : p \in Graceful}, handler : Nat]

EnvType ==
  [happened : SUBSET Events, callerCtx : SUBSET Producers, inbound : Nat, rekeys : Nat,
   pings : Nat, scenario : Scenario]

Items == Producers \cup Graceful \cup {"control"}

HistoryType ==
  [accepted : Seq(Producers), sent : Seq(Producers), written : Seq(Items)]

PcInv ==
  /\ pc = [p \in Procs |-> pc[p]] /\ call = [p \in Procs |-> call[p]]
  /\ \A p \in Procs : pc[p] \in Points(p)
  /\ \A p \in Procs : pc[p] \in Shut => call[p].then \in Thens(p) /\ call[p].cause \in Causes

Writing == {"encrypt", "write", "write_rekey"}

DataType ==
  /\ queue \in QueueType
  /\ writing \in Items \cup {"nothing"}
  /\ completion \in [Producers \cup {"close"} -> Causes \cup {None, "empty"}]
  /\ result \in [Producers \cup Closers -> Causes \cup {None, "none", "repeated", "deadline", "full"}]
  /\ env \in EnvType
  /\ history \in HistoryType

(* The writer holds an item from when it takes one to the end of the write. *)
DataInv ==
  /\ DataType
  /\ writing = "nothing" <=> pc["writer"] \notin Writing

(* p will close Done.                                                      *)
Ending(p) ==
  pc[p] = "close_done" \/ (pc[p] \in Shut /\ call[p].then = "close_done")

(* Done is closed by one goroutine, and only when nothing runs any more.   *)
StartInv ==
  /\ life.startOnce = "free" => ~life.started /\ life.done = 0 /\ \A p \in Procs : ~Ending(p)
  /\ ~life.started =>
       \A p \in Loops \cup {"watcher", "waiter", "callback"} : pc[p] = "new"
  /\ life.startOnce = "busy" => ~life.started /\ life.done = 0
  /\ \A p, q \in Procs : Ending(p) /\ Ending(q) => p = q
  /\ \A p \in Procs : Ending(p) =>
       /\ life.done = 0
       /\ life.started <=> p = "waiter"
       /\ ~life.started => life.startOnce = "busy"
  /\ life.started => life.startOnce = "done" /\ pc["waiter"] # "new"
  /\ pc["waiter"] = "wait" => life.done = 0
  /\ pc["waiter"] \notin {"new", "wait"} => \A p \in Loops : pc[p] = "exited"
  /\ life.done \in {0, 1}
  /\ life.done = 1 => life.startOnce = "done"

(* The body of shutdownOnce runs once, and what it closes stays closed.    *)
ShutdownInv ==
  /\ life.shutdownOnce = "free" <=> life.cancelled = None
  /\ life.released <=> life.shutdownOnce = "done"
  /\ life.shutdownOnce # "busy" => \A p \in Procs : pc[p] \notin Exclusive
  /\ \A p, q \in Procs : pc[p] \in Exclusive /\ pc[q] \in Exclusive => p = q
  /\ Cancelled => life.closing /\ life.terminal # None
  /\ \A p \in Procs : pc[p] \in Shut => life.terminal # None
  /\ \A p \in Procs : pc[p] = "close_done" => life.released
  /\ life.done = 1 => life.released
  /\ pc["writer"] = "fail_pending" => Cancelled

(* Where the goroutines are, and the connection's flags.                   *)
ControlInv == PcInv /\ life \in LifeType /\ StartInv /\ ShutdownInv

Leased == {"capacity", "close_request", "pong_capacity"}

Drained == life.released \/ \E p \in Procs : pc[p] \in {"dispose", "release"}

Emptied == life.released \/ \E p \in Procs : pc[p] = "release"

(* Who holds a read lease of queueMu; none after the terminal disposal.    *)
LeaseInv ==
  /\ \A p \in Procs : p \in queue.leases <=> pc[p] \in Leased
  /\ Drained => queue.leases = {}
  /\ Emptied => ~Pending /\ queue.handler = 0

(* The handler loop and the user's handler.                                *)
HandlerInv ==
  /\ pc["handler"] \in {"new", "poll", "select", "recheck"} =>
       pc["callback"] = "new" \/ Cancelled
  /\ pc["handler"] = "call" => pc["callback"] = "new"
  /\ pc["handler"] = "grace" => env.scenario.bounded /\ Cancelled
  /\ ~env.scenario.bounded /\ pc["callback"] \in {"spawned", "running", "returned"} =>
       pc["handler"] = "calling"
  /\ queue.control <= ControlQueue /\ queue.handler <= HandlerQueue

Queued(p) == Contains(queue.outbound, p)

Accepted(p) == Contains(history.accepted, p)

Written(p) == Contains(history.written, p)

(* A message is in at most one place, an accepted one is accounted for,    *)
(* and what its sender was told is so.                                     *)
Placed(p) ==
  /\ Queued(p) => writing # p /\ completion[p] = "empty"
  /\ writing = p => completion[p] = "empty"
  /\ Queued(p) \/ writing = p \/ completion[p] # "empty" => Accepted(p)
  /\ pc[p] \in {"idle", "capacity"} => ~Accepted(p)
  /\ pc[p] = "await" => /\ Mode[p] = "SendAndWait"
                        /\ Queued(p) \/ writing = p \/ completion[p] # "empty"
  /\ pc[p] # "exited" => result[p] = "none"
  /\ completion[p] = None => Written(p)
  /\ Mode[p] = "SendAndWait" /\ result[p] = None => Written(p)
  /\ Accepted(p) => /\ result[p] # "full"
                    /\ Mode[p] # "SendAndWait" => result[p] = None

Distinct(s) == \A i, k \in DOMAIN s : s[i] = s[k] => i = k

PlaceInv == Distinct(queue.outbound) /\ \A p \in Producers : Placed(p)

Live == {"new", "poll", "select"} \cup Writing

Count == Len(history.sent)

Held == IF writing \in Producers THEN 1 ELSE 0

(* The item of the writer is the next message to be written.               *)
Due == Count + 1 \in DOMAIN history.accepted /\ history.accepted[Count + 1] = writing

(* What is accepted is what is written, the item of the writer and the     *)
(* queue, in this order.                                                   *)
InLine ==
  /\ Len(history.accepted) = Count + Held + Len(queue.outbound)
  /\ \A k \in DOMAIN queue.outbound : queue.outbound[k] = history.accepted[Count + Held + k]

(* Messages are in line until the connection ends or a write fails.        *)
OrderInv ==
  /\ WrittenInOrder
  /\ pc["writer"] \in Live => \A i \in DOMAIN history.written : history.written[i] \notin Graceful
  /\ pc["writer"] \in Writing /\ (pc["writer"] = "encrypt" => ~Cancelled) /\ writing \in Producers => Due
  /\ pc["writer"] \in Live /\ ~Cancelled => InLine

(* Nobody has asked for a SessionClose.                                    *)
NoRequest ==
  /\ queue.close = <<>> /\ writing \notin Graceful /\ completion["close"] = "empty"
  /\ \A q \in Graceful : ~Written(q)

Requesting == {"close_claim", "close_lease", "close_request", "close_wait"}

(* Only p can have asked for one.                                          *)
RequestOf(p) ==
  /\ queue.close # <<>> => queue.close = <<p>>
  /\ writing \in Graceful => writing = p
  /\ \A q \in Graceful : Written(q) => q = p

(* One goroutine asks for a SessionClose, and is told what became of it.   *)
AskInv ==
  /\ life.closeOnce = "free" => NoRequest /\ \A p \in Procs : pc[p] \notin Requesting
  /\ \A p, q \in Procs : pc[p] \in Requesting /\ pc[q] \in Requesting => p = q
  /\ \A p \in Procs : pc[p] \in Requesting \ {"close_wait"} => NoRequest
  /\ \A p \in Procs : pc[p] = "close_wait" => RequestOf(p)
  /\ \A p \in Procs : pc[p] \in Requesting \ {"close_claim"} => life.started
  /\ completion["close"] = None => \E p \in Graceful : Written(p)

ToldInv ==
  \A c \in Closers : result[c] = None =>
    life.startOnce # "free" /\ (life.started => Written(c))

CloseInv == AskInv /\ ToldInv

ConnInv ==
  ControlInv /\ DataInv /\ LeaseInv /\ HandlerInv /\ PlaceInv /\ OrderInv /\ CloseInv

-----------------------------------------------------------------------------

(* The names of the goroutines are distinct, and each is one of Procs.     *)
LEMMA Names ==
  /\ Producers \subseteq Procs /\ Closers \subseteq Procs /\ Graceful \subseteq Procs
  /\ Loops \subseteq Procs
  /\ {"reader", "writer", "maintenance", "handler", "starter", "aborter", "watcher",
      "waiter", "callback"} \subseteq Procs
  /\ \A p \in Producers : p \notin Closers /\ p \notin Graceful /\ p \notin Loops
  /\ \A p \in Producers \cup Closers :
       p \notin {"reader", "writer", "maintenance", "handler", "starter", "aborter", "watcher",
                 "waiter", "callback", "close", "control", "nothing"}
BY NamesAssumption, Zenon DEF Procs, Loops, Graceful

(* The control points of each goroutine.                                   *)
LEMMA PointsAre ==
  /\ \A p \in Producers : Points(p) = {"idle", "capacity", "await", "exited"}
  /\ \A p \in Closers : Points(p) = Closing \cup Shut \cup {"idle", "close_done", "exited"}
  /\ Points("starter") = Shut \cup {"idle", "close_done", "exited"}
  /\ Points("aborter") = Shut \cup {"idle", "exited"}
  /\ Points("watcher") = Closing \cup Shut \cup {"new", "watch", "exited"}
  /\ Points("waiter") = Shut \cup {"new", "wait", "close_done", "exited"}
  /\ Points("callback") = {"new", "spawned", "running", "returned", "failed"}
  /\ Points("reader") = Shut \cup {"new", "read", "dispatch", "pong", "pong_capacity", "exited"}
  /\ Points("writer") = Shut \cup {"new", "poll", "select", "encrypt", "write", "write_rekey",
                                   "fail_pending", "exited"}
  /\ Points("handler") = Shut \cup {"new", "poll", "select", "recheck", "call", "calling",
                                    "grace", "exited"}
  /\ Points("maintenance") = Closing \cup Shut \cup {"new", "select", "exited"}
<1>1. ASSUME NEW p \in Producers PROVE Points(p) = {"idle", "capacity", "await", "exited"}
  BY Names, Zenon DEF Points
<1>2. ASSUME NEW p \in Closers
      PROVE  Points(p) = Closing \cup Shut \cup {"idle", "close_done", "exited"}
  BY Names, Zenon DEF Points
<1>3. "starter" \notin Producers \cup Closers /\ "aborter" \notin Producers \cup Closers
      /\ "watcher" \notin Producers \cup Closers /\ "waiter" \notin Producers \cup Closers
      /\ "callback" \notin Producers \cup Closers /\ "reader" \notin Producers \cup Closers
      /\ "writer" \notin Producers \cup Closers /\ "handler" \notin Producers \cup Closers
      /\ "maintenance" \notin Producers \cup Closers
  BY Names, Zenon
<1>4. Points("starter") = Shut \cup {"idle", "close_done", "exited"}
  BY <1>3, Zenon DEF Points
<1>5. Points("aborter") = Shut \cup {"idle", "exited"}
  BY <1>3, Zenon DEF Points
<1>6. Points("watcher") = Closing \cup Shut \cup {"new", "watch", "exited"}
  BY <1>3, Zenon DEF Points
<1>7. Points("waiter") = Shut \cup {"new", "wait", "close_done", "exited"}
  BY <1>3, Zenon DEF Points
<1>8. Points("callback") = {"new", "spawned", "running", "returned", "failed"}
  BY <1>3, Zenon DEF Points
<1>9. Points("reader") = Shut \cup {"new", "read", "dispatch", "pong", "pong_capacity", "exited"}
  BY <1>3, Zenon DEF Points
<1>10. Points("writer") = Shut \cup {"new", "poll", "select", "encrypt", "write", "write_rekey",
                                     "fail_pending", "exited"}
  BY <1>3, Zenon DEF Points
<1>11. Points("handler") = Shut \cup {"new", "poll", "select", "recheck", "call", "calling",
                                      "grace", "exited"}
  BY <1>3, Zenon DEF Points
<1>12. Points("maintenance") = Closing \cup Shut \cup {"new", "select", "exited"}
  BY <1>3, Zenon DEF Points
<1>q. QED
  BY <1>1, <1>2, <1>4, <1>5, <1>6, <1>7, <1>8, <1>9, <1>10, <1>11, <1>12, Zenon

(* Where each goroutine's shutdown may go on.                              *)
LEMMA ThensAre ==
  /\ \A p \in Closers : Thens(p) = {"close_done", "close_return"}
  /\ Thens("starter") = {"close_done"} /\ Thens("waiter") = {"close_done"}
  /\ Thens("watcher") = {"close_return"}
  /\ Thens("maintenance") = {"close_return", "exited"}
  /\ Thens("writer") = {"fail_pending"}
  /\ Thens("aborter") = {"exited"} /\ Thens("reader") = {"exited"} /\ Thens("handler") = {"exited"}
<1>1. ASSUME NEW p \in Closers PROVE Thens(p) = {"close_done", "close_return"}
  BY Names, Zenon DEF Thens
<1>2. /\ "starter" \notin Closers /\ "waiter" \notin Closers /\ "watcher" \notin Closers
      /\ "maintenance" \notin Closers /\ "writer" \notin Closers /\ "aborter" \notin Closers
      /\ "reader" \notin Closers /\ "handler" \notin Closers
  BY Names, Zenon
<1>3. Thens("starter") = {"close_done"} /\ Thens("waiter") = {"close_done"}
  BY <1>2, Zenon DEF Thens
<1>4. Thens("watcher") = {"close_return"}
  BY <1>2, Zenon DEF Thens
<1>5. Thens("maintenance") = {"close_return", "exited"}
  BY <1>2, Zenon DEF Thens
<1>6. Thens("writer") = {"fail_pending"}
  BY <1>2, Zenon DEF Thens
<1>7. Thens("aborter") = {"exited"} /\ Thens("reader") = {"exited"} /\ Thens("handler") = {"exited"}
  BY <1>2, Zenon DEF Thens
<1>q. QED
  BY <1>1, <1>3, <1>4, <1>5, <1>6, <1>7, Zenon

(* What the goroutines that may call closeGracefully have in common.       *)
LEMMA GracefulAre ==
  ASSUME NEW p \in Graceful
  PROVE  /\ p \in Procs
         /\ p \notin Producers \cup {"reader", "writer", "handler", "starter", "aborter",
                                     "waiter", "callback", "close", "control", "nothing"}
         /\ Closing \cup Shut \cup {"exited"} \subseteq Points(p)
         /\ "close_return" \in Thens(p)
         /\ p \in Closers \/ p = "watcher" \/ p = "maintenance"
<1>1. CASE p \in Closers
  <2>1. Points(p) = Closing \cup Shut \cup {"idle", "close_done", "exited"}
    BY <1>1, PointsAre, Zenon
  <2>2. Thens(p) = {"close_done", "close_return"}
    BY <1>1, ThensAre, Zenon
  <2>q. QED
    BY <1>1, <2>1, <2>2, Names, Zenon
<1>2. CASE p = "watcher"
  BY <1>2, Names, PointsAre, ThensAre, Zenon
<1>3. CASE p = "maintenance"
  BY <1>3, Names, PointsAre, ThensAre, Zenon
<1>q. QED
  BY <1>1, <1>2, <1>3, Zenon DEF Graceful

(* The cause of a graceful close is a cause.                               *)
LEMMA CloseCauseIs == \A p : CloseCause(p) \in Causes
<1>1. ASSUME NEW p PROVE CloseCause(p) \in Causes
  <2>1. CASE p = "watcher"
    BY <2>1, Zenon DEF CloseCause, Causes
  <2>2. CASE p = "maintenance"
    BY <2>2, Zenon DEF CloseCause, Causes
  <2>3. CASE p # "watcher" /\ p # "maintenance"
    BY <2>3, Zenon DEF CloseCause, Causes
  <2>q. QED
    BY <2>1, <2>2, <2>3, Zenon
<1>q. QED
  BY <1>1, Zenon

-----------------------------------------------------------------------------
(* Steps of one goroutine.                                                 *)

(* Only p moves, to b.                                                     *)
Moved(p, b) ==
  /\ pc' = [q \in Procs |-> pc'[q]]
  /\ pc'[p] = b
  /\ \A q \in Procs : q # p => pc'[q] = pc[q]

(* p moves to b without a part in starting or ending the connection.       *)
Hop(p, b) ==
  /\ Moved(p, b)
  /\ UNCHANGED call
  /\ life' \in LifeType
  /\ life'.started = life.started /\ life'.startOnce = life.startOnce
  /\ life'.shutdownOnce = life.shutdownOnce /\ life'.cancelled = life.cancelled
  /\ life'.released = life.released /\ life'.done = life.done
  /\ life.closing => life'.closing
  /\ life.terminal # None => life'.terminal # None

(* A goroutine that goes to a point moves there alone.                     *)
LEMMA GotoMoves ==
  ASSUME pc = [q \in Procs |-> pc[q]], NEW p \in Procs, NEW b, Goto(p, b)
  PROVE  Moved(p, b)
BY Zenon DEF Goto, Moved

(* A call of shutdown moves its caller and records a cause.                *)
LEMMA CallMoves ==
  ASSUME PcInv, NEW p \in Procs, NEW l \in LifeType, NEW e \in Causes, NEW d,
         CallShutdown(l, p, e, d)
  PROVE  /\ Moved(p, "shutdown")
         /\ call' = [q \in Procs |-> call'[q]]
         /\ call'[p].cause = e /\ call'[p].then = d
         /\ \A q \in Procs : q # p => call'[q] = call[q]
         /\ life' \in LifeType
         /\ life' = [l EXCEPT !.terminal = life'.terminal]
         /\ life'.terminal # None
         /\ life'.started = l.started /\ life'.startOnce = l.startOnce
         /\ life'.closeOnce = l.closeOnce /\ life'.closing = l.closing
         /\ life'.shutdownOnce = l.shutdownOnce /\ life'.cancelled = l.cancelled
         /\ life'.released = l.released /\ life'.done = l.done
<1>1. Moved(p, "shutdown")
  <2>1. Goto(p, "shutdown")
    BY Zenon DEF CallShutdown
  <2>2. pc = [q \in Procs |-> pc[q]]
    BY Zenon DEF PcInv
  <2>q. QED
    BY <2>1, <2>2, GotoMoves, Zenon
<1>2. /\ call' = [q \in Procs |-> call'[q]]
      /\ call'[p].cause = e /\ call'[p].then = d
      /\ \A q \in Procs : q # p => call'[q] = call[q]
  <2>1. PICK r : r = [cause |-> e, then |-> d]
    BY Zenon
  <2>2. r.cause = e /\ r.then = d
    BY <2>1, Zenon
  <2>3. call' = [call EXCEPT ![p] = r]
    BY <2>1, Zenon DEF CallShutdown
  <2>q. QED
    BY <2>2, <2>3, Zenon DEF PcInv
<1>3. None \notin Causes
  BY Zenon DEF Causes, None
<1>q. QED
  BY <1>1, <1>2, <1>3, Zenon DEF CallShutdown, recordTerminal, LifeType

(* A new connection is not started, not closing and not closed.            *)
LEMMA InitControl == ASSUME Init PROVE ControlInv
<1>1. PICK s \in Scenarios :
        /\ pc = [p \in Procs |->
                   IF p \in s.callers \cup {"starter", "aborter"} THEN "idle"
                   ELSE IF p \in Producers \cup Closers THEN "exited" ELSE "new"]
        /\ s.callers \subseteq Producers \cup Closers
  BY ConnectionAssumption, Zenon DEF Init, Scenario
<1>2. /\ \A p \in Procs : pc[p] \in {"idle", "exited", "new"}
      /\ \A p \in Producers \cup Closers : pc[p] \in {"idle", "exited"}
      /\ pc["starter"] = "idle" /\ pc["aborter"] = "idle"
      /\ \A p \in Loops \cup {"watcher", "waiter", "callback"} : pc[p] = "new"
  <2>1. \A p \in Procs : pc[p] \in {"idle", "exited", "new"}
    BY <1>1, Zenon
  <2>2. \A p \in Producers \cup Closers : pc[p] \in {"idle", "exited"}
    BY <1>1, Names, Zenon
  <2>3. pc["starter"] = "idle" /\ pc["aborter"] = "idle"
    BY <1>1, Names, Zenon
  <2>4. ASSUME NEW p \in Loops \cup {"watcher", "waiter", "callback"} PROVE pc[p] = "new"
    <3>1. p \in Procs /\ p \notin Producers \cup Closers /\ p \notin {"starter", "aborter"}
      BY Names, Zenon DEF Loops
    <3>q. QED
      BY <1>1, <3>1, Zenon
  <2>q. QED
    BY <2>1, <2>2, <2>3, <2>4, Zenon
<1>3. ASSUME NEW p \in Procs PROVE pc[p] \in Points(p)
  <2>1. CASE p \in Producers
    BY <2>1, <1>2, PointsAre
  <2>2. CASE p \in Closers
    BY <2>2, <1>2, PointsAre
  <2>3. CASE p \in {"starter", "aborter"}
    BY <2>3, <1>2, PointsAre, Zenon
  <2>4. CASE p \in Loops \cup {"watcher", "waiter", "callback"}
    BY <2>4, <1>2, PointsAre, Zenon DEF Loops
  <2>q. QED
    BY <2>1, <2>2, <2>3, <2>4, Zenon DEF Procs
<1>4. PcInv
  <2>1. call = [p \in Procs |-> call[p]]
    BY Zenon DEF Init
  <2>2. pc = [p \in Procs |-> pc[p]]
    BY <1>1, Zenon
  <2>q. QED
    BY <1>2, <1>3, <2>1, <2>2, Zenon DEF PcInv, Shut
<1>5. life \in LifeType
  BY Zenon DEF Init, LifeType
<1>6. \A p \in Procs : ~Ending(p)
  BY <1>2, Zenon DEF Ending, Shut
<1>7. StartInv
  <2>1. ~life.started /\ life.done = 0 /\ life.startOnce = "free"
    BY Zenon DEF Init
  <2>q. QED
    BY <1>2, <1>6, <2>1, Names DEF StartInv
<1>8. ShutdownInv
  <2>1. /\ life.shutdownOnce = "free" /\ life.cancelled = None /\ ~life.released
        /\ life.done = 0
    BY Zenon DEF Init
  <2>2. \A p \in Procs : pc[p] \notin Shut \cup Exclusive \cup {"close_done", "fail_pending"}
    BY <1>2, Zenon DEF Shut, Exclusive
  <2>q. QED
    BY <2>1, <2>2, Names DEF ShutdownInv, Cancelled
<1>q. QED
  BY <1>4, <1>5, <1>7, <1>8, Zenon DEF ControlInv

(* writeLoop.                                                              *)
WriterNext == WriterStep \/ WriteDone \/ WriteFails

(* readLoop.                                                               *)
ReaderNext == ReaderStep \/ ReadFails \/ \E kind \in Inbound : Read(kind)

(* handlerLoop and the user's handler.                                     *)
HandlerNext ==
  HandlerStep \/ CallbackBegin \/ \E outcome \in {"returned", "failed"} : CallbackReturn(outcome)

(* The maintenance loop, the watcher and the callers of Close and Abort.   *)
OtherNext ==
  \/ MaintenanceExit \/ IdleTimeout \/ KeepaliveTimeout
  \/ Watch \/ Abort \/ \E p \in Closers : CloseCall(p)

(* What changes neither a control point nor a flag.                        *)
StillNext == StartCancel \/ Ping \/ Finished \/ UNCHANGED vars \/ \E p \in Producers : CallerCancel(p)

(* Every step is one of these.                                             *)
LEMMA StepsAre ==
  ASSUME [Next]_vars
  PROVE  \/ StillNext \/ Start \/ Join \/ OtherNext
         \/ WriterNext \/ ReaderNext \/ HandlerNext
         \/ \E p \in Procs : Shutdown(p) \/ CloseDone(p)
         \/ \E p \in Graceful : closeGracefully(p)
         \/ \E p \in Producers : SendEnter(p) \/ SendCapacity(p) \/ SendAwait(p)
BY Zenon DEF Next, Environment, System, StillNext, OtherNext, WriterNext, ReaderNext, HandlerNext

(* Every step keeps the invariant of the flags and sync.Onces.             *)
LEMMA NextControl ==
  ControlInv /\ [Next]_vars => ControlInv'
(* A step of Goto that leaves call and life alone.                         *)
<1>GotoHops. ASSUME PcInv, life \in LifeType, NEW p \in Procs, NEW b, Goto(p, b),
                    UNCHANGED <<call, life>>
             PROVE  Hop(p, b)
  BY <1>GotoHops, GotoMoves, Zenon DEF Hop, PcInv
(* A hop keeps the control invariant.                                      *)
<1>HopControl. ASSUME ControlInv, NEW p \in Procs, NEW b \in Points(p), Hop(p, b),
                      b \notin Shut \cup {"close_done"},
                      pc[p] \notin Exclusive \cup {"new", "exited", "close_done"},
                      p # "waiter", b = "fail_pending" => Cancelled
               PROVE  ControlInv'
  <2> USE <1>HopControl
  <2>1. PcInv'
    BY Zenon DEF ControlInv, PcInv, Hop, Moved
  <2>2. \A q \in Procs : Ending(q)' => Ending(q)
    BY Zenon DEF Ending, Hop, Moved
  <2>3. StartInv'
    <3>1. pc'["waiter"] = pc["waiter"]
      BY Names, Zenon DEF Hop, Moved
    <3>2. p \in Loops => pc["waiter"] \in {"new", "wait"}
      BY Zenon DEF ControlInv, StartInv
    <3>3. p \in Loops \cup {"watcher", "waiter", "callback"} => life.started
      BY Zenon DEF ControlInv, StartInv
    <3>4. \A q \in Loops : q # p => pc'[q] = pc[q]
      BY Names, Zenon DEF Hop, Moved
    <3>5. \A q \in Loops \cup {"watcher", "waiter", "callback"} : q # p => pc'[q] = pc[q]
      BY Names, Zenon DEF Hop, Moved
    <3>6. /\ life'.started = life.started /\ life'.startOnce = life.startOnce
          /\ life'.done = life.done
      BY Zenon DEF Hop
    <3>q. QED
      BY <2>2, <3>1, <3>2, <3>3, <3>4, <3>5, <3>6, Zenon DEF ControlInv, StartInv
  <2>4. ShutdownInv'
    <3>1. \A q \in Procs : pc'[q] \in Exclusive => pc[q] \in Exclusive
      BY Zenon DEF Hop, Moved, Exclusive, Shut
    <3>2. \A q \in Procs : pc'[q] \in Shut => pc[q] \in Shut
      BY Zenon DEF Hop, Moved
    <3>3. \A q \in Procs : pc'[q] = "close_done" => pc[q] = "close_done"
      BY Zenon DEF Hop, Moved
    <3>4. pc'["writer"] = "fail_pending" => Cancelled
      BY Names, Zenon DEF Hop, Moved, ControlInv, ShutdownInv
    <3>q. QED
      BY <3>1, <3>2, <3>3, <3>4, Zenon DEF Hop, ControlInv, ShutdownInv, Cancelled
  <2>q. QED
    BY <2>1, <2>3, <2>4, Zenon DEF ControlInv, Hop
(* A call of shutdown keeps it, for a goroutine that will not close Done.  *)
<1>CallControl. ASSUME ControlInv, NEW p \in Procs, NEW e \in Causes, NEW d,
                       CallShutdown(life, p, e, d), d \in Thens(p) \ {"close_done"},
                       "shutdown" \in Points(p), p # "waiter",
                       pc[p] \notin Exclusive \cup {"new", "exited", "close_done"}
                PROVE  ControlInv'
  <2> USE <1>CallControl
  <2>0. /\ Moved(p, "shutdown")
        /\ call' = [q \in Procs |-> call'[q]]
        /\ call'[p].cause = e /\ call'[p].then = d
        /\ \A q \in Procs : q # p => call'[q] = call[q]
        /\ life' \in LifeType /\ life'.terminal # None
        /\ life'.started = life.started /\ life'.startOnce = life.startOnce
        /\ life'.closing = life.closing
        /\ life'.shutdownOnce = life.shutdownOnce /\ life'.cancelled = life.cancelled
        /\ life'.released = life.released /\ life'.done = life.done
    <3>1. PcInv /\ life \in LifeType
      BY Zenon DEF ControlInv
    <3>q. QED
      BY <3>1, CallMoves
  <2>1. PcInv'
    BY <2>0, Zenon DEF ControlInv, PcInv, Moved
  <2>2. \A q \in Procs : Ending(q)' => Ending(q)
    BY <2>0, Zenon DEF Ending, Moved
  <2>3. StartInv'
    <3>1. pc'["waiter"] = pc["waiter"]
      BY <2>0, Names, Zenon DEF Moved
    <3>2. p \in Loops => pc["waiter"] \in {"new", "wait"}
      BY Zenon DEF ControlInv, StartInv
    <3>3. p \in Loops \cup {"watcher", "waiter", "callback"} => life.started
      BY Zenon DEF ControlInv, StartInv
    <3>4. \A q \in Loops \cup {"watcher", "waiter", "callback"} : q # p => pc'[q] = pc[q]
      BY <2>0, Names DEF Moved
    <3>q. QED
      BY <2>0, <2>2, <3>1, <3>2, <3>3, <3>4 DEF ControlInv, StartInv
  <2>4. ShutdownInv'
    <3>1. \A q \in Procs : pc'[q] \in Exclusive => pc[q] \in Exclusive
      BY <2>0, Zenon DEF Moved, Exclusive
    <3>2. \A q \in Procs : pc'[q] = "close_done" => pc[q] = "close_done"
      BY <2>0, Zenon DEF Moved
    <3>3. pc'["writer"] = "fail_pending" => Cancelled
      BY <2>0, Names, Zenon DEF Moved, ControlInv, ShutdownInv
    <3>q. QED
      BY <2>0, <3>1, <3>2, <3>3, Zenon DEF ControlInv, ShutdownInv, Cancelled
  <2>q. QED
    BY <2>0, <2>1, <2>3, <2>4, Zenon DEF ControlInv
(* An unstarted runtime is claimed: p runs shutdown and then closes Done.  *)
<1>ClaimControl. ASSUME ControlInv, NEW p \in Procs, NEW e \in Causes,
                        life.startOnce = "free",
                        CallShutdown([life EXCEPT !.startOnce = "busy"], p, e, "close_done"),
                        "close_done" \in Thens(p), "shutdown" \in Points(p),
                        pc[p] \notin Exclusive \cup {"new"}
                 PROVE  ControlInv'
  <2> USE <1>ClaimControl
  <2>l. PICK l : l = [life EXCEPT !.startOnce = "busy"]
    BY Zenon
  <2>m. /\ l \in LifeType /\ l.startOnce = "busy" /\ l.started = life.started
        /\ l.closing = life.closing /\ l.shutdownOnce = life.shutdownOnce
        /\ l.cancelled = life.cancelled /\ l.released = life.released /\ l.done = life.done
    BY <2>l, Zenon DEF ControlInv, LifeType
  <2>0. /\ Moved(p, "shutdown")
        /\ call' = [q \in Procs |-> call'[q]]
        /\ call'[p].cause = e /\ call'[p].then = "close_done"
        /\ \A q \in Procs : q # p => call'[q] = call[q]
        /\ life' \in LifeType /\ life'.terminal # None
        /\ life'.started = life.started /\ life'.startOnce = "busy"
        /\ life'.closing = life.closing
        /\ life'.shutdownOnce = life.shutdownOnce /\ life'.cancelled = life.cancelled
        /\ life'.released = life.released /\ life'.done = life.done
    <3>1. PcInv /\ CallShutdown(l, p, e, "close_done")
      BY <2>l, Zenon DEF ControlInv
    <3>q. QED
      BY <2>m, <3>1, CallMoves
  <2>1. PcInv'
    BY <2>0, Zenon DEF ControlInv, PcInv, Moved
  <2>2. \A q \in Procs : Ending(q)' <=> q = p
    BY <2>0 DEF Ending, Moved, Shut, ControlInv, StartInv
  <2>3. StartInv'
    <3>1. ~life.started /\ life.done = 0 /\ p \notin Loops \cup {"watcher", "waiter", "callback"}
      BY Zenon DEF ControlInv, StartInv
    <3>2. \A q \in Loops \cup {"watcher", "waiter", "callback"} : pc'[q] = pc[q]
      BY <2>0, <3>1, Names DEF Moved
    <3>q. QED
      BY <2>0, <2>2, <3>1, <3>2 DEF ControlInv, StartInv
  <2>4. ShutdownInv'
    <3>1. \A q \in Procs : pc'[q] \in Exclusive => pc[q] \in Exclusive
      BY <2>0, Zenon DEF Moved, Exclusive
    <3>2. \A q \in Procs : pc'[q] = "close_done" => pc[q] = "close_done"
      BY <2>0, Zenon DEF Moved
    <3>3. pc'["writer"] = "fail_pending" => Cancelled
      BY <2>0, Names, Zenon DEF Moved, ControlInv, ShutdownInv
    <3>q. QED
      BY <2>0, <3>1, <3>2, <3>3, Zenon DEF ControlInv, ShutdownInv, Cancelled
  <2>q. QED
    BY <2>0, <2>1, <2>3, <2>4, Zenon DEF ControlInv
(* The loops have been joined: the waiter runs shutdown and closes Done.   *)
<1>JoinControl. ASSUME ControlInv, Join
                PROVE  ControlInv'
  <2> USE <1>JoinControl
  <2>p. PICK p : p = "waiter"
    BY Zenon
  <2>e. PICK e : e = IF Cancelled THEN life.cancelled ELSE "closed"
    BY Zenon
  <2>f. e \in Causes /\ p \in Procs
    BY <2>e, <2>p, Names, Zenon DEF ControlInv, LifeType, Cancelled, Causes, None
  <2>0. /\ Moved(p, "shutdown")
        /\ call' = [q \in Procs |-> call'[q]]
        /\ call'[p].cause = e /\ call'[p].then = "close_done"
        /\ \A q \in Procs : q # p => call'[q] = call[q]
        /\ life' \in LifeType /\ life'.terminal # None
        /\ life'.started = life.started /\ life'.startOnce = life.startOnce
        /\ life'.closing = life.closing
        /\ life'.shutdownOnce = life.shutdownOnce /\ life'.cancelled = life.cancelled
        /\ life'.released = life.released /\ life'.done = life.done
    <3>1. PcInv /\ life \in LifeType /\ CallShutdown(life, p, e, "close_done")
      BY <2>e, <2>p, Zenon DEF ControlInv, Join
    <3>q. QED
      BY <2>f, <3>1, CallMoves
  <2>1. PcInv'
    <3>1. "shutdown" \in Points(p) /\ "close_done" \in Thens(p)
      BY <2>p, PointsAre, ThensAre, Zenon DEF Shut
    <3>q. QED
      BY <2>0, <2>f, <3>1 DEF ControlInv, PcInv, Moved
  <2>2. life.started
    BY Zenon DEF ControlInv, StartInv, Join
  <2>3. \A q \in Procs : Ending(q)' <=> q = p
    <3>1. \A q \in Procs : q # p => ~Ending(q)
      BY <2>2, <2>p, Zenon DEF ControlInv, StartInv
    <3>q. QED
      BY <2>0, <2>f, <3>1, Zenon DEF Ending, Moved, Shut
  <2>4. StartInv'
    <3>1. \A q \in Loops : pc'[q] = "exited"
      BY <2>0, <2>p, Names DEF Moved, Join, Loops
    <3>2. life.done = 0
      BY Zenon DEF ControlInv, StartInv, Join
    <3>q. QED
      BY <2>0, <2>2, <2>3, <2>p, <3>1, <3>2 DEF ControlInv, StartInv, Moved
  <2>5. ShutdownInv'
    <3>1. \A q \in Procs : pc'[q] \in Exclusive => pc[q] \in Exclusive
      BY <2>0, Zenon DEF Moved, Exclusive
    <3>2. \A q \in Procs : pc'[q] = "close_done" => pc[q] = "close_done"
      BY <2>0, Zenon DEF Moved
    <3>3. pc'["writer"] = "fail_pending" => Cancelled
      BY <2>0, Names, Zenon DEF Moved, ControlInv, ShutdownInv
    <3>q. QED
      BY <2>0, <3>1, <3>2, <3>3, Zenon DEF ControlInv, ShutdownInv, Cancelled
  <2>q. QED
    BY <2>0, <2>1, <2>4, <2>5, Zenon DEF ControlInv
(* Done is closed.                                                         *)
<1>CloseDoneControl. ASSUME ControlInv, NEW p \in Procs, CloseDone(p)
                     PROVE  ControlInv'
  <2> USE <1>CloseDoneControl
  <2>b. PICK b : b = IF p \in Closers THEN "close_return" ELSE "exited"
    BY Zenon
  <2>e. Ending(p) /\ p \notin Loops \cup {"watcher", "callback"} /\ b \in Points(p)
    <3>1. pc[p] = "close_done" /\ pc[p] \in Points(p)
      BY Zenon DEF CloseDone, ControlInv, PcInv
    <3>2. p \notin Loops \cup {"watcher", "callback"}
      BY <3>1, PointsAre DEF Loops, Closing, Shut
    <3>3. p \in Closers \/ p = "starter" \/ p = "waiter" \/ p = "aborter" \/ p \in Producers
      BY <3>2, Zenon DEF Procs
    <3>4. b \in Points(p)
      <4>1. CASE p \in Closers
        BY <2>b, <4>1, PointsAre DEF Closing
      <4>2. CASE p \in Producers
        BY <2>b, <4>2, <3>1, PointsAre
      <4>3. CASE p \in {"starter", "waiter", "aborter"}
        <5>1. b = "exited"
          BY <2>b, <4>3, Names, Zenon
        <5>q. QED
          BY <5>1, <4>3, PointsAre, Zenon
      <4>q. QED
        BY <3>3, <4>1, <4>2, <4>3, Zenon
    <3>q. QED
      BY <3>1, <3>2, <3>4, Zenon DEF Ending
  <2>0. /\ Moved(p, b) /\ UNCHANGED call /\ b \notin Shut \cup {"close_done", "fail_pending"}
        /\ life' \in LifeType
        /\ life'.started = life.started /\ life'.startOnce = "done"
        /\ life'.closing = life.closing /\ life'.terminal = life.terminal
        /\ life'.shutdownOnce = life.shutdownOnce /\ life'.cancelled = life.cancelled
        /\ life'.released = life.released /\ life'.done = life.done + 1
    <3>1. Goto(p, b)
      BY <2>b, Zenon DEF CloseDone
    <3>2. Moved(p, b)
      BY <3>1, GotoMoves, Zenon DEF ControlInv, PcInv
    <3>3. life' = [life EXCEPT !.done = life.done + 1, !.startOnce = "done"] /\ UNCHANGED call
      BY Zenon DEF CloseDone
    <3>4. life \in LifeType
      BY Zenon DEF ControlInv
    <3>5. b \notin Shut \cup {"close_done", "fail_pending"}
      BY <2>b, Zenon DEF Shut
    <3>6. life.done + 1 \in Nat
      BY <3>4 DEF LifeType
    <3>7. PICK n : n = life.done + 1
      BY Zenon
    <3>8. /\ life' \in LifeType
          /\ life'.started = life.started /\ life'.startOnce = "done"
          /\ life'.closing = life.closing /\ life'.terminal = life.terminal
          /\ life'.shutdownOnce = life.shutdownOnce /\ life'.cancelled = life.cancelled
          /\ life'.released = life.released /\ life'.done = n
      BY <3>3, <3>4, <3>6, <3>7, Zenon DEF LifeType
    <3>q. QED
      BY <3>2, <3>3, <3>5, <3>7, <3>8, Zenon
  <2>1. PcInv'
    BY <2>0, <2>e, Zenon DEF ControlInv, PcInv, Moved
  <2>2. \A q \in Procs : ~Ending(q)'
    BY <2>0, <2>e DEF Ending, Moved, ControlInv, StartInv
  <2>3. StartInv'
    <3>1. life.done = 0 /\ (life.started <=> p = "waiter")
      BY <2>e, Zenon DEF ControlInv, StartInv
    <3>2. \A q \in Loops \cup {"watcher", "callback"} : pc'[q] = pc[q]
      BY <2>0, <2>e, Names, Zenon DEF Moved
    <3>3. CASE p = "waiter"
      <4>1. pc["waiter"] = "close_done" /\ pc'["waiter"] = "exited"
        BY <3>3, <2>0, <2>b, Names, Zenon DEF Moved, CloseDone
      <4>q. QED
        BY <2>0, <2>2, <3>1, <3>2, <3>3, <4>1 DEF ControlInv, StartInv
    <3>4. CASE p # "waiter"
      <4>1. pc'["waiter"] = pc["waiter"]
        BY <3>4, <2>0, Names, Zenon DEF Moved
      <4>q. QED
        BY <2>0, <2>2, <3>1, <3>2, <3>4, <4>1 DEF ControlInv, StartInv
    <3>q. QED
      BY <3>3, <3>4, Zenon
  <2>4. ShutdownInv'
    <3>1. \A q \in Procs : pc'[q] \in Exclusive => pc[q] \in Exclusive
      BY <2>0, Zenon DEF Moved, Exclusive, Shut
    <3>2. \A q \in Procs : pc'[q] \in Shut => pc[q] \in Shut
      BY <2>0, Zenon DEF Moved
    <3>3. pc'["writer"] = "fail_pending" => Cancelled
      BY <2>0, Names, Zenon DEF Moved, ControlInv, ShutdownInv
    <3>4. life.released
      BY Zenon DEF CloseDone, ControlInv, ShutdownInv
    <3>q. QED
      BY <2>0, <3>1, <3>2, <3>3, <3>4, Zenon DEF ControlInv, ShutdownInv, Cancelled
  <2>q. QED
    BY <2>0, <2>1, <2>3, <2>4, Zenon DEF ControlInv
(* Returning from shutdown: p goes on where its call said.                 *)
<1>ReturnMoves. ASSUME ControlInv, NEW p \in Procs, pc[p] \in Shut, ReturnShutdown(p)
                PROVE  /\ Moved(p, call[p].then)
                       /\ call' = [q \in Procs |-> call'[q]]
                       /\ \A q \in Procs : q # p => call'[q] = call[q]
                       /\ call[p].then \in Points(p) \ (Shut \cup {"new"})
  <2> USE <1>ReturnMoves
  <2>1. Moved(p, call[p].then)
    BY GotoMoves, Zenon DEF ReturnShutdown, ControlInv, PcInv
  <2>2. call' = [q \in Procs |-> call'[q]] /\ \A q \in Procs : q # p => call'[q] = call[q]
    <3>1. PICK r : r = NoCall
      BY Zenon
    <3>2. call' = [call EXCEPT ![p] = r]
      BY <3>1, Zenon DEF ReturnShutdown
    <3>q. QED
      BY <3>2, Zenon DEF ControlInv, PcInv
  <2>3. call[p].then \in Thens(p) /\ pc[p] \in Points(p)
    BY Zenon DEF ControlInv, PcInv
  <2>4. Thens(p) \cap (Shut \cup {"new"}) = {} /\ (pc[p] \in Points(p) => Thens(p) \subseteq Points(p))
    <3>1. CASE p \in Producers
      BY <3>1, <2>3, PointsAre DEF Shut
    <3>2. CASE p \in Closers
      <4>1. Points(p) = Closing \cup Shut \cup {"idle", "close_done", "exited"}
        BY <3>2, PointsAre, Zenon
      <4>2. Thens(p) = {"close_done", "close_return"}
        BY <3>2, ThensAre, Zenon
      <4>q. QED
        BY <4>1, <4>2, Zenon DEF Shut, Closing
    <3>3. CASE p \in {"starter", "aborter"}
      BY <3>3, PointsAre, ThensAre DEF Shut, Closing
    <3>4. CASE p \in {"watcher", "waiter"}
      BY <3>4, PointsAre, ThensAre DEF Shut, Closing
    <3>5. CASE p = "callback"
      BY <3>5, <2>3, PointsAre, Zenon DEF Shut
    <3>6. CASE p \in {"reader", "writer"}
      BY <3>6, PointsAre, ThensAre DEF Shut, Closing
    <3>7. CASE p \in {"handler", "maintenance"}
      BY <3>7, PointsAre, ThensAre DEF Shut, Closing
    <3>q. QED
      BY <3>1, <3>2, <3>3, <3>4, <3>5, <3>6, <3>7, Zenon DEF Procs, Loops
  <2>q. QED
    BY <2>1, <2>2, <2>3, <2>4, Zenon
(* Returning keeps the invariant, once the shared shutdown is done.        *)
<1>ReturnControl.
    ASSUME ControlInv, NEW p \in Procs, pc[p] \in Shut, ReturnShutdown(p),
           life.shutdownOnce # "free", pc[p] \in Exclusive \/ life.shutdownOnce = "done",
           life' = [life EXCEPT !.released = TRUE, !.shutdownOnce = "done"]
    PROVE  ControlInv'
  <2> USE <1>ReturnControl
  <2>b. PICK b : b = call[p].then
    BY Zenon
  <2>0. /\ Moved(p, b) /\ b \in Points(p) \ (Shut \cup {"new"})
        /\ call' = [q \in Procs |-> call'[q]]
        /\ \A q \in Procs : q # p => call'[q] = call[q]
    BY <2>b, <1>ReturnMoves, Zenon
  <2>l. /\ life' \in LifeType /\ life'.released /\ life'.shutdownOnce = "done"
        /\ life'.started = life.started /\ life'.startOnce = life.startOnce
        /\ life'.closing = life.closing /\ life'.terminal = life.terminal
        /\ life'.cancelled = life.cancelled /\ life'.done = life.done
    BY Zenon DEF ControlInv, LifeType
  <2>1. PcInv'
    BY <2>0, Zenon DEF ControlInv, PcInv, Moved
  <2>2. \A q \in Procs : Ending(q)' <=> Ending(q)
    BY <2>0, <2>b, Zenon DEF Ending, Moved, Shut
  <2>3. StartInv'
    <3>1. p \in Loops \cup {"watcher", "waiter", "callback"} => life.started
      BY Zenon DEF ControlInv, StartInv, Shut
    <3>2. p \in Loops => pc["waiter"] \in {"new", "wait"}
      BY Zenon DEF ControlInv, StartInv, Shut
    <3>3. \A q \in Loops \cup {"watcher", "waiter", "callback"} : q # p => pc'[q] = pc[q]
      BY <2>0, Names DEF Moved
    <3>4. CASE p = "waiter"
      <4>1. pc'["waiter"] = "close_done" /\ pc["waiter"] \notin {"new", "wait"}
        BY <3>4, <2>0, <2>b, ThensAre, Names, Zenon DEF Moved, ControlInv, PcInv, Shut
      <4>2. \A q \in Loops : q # "waiter"
        BY Zenon DEF Loops
      <4>q. QED
        BY <2>l, <2>2, <3>1, <3>3, <3>4, <4>1, <4>2 DEF ControlInv, StartInv
    <3>5. CASE p # "waiter"
      BY <2>l, <2>2, <3>1, <3>2, <3>3, <3>5 DEF ControlInv, StartInv
    <3>q. QED
      BY <3>4, <3>5, Zenon
  <2>4. ShutdownInv'
    <3>1. \A q \in Procs : pc'[q] \notin Exclusive
      BY <2>0, Zenon DEF Moved, Exclusive, Shut, ControlInv, ShutdownInv
    <3>2. \A q \in Procs : pc'[q] \in Shut => pc[q] \in Shut
      BY <2>0, Zenon DEF Moved
    <3>3. life.cancelled # None
      BY Zenon DEF ControlInv, ShutdownInv
    <3>q. QED
      BY <2>l, <3>1, <3>2, <3>3, Zenon DEF ControlInv, ShutdownInv, Cancelled
  <2>q. QED
    BY <2>l, <2>1, <2>3, <2>4, Zenon DEF ControlInv
(* Within the body of shutdownOnce, p moves from a to b.                   *)
<1>BodyControl.
    ASSUME ControlInv, NEW p \in Procs, NEW b \in Exclusive, pc[p] \in Shut, Goto(p, b),
           UNCHANGED call, life' \in LifeType, life'.shutdownOnce = "busy",
           life'.cancelled # None, life'.closing,
           pc[p] \in Exclusive \/ life.shutdownOnce = "free",
           life'.started = life.started, life'.startOnce = life.startOnce,
           life'.terminal = life.terminal, life'.done = life.done, life'.released = life.released
    PROVE  ControlInv'
  <2> USE <1>BodyControl
  <2>0. Moved(p, b)
    BY GotoMoves, Zenon DEF ControlInv, PcInv
  <2>1. PcInv'
    <3>1. b \in Points(p)
      <4>0. b \in Shut /\ pc[p] \in Points(p)
        BY Zenon DEF Shut, Exclusive, ControlInv, PcInv
      <4>1. CASE p \in Producers
        BY <4>0, <4>1, PointsAre DEF Shut
      <4>2. CASE p \in Closers
        BY <4>0, <4>2, PointsAre
      <4>3. CASE p = "callback"
        BY <4>0, <4>3, PointsAre, Zenon DEF Shut
      <4>4. CASE p \in Loops \cup {"starter", "aborter", "watcher", "waiter"}
        BY <4>0, <4>4, PointsAre, Zenon DEF Loops
      <4>q. QED
        BY <4>1, <4>2, <4>3, <4>4, Zenon DEF Procs
    <3>q. QED
      BY <2>0, <3>1, Zenon DEF ControlInv, PcInv, Moved
  <2>2. \A q \in Procs : Ending(q)' <=> Ending(q)
    BY <2>0, Zenon DEF Ending, Moved, Shut, Exclusive
  <2>3. StartInv'
    <3>1. p \in Loops \cup {"watcher", "waiter", "callback"} => life.started
      BY Zenon DEF ControlInv, StartInv, Shut
    <3>2. p \in Loops => pc["waiter"] \in {"new", "wait"}
      BY Zenon DEF ControlInv, StartInv, Shut
    <3>3. \A q \in Loops \cup {"watcher", "waiter", "callback"} : q # p => pc'[q] = pc[q]
      BY <2>0, Names DEF Moved
    <3>4. p = "waiter" => pc'["waiter"] \notin {"new", "wait"} /\ pc["waiter"] \notin {"new", "wait"}
      BY <2>0, Zenon DEF Moved, Exclusive, Shut
    <3>5. "waiter" \notin Loops
      BY Zenon DEF Loops
    <3>q. QED
      BY <2>2, <3>1, <3>2, <3>3, <3>4, <3>5 DEF ControlInv, StartInv
  <2>4. ShutdownInv'
    <3>1. \A q \in Procs : q # p => pc[q] \notin Exclusive
      BY Zenon DEF ControlInv, ShutdownInv
    <3>2. \A q \in Procs : pc'[q] \in Exclusive => q = p
      BY <2>0, <3>1, Zenon DEF Moved
    <3>3. \A q \in Procs : pc'[q] \in Shut => pc[q] \in Shut
      BY <2>0, Zenon DEF Moved
    <3>4. b \notin {"close_done", "fail_pending"}
      BY Zenon DEF Exclusive
    <3>5. \A q \in Procs : pc'[q] = "close_done" => pc[q] = "close_done"
      BY <2>0, <3>4, Zenon DEF Moved
    <3>6. ~life.released
      BY Zenon DEF ControlInv, ShutdownInv
    <3>q. QED
      BY <3>2, <3>3, <3>5, <3>6, Zenon DEF ControlInv, ShutdownInv, Cancelled, LifeType
  <2>q. QED
    BY <2>1, <2>3, <2>4, Zenon DEF ControlInv
(* Start starts the loops once, or claims a runtime it must end.           *)
<1>StartControl. ASSUME ControlInv, Start PROVE ControlInv'
  <2> USE <1>StartControl
  <2>0. "starter" \in Procs /\ pc["starter"] = "idle"
    BY Names, Zenon DEF Start
  <2>1. CASE /\ life.startOnce = "free"
             /\ CallShutdown([life EXCEPT !.startOnce = "busy"], "starter", "context", "close_done")
    <3>1. "close_done" \in Thens("starter") /\ "shutdown" \in Points("starter")
      BY PointsAre, ThensAre, Zenon DEF Shut
    <3>q. QED
      BY <2>0, <2>1, <3>1, <1>ClaimControl, Zenon DEF Causes, Exclusive
  <2>2. CASE /\ life.startOnce = "free"
             /\ life' = [life EXCEPT !.startOnce = "done", !.started = TRUE]
             /\ pc' = [pc EXCEPT !["starter"] = "exited", !["reader"] = "read",
                                 !["writer"] = "poll", !["handler"] = "poll",
                                 !["maintenance"] = "select",
                                 !["watcher"] = "watch", !["waiter"] = "wait"]
             /\ UNCHANGED call
    <3>1. /\ pc' = [q \in Procs |-> pc'[q]]
          /\ pc'["starter"] = "exited" /\ pc'["reader"] = "read" /\ pc'["writer"] = "poll"
          /\ pc'["handler"] = "poll" /\ pc'["maintenance"] = "select"
          /\ pc'["watcher"] = "watch" /\ pc'["waiter"] = "wait"
          /\ \A q \in Procs : q \notin Loops \cup {"starter", "watcher", "waiter"} => pc'[q] = pc[q]
      BY <2>2, Names, Zenon DEF ControlInv, PcInv, Loops
    <3>2. /\ life' \in LifeType /\ life'.startOnce = "done" /\ life'.started
          /\ life'.shutdownOnce = life.shutdownOnce /\ life'.cancelled = life.cancelled
          /\ life'.released = life.released /\ life'.done = life.done
          /\ life'.closing = life.closing /\ life'.terminal = life.terminal
      BY <2>2, Zenon DEF ControlInv, LifeType
    <3>3. /\ \A q \in Loops \cup {"starter", "watcher", "waiter"} :
               pc'[q] \in {"exited", "read", "poll", "select", "watch", "wait"}
          /\ \A q \in Loops : pc'[q] \in {"read", "poll", "select"}
      BY <3>1, Zenon DEF Loops
    <3>4. PcInv'
      <4>1. \A q \in Loops \cup {"starter", "watcher", "waiter"} : pc'[q] \in Points(q)
        BY <3>1, PointsAre DEF Loops
      <4>2. \A q \in Procs : pc'[q] \in Points(q)
        BY <3>1, <4>1, Zenon DEF ControlInv, PcInv
      <4>3. \A q \in Procs : pc'[q] \in Shut => pc[q] \in Shut
        BY <3>1, <3>3, Zenon DEF Shut
      <4>q. QED
        BY <2>2, <3>1, <4>2, <4>3, Zenon DEF ControlInv, PcInv
    <3>5. \A q \in Procs : ~Ending(q)'
      <4>1. \A q \in Procs : ~Ending(q)
        BY <2>2, Zenon DEF ControlInv, StartInv
      <4>2. \A q \in Procs : \/ pc'[q] = pc[q]
                             \/ pc'[q] \in {"exited", "read", "poll", "select", "watch", "wait"}
        BY <3>1, <3>3, Zenon
      <4>3. UNCHANGED call
        BY <2>2, Zenon
      <4>q. QED
        BY <4>1, <4>2, <4>3, Zenon DEF Ending, Shut
    <3>6. StartInv'
      <4>1. life.done = 0
        BY <2>2, Zenon DEF ControlInv, StartInv
      <4>q. QED
        BY <3>1, <3>2, <3>5, <4>1, Zenon DEF StartInv
    <3>7. ShutdownInv'
      <4>1. \A q \in Procs : /\ pc'[q] \in Exclusive => pc[q] \in Exclusive
                             /\ pc'[q] \in Shut => pc[q] \in Shut
                             /\ pc'[q] = "close_done" => pc[q] = "close_done"
        BY <3>1, <3>3, Zenon DEF Shut, Exclusive
      <4>q. QED
        BY <3>1, <3>2, <4>1 DEF ControlInv, ShutdownInv, Cancelled
    <3>q. QED
      BY <3>2, <3>4, <3>6, <3>7, Zenon DEF ControlInv
  <2>3. CASE Goto("starter", "exited") /\ UNCHANGED <<call, life>>
    <3>1. Hop("starter", "exited")
      BY <2>0, <2>3, <1>GotoHops, Zenon DEF ControlInv
    <3>2. "exited" \in Points("starter")
      BY PointsAre, Zenon
    <3>3. /\ "exited" \notin Shut \cup {"close_done"}
          /\ pc["starter"] \notin Exclusive \cup {"new", "exited", "close_done"}
      BY <2>0, Zenon DEF Exclusive, Shut
    <3>q. QED
      BY <2>0, <3>1, <3>2, <3>3, <1>HopControl, Zenon
  <2>q. QED
    BY <2>1, <2>2, <2>3, Zenon DEF Start
(* The body of shutdownOnce runs once, and its callers return after it.    *)
<1>ShutdownControl. ASSUME ControlInv, NEW p \in Procs, Shutdown(p) PROVE ControlInv'
  <2> USE <1>ShutdownControl
  <2>1. CASE ShutdownEnter(p)
    <3>0. pc[p] = "shutdown" /\ pc[p] \in Shut /\ call[p].cause \in Causes
      BY <2>1, Zenon DEF ShutdownEnter, Shut, ControlInv, PcInv
    <3>1. CASE /\ life.shutdownOnce = "free"
               /\ life' = [life EXCEPT !.shutdownOnce = "busy", !.closing = TRUE,
                                       !.cancelled = call[p].cause]
               /\ Goto(p, "lock") /\ UNCHANGED call
      <4>1. PICK e : e = call[p].cause
        BY Zenon
      <4>2. /\ life' \in LifeType /\ life'.shutdownOnce = "busy" /\ life'.closing
            /\ life'.cancelled = e
            /\ life'.started = life.started /\ life'.startOnce = life.startOnce
            /\ life'.terminal = life.terminal /\ life'.done = life.done
            /\ life'.released = life.released
        BY <3>0, <3>1, <4>1, Zenon DEF ControlInv, LifeType
      <4>3. e # None
        BY <3>0, <4>1, Zenon DEF Causes, None
      <4>q. QED
        BY <3>0, <3>1, <4>2, <4>3, <1>BodyControl, Zenon DEF Exclusive
    <3>2. CASE life.shutdownOnce = "done" /\ ReturnShutdown(p) /\ UNCHANGED life
      <4>1. life' = [life EXCEPT !.released = TRUE, !.shutdownOnce = "done"]
        BY <3>2, Zenon DEF ControlInv, ShutdownInv, LifeType
      <4>q. QED
        BY <3>0, <3>2, <4>1, <1>ReturnControl, Zenon
    <3>q. QED
      BY <2>1, <3>1, <3>2, Zenon DEF ShutdownEnter
  <2>2. ASSUME NEW b \in Exclusive, pc[p] \in Exclusive, Goto(p, b), UNCHANGED <<call, life>>
        PROVE  ControlInv'
    <3>1. life.shutdownOnce = "busy" /\ life.cancelled # None /\ life.closing /\ pc[p] \in Shut
      BY <2>2, Zenon DEF ControlInv, ShutdownInv, LifeType, Cancelled, Exclusive, Shut
    <3>q. QED
      BY <2>2, <3>1, <1>BodyControl, Zenon DEF ControlInv
  <2>3. CASE ShutdownLock(p)
    BY <2>2, <2>3, Zenon DEF ShutdownLock, Exclusive
  <2>4. CASE ShutdownDispose(p)
    <3>1. CASE UNCHANGED pc
      BY <2>4, <3>1 DEF ShutdownDispose, ControlInv, PcInv, StartInv, ShutdownInv, Ending, Cancelled
    <3>2. CASE Goto(p, "release")
      BY <2>2, <2>4, <3>2, Zenon DEF ShutdownDispose, Exclusive
    <3>q. QED
      BY <2>4, <3>1, <3>2, Zenon DEF ShutdownDispose
  <2>5. CASE ShutdownRelease(p)
    <3>1. pc[p] \in Exclusive /\ pc[p] \in Shut
      BY <2>5, Zenon DEF ShutdownRelease, Exclusive, Shut
    <3>2. life.shutdownOnce = "busy"
      BY <3>1, Zenon DEF ControlInv, ShutdownInv
    <3>q. QED
      BY <2>5, <3>1, <3>2, <1>ReturnControl, Zenon DEF ShutdownRelease
  <2>q. QED
    BY <2>1, <2>3, <2>4, <2>5, Zenon DEF Shutdown
(* closeGracefully, step by step.                                          *)
<1>CloseControl. ASSUME ControlInv, NEW p \in Graceful, closeGracefully(p) PROVE ControlInv'
  <2> USE <1>CloseControl
  <2>0. /\ p \in Procs /\ p # "waiter" /\ p # "writer"
        /\ Closing \cup Shut \cup {"exited"} \subseteq Points(p)
        /\ "close_return" \in Thens(p)
        /\ CloseCause(p) \in Causes
    BY GracefulAre, CloseCauseIs, Zenon
  <2>a. pc[p] \in Closing
    BY Zenon DEF closeGracefully, CloseEnter, CloseClaim, CloseLease, CloseRequest, CloseWait,
           CloseReturn, Closing
  <2>b. /\ pc[p] \notin Exclusive \cup {"new", "exited", "close_done"}
        /\ Closing \cap (Shut \cup {"close_done"}) = {} /\ "exited" \notin Shut
        /\ "shutdown" \in Shut
    BY <2>a, Zenon DEF Closing, Exclusive, Shut
  <2>c. ASSUME NEW b \in Closing \cup {"exited"}, Hop(p, b) PROVE ControlInv'
    <3>1. b \in Points(p) /\ b \notin Shut \cup {"close_done"} /\ b # "fail_pending"
      BY <2>0, <2>b, Zenon DEF Closing
    <3>q. QED
      BY <2>0, <2>b, <2>c, <3>1, <1>HopControl, Zenon
  <2>d. ASSUME NEW b \in Closing \cup {"exited"}, Goto(p, b), UNCHANGED <<call, life>>
        PROVE ControlInv'
    BY <2>0, <2>c, <2>d, <1>GotoHops, Zenon DEF ControlInv
  <2>e. ASSUME CallShutdown(life, p, CloseCause(p), "close_return") PROVE ControlInv'
    <3>1. "shutdown" \in Points(p) /\ "close_return" \in Thens(p) \ {"close_done"}
      BY <2>0, <2>b, Zenon
    <3>q. QED
      BY <2>0, <2>b, <2>e, <3>1, <1>CallControl, Zenon
  <2>1. CASE CloseEnter(p)
    <3>1. CASE /\ life' = [recordTerminal(life, CloseCause(p)) EXCEPT
                             !.closeOnce = "busy", !.closing = TRUE]
               /\ Goto(p, "close_claim")
      <4>1. Moved(p, "close_claim") /\ UNCHANGED call
        BY <2>0, <2>1, <3>1, GotoMoves, Zenon DEF ControlInv, PcInv, CloseEnter
      <4>2. PICK e : e = CloseCause(p)
        BY Zenon
      <4>3. life' = [life EXCEPT !.terminal = IF @ = None THEN e ELSE @,
                                 !.closeOnce = "busy", !.closing = TRUE]
        BY <3>1, <4>2, Zenon DEF recordTerminal, ControlInv, LifeType
      <4>4. e \in Causes /\ e # None
        BY <2>0, <4>2, Zenon DEF Causes, None
      <4>5. life \in LifeType
        BY Zenon DEF ControlInv
      <4>6. Hop(p, "close_claim")
        BY <4>1, <4>3, <4>4, <4>5, Zenon DEF Hop, LifeType
      <4>q. QED
        BY <2>c, <4>6, Zenon DEF Closing
    <3>2. CASE Goto(p, "exited") /\ UNCHANGED life
      BY <2>1, <2>d, <3>2, Zenon DEF CloseEnter
    <3>q. QED
      BY <2>1, <3>1, <3>2, Zenon DEF CloseEnter
  <2>2. CASE CloseClaim(p)
    <3>1. CASE /\ life.startOnce = "free"
               /\ CallShutdown([life EXCEPT !.startOnce = "busy"], p, CloseCause(p), "close_done")
      <4>1. p \in Closers
        <5>1. \A q \in {"watcher", "maintenance"} : pc[q] = "new"
          BY <3>1 DEF ControlInv, StartInv, Loops
        <5>q. QED
          BY <2>b, <5>1, GracefulAre, Zenon
      <4>2. "close_done" \in Thens(p) /\ "shutdown" \in Points(p)
        BY <2>0, <2>b, <4>1, ThensAre, Zenon
      <4>q. QED
        BY <2>0, <2>b, <3>1, <4>2, <1>ClaimControl, Zenon
    <3>2. CASE Goto(p, "close_lease") /\ UNCHANGED <<life, call>>
      BY <2>d, <3>2, Zenon DEF Closing
    <3>3. CASE Goto(p, "close_return") /\ UNCHANGED <<life, call>>
      BY <2>d, <3>3, Zenon DEF Closing
    <3>q. QED
      BY <2>2, <3>1, <3>2, <3>3, Zenon DEF CloseClaim
  <2>3. CASE CloseLease(p)
    BY <2>3, <2>d, Zenon DEF CloseLease, Closing
  <2>4. CASE CloseRequest(p)
    BY <2>4, <2>d, <2>e, Zenon DEF CloseRequest, CloseCancelled, CloseTimer, Closing
  <2>5. CASE CloseWait(p)
    BY <2>5, <2>e, Zenon DEF CloseWait, CloseCancelled, CloseTimer
  <2>6. CASE CloseReturn(p)
    <3>1. Moved(p, "exited") /\ UNCHANGED call
      BY <2>0, <2>6, GotoMoves, Zenon DEF ControlInv, PcInv, CloseReturn
    <3>2. life' = [life EXCEPT !.closeOnce = "done"] /\ life \in LifeType
      BY <2>6, Zenon DEF ControlInv, CloseReturn
    <3>3. Hop(p, "exited")
      BY <3>1, <3>2, Zenon DEF Hop, LifeType
    <3>q. QED
      BY <2>c, <3>3, Zenon
  <2>q. QED
    BY <2>1, <2>2, <2>3, <2>4, <2>5, <2>6, Zenon DEF closeGracefully
(* The senders never touch the connection's flags.                         *)
<1>SendControl.
    ASSUME ControlInv, NEW p \in Producers, SendEnter(p) \/ SendCapacity(p) \/ SendAwait(p)
    PROVE  ControlInv'
  <2> USE <1>SendControl
  <2>0. p \in Procs /\ p # "waiter" /\ pc[p] \in {"idle", "capacity", "await"}
    BY Names, Zenon DEF SendEnter, SendCapacity, SendAwait
  <2>1. UNCHANGED <<call, life>>
    BY Zenon DEF SendEnter, SendCapacity, SendAwait
  <2>2. \E b \in {"capacity", "await", "exited"} : Goto(p, b)
    BY Zenon DEF SendEnter, SendCapacity, SendAwait, Accept, Refuse
  <2>3. PICK b \in {"capacity", "await", "exited"} : Goto(p, b)
    BY <2>2, Zenon
  <2>4. Hop(p, b)
    BY <2>0, <2>1, <2>3, <1>GotoHops, Zenon DEF ControlInv
  <2>5. b \in Points(p)
    BY PointsAre
  <2>q. QED
    BY <2>0, <2>4, <2>5, <1>HopControl, Zenon DEF Exclusive, Shut
(* writeLoop starts or ends nothing but its own part.                      *)
<1>WriterControl. ASSUME ControlInv, WriterNext PROVE ControlInv'
  <2> USE <1>WriterControl
  <2>w. PICK w : w = "writer"
    BY Zenon
  <2>0. /\ w \in Procs /\ w # "waiter"
        /\ Points(w) = Shut \cup {"new", "poll", "select", "encrypt", "write", "write_rekey",
                                  "fail_pending", "exited"}
        /\ Thens(w) = {"fail_pending"}
    BY <2>w, Names, PointsAre, ThensAre, Zenon
  <2>a. pc[w] \in {"poll", "select", "encrypt", "write", "write_rekey", "fail_pending"}
    BY <2>w, Zenon DEF WriterNext, WriterStep, WriterPoll, WriterSelect, Encrypt, WriteInterrupted,
                WriterExit, WriteDone, WriteFails
  <2>b. pc[w] \notin Exclusive \cup {"new", "exited", "close_done"}
    BY <2>a, Zenon DEF Exclusive
  <2>c. ASSUME NEW b \in {"poll", "select", "encrypt", "write", "write_rekey", "fail_pending", "exited"},
               Goto(w, b), UNCHANGED <<call, life>>, b = "fail_pending" => Cancelled
        PROVE  ControlInv'
    <3>1. Hop(w, b)
      BY <2>0, <2>c, <1>GotoHops, Zenon DEF ControlInv
    <3>2. b \in Points(w) /\ b \notin Shut \cup {"close_done"}
      BY <2>0, Zenon DEF Shut
    <3>q. QED
      BY <2>0, <2>b, <2>c, <3>1, <3>2, <1>HopControl, Zenon
  <2>d. ASSUME NEW e \in Causes, CallShutdown(life, w, e, "fail_pending") PROVE ControlInv'
    <3>1. "shutdown" \in Points(w) /\ "fail_pending" \in Thens(w) \ {"close_done"}
      BY <2>0, Zenon DEF Shut
    <3>q. QED
      BY <2>0, <2>b, <2>d, <3>1, <1>CallControl, Zenon
  <2>e. ASSUME NEW e \in Causes \cup {None}, WriteResult(e) PROVE ControlInv'
    <3>1. CASE writing \in Graceful
      BY <2>d, <2>e, <2>w, <3>1, CloseCauseIs, Zenon DEF WriteResult
    <3>2. CASE writing \notin Graceful /\ e # None
      BY <2>d, <2>e, <2>w, <3>2, Zenon DEF WriteResult
    <3>3. CASE writing \notin Graceful /\ e = None
      BY <2>c, <2>e, <2>w, <3>3, Zenon DEF WriteResult
    <3>q. QED
      BY <3>1, <3>2, <3>3, Zenon
  <2>f. {"context", "io"} \subseteq Causes
    BY Zenon DEF Causes
  <2>1. CASE WriterPoll
    BY <2>1, <2>c, <2>w, Zenon DEF WriterPoll, TakeClose, Take
  <2>2. CASE WriterSelect
    BY <2>2, <2>c, <2>w, Zenon DEF WriterSelect, TakeClose, Take
  <2>3. CASE Encrypt
    BY <2>3, <2>c, <2>e, <2>f, <2>w, Zenon DEF Encrypt
  <2>4. CASE WriteInterrupted
    BY <2>4, <2>e, <2>f, Zenon DEF WriteInterrupted
  <2>5. CASE WriterExit
    <3>1. CASE UNCHANGED pc
      BY <2>5, <3>1, Zenon DEF WriterExit, ControlInv, PcInv, StartInv, ShutdownInv, Ending, Cancelled
    <3>2. CASE Goto(w, "exited")
      BY <2>5, <2>c, <3>2, Zenon DEF WriterExit
    <3>q. QED
      BY <2>5, <2>w, <3>1, <3>2, Zenon DEF WriterExit
  <2>6. CASE WriteDone
    BY <2>6, <2>c, <2>e, <2>w, Zenon DEF WriteDone
  <2>7. CASE WriteFails
    BY <2>7, <2>e, <2>f, Zenon DEF WriteFails
  <2>q. QED
    BY <2>1, <2>2, <2>3, <2>4, <2>5, <2>6, <2>7, Zenon DEF WriterNext, WriterStep
(* readLoop starts or ends nothing but its own part.                       *)
<1>ReaderControl. ASSUME ControlInv, ReaderNext PROVE ControlInv'
  <2> USE <1>ReaderControl
  <2>w. PICK w : w = "reader"
    BY Zenon
  <2>0. /\ w \in Procs /\ w # "waiter"
        /\ Points(w) = Shut \cup {"new", "read", "dispatch", "pong", "pong_capacity", "exited"}
        /\ Thens(w) = {"exited"}
    BY <2>w, Names, PointsAre, ThensAre, Zenon
  <2>a. pc[w] \in {"read", "dispatch", "pong", "pong_capacity"}
    BY <2>w, Zenon DEF ReaderNext, ReaderStep, ReadInterrupted, PongEnter, PongCapacity, Dispatch,
                ReadFails, Read
  <2>b. pc[w] \notin Exclusive \cup {"new", "exited", "close_done"}
    BY <2>a, Zenon DEF Exclusive
  <2>c. ASSUME NEW b \in {"read", "dispatch", "pong", "pong_capacity", "exited"},
               Goto(w, b), UNCHANGED <<call, life>>
        PROVE  ControlInv'
    <3>1. Hop(w, b)
      BY <2>0, <2>c, <1>GotoHops, Zenon DEF ControlInv
    <3>2. b \in Points(w) /\ b \notin Shut \cup {"close_done"} /\ b # "fail_pending"
      BY <2>0, Zenon DEF Shut
    <3>q. QED
      BY <2>0, <2>b, <3>1, <3>2, <1>HopControl, Zenon
  <2>d. ASSUME NEW e \in Causes, CallShutdown(life, w, e, "exited") PROVE ControlInv'
    <3>1. "shutdown" \in Points(w) /\ "exited" \in Thens(w) \ {"close_done"}
      BY <2>0, Zenon DEF Shut
    <3>q. QED
      BY <2>0, <2>b, <2>d, <3>1, <1>CallControl, Zenon
  <2>f. {"context", "io", "closed", "protocol", "handler_queue_full"} \subseteq Causes
    BY Zenon DEF Causes
  <2>1. CASE ReadInterrupted
    BY <2>1, <2>d, <2>f, <2>w, Zenon DEF ReadInterrupted
  <2>2. CASE ReadFails
    BY <2>2, <2>d, <2>f, <2>w, Zenon DEF ReadFails
  <2>3. CASE PongEnter
    <3>1. PICK e : e = IF Cancelled THEN "context" ELSE "closed"
      BY Zenon
    <3>2. e \in Causes
      BY <3>1, <2>f, Zenon
    <3>3. CallShutdown(life, w, e, "exited")
          \/ (Goto(w, "pong_capacity") /\ UNCHANGED <<call, life>>)
      BY <2>3, <2>w, <3>1, Zenon DEF PongEnter
    <3>q. QED
      BY <2>c, <2>d, <3>2, <3>3, Zenon
  <2>4. CASE PongCapacity
    BY <2>4, <2>c, <2>d, <2>f, <2>w, Zenon DEF PongCapacity
  <2>5. CASE Dispatch
    BY <2>5, <2>c, <2>d, <2>f, <2>w, Zenon DEF Dispatch
  <2>6. ASSUME NEW kind \in Inbound, Read(kind) PROVE ControlInv'
    <3>1. kind \in {"data", "ping", "other", "close", "bad"}
      BY ConnectionAssumption, Zenon
    <3>2. CASE kind = "data"
      BY <2>6, <3>2, <2>c, <2>w, Zenon DEF Read
    <3>3. CASE kind = "ping"
      BY <2>6, <3>3, <2>c, <2>w, Zenon DEF Read
    <3>4. CASE kind = "other"
      <4>1. UNCHANGED <<pc, call, life>>
        BY <2>6, <3>4, Zenon DEF Read
      <4>q. QED
        BY <4>1, Zenon DEF ControlInv, PcInv, StartInv, ShutdownInv, Ending, Cancelled
    <3>5. CASE kind = "close"
      BY <2>6, <3>5, <2>d, <2>f, <2>w, Zenon DEF Read
    <3>6. CASE kind = "bad"
      BY <2>6, <3>6, <2>d, <2>f, <2>w, Zenon DEF Read
    <3>q. QED
      BY <3>1, <3>2, <3>3, <3>4, <3>5, <3>6, Zenon
  <2>q. QED
    BY <2>1, <2>2, <2>3, <2>4, <2>5, <2>6, Zenon DEF ReaderNext, ReaderStep
(* Two goroutines of the handler's side move together.                     *)
<1>PairControl.
    ASSUME ControlInv, NEW a \in {"poll", "calling"}, NEW b \in {"new", "spawned"},
           pc["handler"] \in {"call", "calling", "grace"},
           pc' = [pc EXCEPT !["handler"] = a, !["callback"] = b], UNCHANGED <<call, life>>
    PROVE  ControlInv'
  <2> USE <1>PairControl
  <2>1. /\ pc' = [q \in Procs |-> pc'[q]] /\ pc'["handler"] = a /\ pc'["callback"] = b
        /\ \A q \in Procs : q \notin {"handler", "callback"} => pc'[q] = pc[q]
    BY Names, Zenon DEF ControlInv, PcInv
  <2>2. \A q \in Procs : /\ pc'[q] \in Shut => pc[q] \in Shut
                         /\ pc'[q] \in Exclusive => pc[q] \in Exclusive
                         /\ pc'[q] = "close_done" => pc[q] = "close_done"
                         /\ Ending(q)' => Ending(q)
    BY <2>1, Zenon DEF Shut, Exclusive, Ending
  <2>3. PcInv'
    <3>1. a \in Points("handler") /\ b \in Points("callback")
      BY PointsAre, Zenon
    <3>2. \A q \in Procs : pc'[q] \in Points(q)
      BY <2>1, <3>1, Zenon DEF ControlInv, PcInv
    <3>q. QED
      BY <2>1, <2>2, <3>2, Zenon DEF ControlInv, PcInv
  <2>4. StartInv'
    <3>1. life.started /\ pc["waiter"] \in {"new", "wait"}
      BY Zenon DEF ControlInv, StartInv, Loops
    <3>2. pc'["waiter"] = pc["waiter"]
      BY <2>1, Names, Zenon
    <3>q. QED
      BY <2>1, <2>2, <3>1, <3>2, Zenon DEF ControlInv, StartInv
  <2>5. ShutdownInv'
    <3>1. pc'["writer"] = pc["writer"]
      BY <2>1, Names, Zenon
    <3>q. QED
      BY <2>2, <3>1, Zenon DEF ControlInv, ShutdownInv, Cancelled
  <2>q. QED
    BY <2>3, <2>4, <2>5, Zenon DEF ControlInv
(* handlerLoop starts or ends nothing but its own part.                    *)
<1>HandlerControl. ASSUME ControlInv, HandlerNext PROVE ControlInv'
  <2> USE <1>HandlerControl
  <2>w. PICK w : w = "handler"
    BY Zenon
  <2>0. /\ w \in Procs /\ w # "waiter"
        /\ Points(w) = Shut \cup {"new", "poll", "select", "recheck", "call", "calling",
                                  "grace", "exited"}
        /\ Thens(w) = {"exited"}
    BY <2>w, Names, PointsAre, ThensAre, Zenon
  <2>c. ASSUME NEW b \in {"poll", "select", "recheck", "call", "grace", "exited"},
               pc[w] \in {"poll", "select", "recheck", "calling", "grace"},
               Goto(w, b), UNCHANGED <<call, life>>
        PROVE  ControlInv'
    <3>1. Hop(w, b)
      BY <2>0, <2>c, <1>GotoHops, Zenon DEF ControlInv
    <3>2. b \in Points(w) /\ b \notin Shut \cup {"close_done"} /\ b # "fail_pending"
      BY <2>0, Zenon DEF Shut
    <3>3. pc[w] \notin Exclusive \cup {"new", "exited", "close_done"}
      BY <2>c, Zenon DEF Exclusive
    <3>q. QED
      BY <2>0, <3>1, <3>2, <3>3, <1>HopControl, Zenon
  <2>1. CASE HandlerTake
    BY <2>1, <2>c, <2>w, Zenon DEF HandlerTake
  <2>2. CASE HandlerLoop
    <3>0. UNCHANGED <<call, life>>
      BY <2>2, Zenon DEF HandlerLoop
    <3>1. CASE HandlerCall
      BY <3>0, <3>1, <1>PairControl, Zenon DEF HandlerCall
    <3>2. CASE pc[w] = "poll" /\ Goto(w, IF Cancelled THEN "exited" ELSE "select")
      BY <2>c, <3>0, <3>2, Zenon
    <3>3. CASE pc[w] = "select" /\ Goto(w, "exited")
      BY <2>c, <3>0, <3>3, Zenon
    <3>4. CASE pc[w] = "recheck" /\ Goto(w, IF Cancelled THEN "exited" ELSE "call")
      BY <2>c, <3>0, <3>4, Zenon
    <3>5. CASE HandlerGrace \/ HandlerDetach
      BY <2>c, <2>w, <3>0, <3>5, Zenon DEF HandlerGrace, HandlerDetach
    <3>q. QED
      BY <2>2, <2>w, <3>1, <3>2, <3>3, <3>4, <3>5, Zenon DEF HandlerLoop
  <2>3. CASE HandlerResult
    <3>1. CASE /\ pc' = [pc EXCEPT !["handler"] = "poll", !["callback"] = "new"]
               /\ UNCHANGED <<call, life>>
      BY <2>3, <3>1, <1>PairControl, Zenon DEF HandlerResult
    <3>2. CASE CallShutdown(life, w, "handler", "exited")
      <4>1. /\ "shutdown" \in Points(w) /\ "exited" \in Thens(w) \ {"close_done"}
            /\ pc[w] \notin Exclusive \cup {"new", "exited", "close_done"}
            /\ "handler" \in Causes
        BY <2>0, <2>3, <2>w, Zenon DEF Shut, Exclusive, HandlerResult, Causes
      <4>q. QED
        BY <2>0, <3>2, <4>1, <1>CallControl, Zenon
    <3>q. QED
      BY <2>3, <2>w, <3>1, <3>2, Zenon DEF HandlerResult
  <2>4. ASSUME NEW b \in {"running", "returned", "failed"}, pc["callback"] \in {"spawned", "running"},
               Goto("callback", b), UNCHANGED <<call, life>>
        PROVE  ControlInv'
    <3>1. PICK c : c = "callback"
      BY Zenon
    <3>2. c \in Procs /\ c # "waiter" /\ b \in Points(c)
      BY <3>1, Names, PointsAre, Zenon
    <3>3. Hop(c, b)
      BY <2>4, <3>1, <3>2, <1>GotoHops, Zenon DEF ControlInv
    <3>4. /\ b \notin Shut \cup {"close_done"} /\ b # "fail_pending"
          /\ pc[c] \notin Exclusive \cup {"new", "exited", "close_done"}
      BY <2>4, <3>1, Zenon DEF Shut, Exclusive
    <3>q. QED
      BY <3>2, <3>3, <3>4, <1>HopControl, Zenon
  <2>5. CASE CallbackBegin
    BY <2>4, <2>5, Zenon DEF CallbackBegin
  <2>6. ASSUME NEW outcome \in {"returned", "failed"}, CallbackReturn(outcome) PROVE ControlInv'
    BY <2>4, <2>6, Zenon DEF CallbackReturn
  <2>q. QED
    BY <2>1, <2>2, <2>3, <2>5, <2>6, Zenon DEF HandlerNext, HandlerStep
(* Nor do the watcher, maintenanceLoop, Abort and calls of Close.          *)
<1>OtherControl. ASSUME ControlInv, OtherNext PROVE ControlInv'
  <2> USE <1>OtherControl
  <2>c. ASSUME NEW p \in Graceful, NEW b \in {"close", "exited"}, Hop(p, b),
               pc[p] \in {"idle", "select", "watch"}
        PROVE  ControlInv'
    <3>1. p \in Procs /\ p # "waiter" /\ Closing \cup {"exited"} \subseteq Points(p)
      BY GracefulAre, Zenon
    <3>2. /\ b \in Points(p) /\ b \notin Shut \cup {"close_done"} /\ b # "fail_pending"
          /\ pc[p] \notin Exclusive \cup {"new", "exited", "close_done"}
      BY <2>c, <3>1, Zenon DEF Shut, Exclusive, Closing
    <3>q. QED
      BY <2>c, <3>1, <3>2, <1>HopControl, Zenon
  <2>d. ASSUME NEW p \in Graceful, NEW b \in {"close", "exited"}, Goto(p, b),
               UNCHANGED <<call, life>>, pc[p] \in {"idle", "select", "watch"}
        PROVE  ControlInv'
    BY <2>c, <2>d, <1>GotoHops, GracefulAre, Zenon DEF ControlInv
  <2>g. "watcher" \in Graceful /\ "maintenance" \in Graceful /\ Closers \subseteq Graceful
    BY Zenon DEF Graceful
  <2>1. CASE MaintenanceExit
    BY <2>1, <2>d, <2>g, Zenon DEF MaintenanceExit
  <2>2. CASE IdleTimeout
    BY <2>2, <2>d, <2>g, Zenon DEF IdleTimeout
  <2>3. CASE KeepaliveTimeout
    <3>1. PICK p : p = "maintenance"
      BY Zenon
    <3>2. /\ p \in Procs /\ p # "waiter" /\ "shutdown" \in Points(p)
          /\ "exited" \in Thens(p) \ {"close_done"} /\ "keepalive_timeout" \in Causes
      BY <3>1, Names, PointsAre, ThensAre, Zenon DEF Shut, Causes
    <3>3. CallShutdown(life, p, "keepalive_timeout", "exited") /\ pc[p] = "select"
      BY <2>3, <3>1, Zenon DEF KeepaliveTimeout
    <3>q. QED
      BY <3>2, <3>3, <1>CallControl, Zenon DEF Exclusive
  <2>4. CASE Watch
    <3>1. CASE life' = recordTerminal(life, "context") /\ Goto("watcher", "close")
      <4>1. PICK w : w = "watcher"
        BY Zenon
      <4>2. Moved(w, "close") /\ UNCHANGED call
        BY <2>4, <3>1, <4>1, GotoMoves, Names, Zenon DEF Watch, ControlInv, PcInv
      <4>3. life \in LifeType /\ "context" \in Causes /\ "context" # None
        BY Zenon DEF ControlInv, Causes, None
      <4>4. Hop(w, "close")
        BY <3>1, <4>2, <4>3, Zenon DEF Hop, recordTerminal, LifeType
      <4>q. QED
        BY <2>4, <2>c, <2>g, <4>1, <4>4, Zenon DEF Watch
    <3>2. CASE Goto("watcher", "exited") /\ UNCHANGED life
      BY <2>4, <2>d, <2>g, <3>2, Zenon DEF Watch
    <3>q. QED
      BY <2>4, <3>1, <3>2, Zenon DEF Watch
  <2>5. CASE Abort
    <3>1. PICK p : p = "aborter"
      BY Zenon
    <3>2. /\ p \in Procs /\ p # "waiter" /\ "shutdown" \in Points(p)
          /\ "exited" \in Thens(p) \ {"close_done"} /\ "abort" \in Causes
      BY <3>1, Names, PointsAre, ThensAre, Zenon DEF Shut, Causes
    <3>3. CallShutdown(life, p, "abort", "exited") /\ pc[p] = "idle"
      BY <2>5, <3>1, Zenon DEF Abort
    <3>q. QED
      BY <3>2, <3>3, <1>CallControl, Zenon DEF Exclusive
  <2>6. ASSUME NEW p \in Closers, CloseCall(p) PROVE ControlInv'
    BY <2>6, <2>d, <2>g, Zenon DEF CloseCall
  <2>q. QED
    BY <2>1, <2>2, <2>3, <2>4, <2>5, <2>6, Zenon DEF OtherNext
(* The step as a whole.                                                   *)
<1>step. ASSUME ControlInv, [Next]_vars PROVE ControlInv'
  <2> USE <1>step
  <2>1. CASE StillNext
    <3>1. UNCHANGED <<pc, call, life>>
      BY <2>1, Zenon DEF StillNext, StartCancel, Ping, Finished, vars, CallerCancel
    <3>q. QED
      BY <3>1, Zenon DEF ControlInv, PcInv, StartInv, ShutdownInv, Ending, Cancelled
  <2>2. ASSUME NEW p \in Procs, Shutdown(p) \/ CloseDone(p) PROVE ControlInv'
    BY <2>2, <1>ShutdownControl, <1>CloseDoneControl, Zenon
  <2>q. QED
    BY <2>1, <2>2, StepsAre, <1>StartControl, <1>JoinControl, <1>OtherControl, <1>WriterControl, <1>ReaderControl,
       <1>HandlerControl, <1>CloseControl, <1>SendControl, Zenon
<1>q. QED
  BY <1>step, Zenon

(* The goroutines' control points and the connection's flags agree: the    *)
(* inductive invariant behind what connection_lifecycle.go says of Done.   *)
THEOREM ControlInductive == Spec => []ControlInv
<1>1. Init => ControlInv
  BY InitControl, Zenon
<1>2. ControlInv /\ [Next]_vars => ControlInv'
  BY NextControl, Zenon
<1>q. QED
  BY <1>1, <1>2, PTL DEF Spec

(* Done is closed once, after the loops and the disposal.                  *)
LEMMA ControlFinal == ASSUME ControlInv PROVE DoneIsFinal
<1>1. ASSUME life.done = 1, NEW p \in Loops PROVE pc[p] \in {"new", "exited"}
  <2>1. CASE life.started
    BY <1>1, <2>1 DEF ControlInv, StartInv
  <2>2. CASE ~life.started
    BY <1>1, <2>2, Zenon DEF ControlInv, StartInv
  <2>q. QED
    BY <2>1, <2>2, Zenon
<1>2. life.done = 1 => life.released /\ Cancelled /\ life.terminal # None
  BY Zenon DEF ControlInv, ShutdownInv, Cancelled
<1>3. life.done <= 1
  BY DEF ControlInv, StartInv
<1>q. QED
  BY <1>1, <1>2, <1>3, Zenon DEF DoneIsFinal

(* Done is closed once; by then every loop has exited and shutdown is over *)
(* (Start, closeGracefully and the goroutine that joins the loops).        *)
THEOREM DoneOnce == Spec => []DoneIsFinal
BY ControlInductive, ControlFinal, PTL

(* Every assignment to the flags leaves the recorded cause alone.          *)
LEMMA CauseStays ==
  ASSUME ControlInv, [Next]_vars, life.terminal # None
  PROVE  life'.terminal = life.terminal
<1>0. life \in LifeType
  BY Zenon DEF ControlInv
<1>a. ASSUME NEW p, NEW e, NEW d, CallShutdown(life, p, e, d)
      PROVE  life'.terminal = life.terminal
  BY <1>0, <1>a, Zenon DEF CallShutdown, recordTerminal, LifeType
<1>b. ASSUME NEW p, NEW e, NEW d, CallShutdown([life EXCEPT !.startOnce = "busy"], p, e, d)
      PROVE  life'.terminal = life.terminal
  BY <1>0, <1>b, Zenon DEF CallShutdown, recordTerminal, LifeType
<1>c. ASSUME NEW e, WriteResult(e) PROVE life'.terminal = life.terminal
  BY <1>a, <1>c, Zenon DEF WriteResult
<1>1. CASE StillNext
  BY <1>1, Zenon DEF StillNext, StartCancel, Ping, Finished, vars, CallerCancel
<1>2. CASE Start
  <2>1. CASE life' = [life EXCEPT !.startOnce = "done", !.started = TRUE]
    BY <1>0, <2>1, Zenon DEF LifeType
  <2>q. QED
    BY <1>2, <1>b, <2>1, Zenon DEF Start
<1>3. CASE Join
  BY <1>3, <1>a, Zenon DEF Join
<1>4. CASE OtherNext
  <2>1. CASE Watch
    <3>1. CASE life' = recordTerminal(life, "context")
      BY <1>0, <3>1, Zenon DEF recordTerminal, LifeType
    <3>q. QED
      BY <2>1, <3>1, Zenon DEF Watch
  <2>q. QED
    BY <1>4, <1>a, <2>1, Zenon DEF OtherNext, MaintenanceExit, IdleTimeout, KeepaliveTimeout, Abort, CloseCall
<1>5. CASE WriterNext
  BY <1>5, <1>c, Zenon DEF WriterNext, WriterStep, WriterPoll, WriterSelect, Encrypt, WriteInterrupted,
                    WriterExit, WriteDone, WriteFails
<1>6. CASE ReaderNext
  <2>1. ASSUME NEW kind \in Inbound, Read(kind) PROVE life'.terminal = life.terminal
    <3>1. kind \in {"data", "ping", "other", "close", "bad"}
      BY ConnectionAssumption, Zenon
    <3>q. QED
      BY <1>a, <2>1, <3>1, Zenon DEF Read
  <2>2. CASE ReaderStep \/ ReadFails
    BY <1>a, <2>2, Zenon DEF ReaderStep, ReadInterrupted, PongEnter, PongCapacity, Dispatch, ReadFails
  <2>q. QED
    BY <1>6, <2>1, <2>2, Zenon DEF ReaderNext
<1>7. CASE HandlerNext
  BY <1>7, <1>a, Zenon DEF HandlerNext, HandlerStep, HandlerTake, HandlerLoop, HandlerResult,
                    CallbackBegin, CallbackReturn
<1>8. ASSUME NEW p \in Procs, Shutdown(p) \/ CloseDone(p) PROVE life'.terminal = life.terminal
  <2>1. CASE CloseDone(p)
    BY <1>0, <2>1, Zenon DEF CloseDone, LifeType
  <2>2. CASE ShutdownEnter(p)
    BY <1>0, <2>2, Zenon DEF ShutdownEnter, LifeType
  <2>3. CASE ShutdownLock(p) \/ ShutdownDispose(p)
    BY <2>3, Zenon DEF ShutdownLock, ShutdownDispose
  <2>4. CASE ShutdownRelease(p)
    BY <1>0, <2>4, Zenon DEF ShutdownRelease, LifeType
  <2>q. QED
    BY <1>8, <2>1, <2>2, <2>3, <2>4, Zenon DEF Shutdown
<1>9. ASSUME NEW p \in Graceful, closeGracefully(p) PROVE life'.terminal = life.terminal
  <2>1. CASE CloseEnter(p)
    <3>1. PICK e : e = CloseCause(p)
      BY Zenon
    <3>2. CASE life' = [recordTerminal(life, e) EXCEPT !.closeOnce = "busy", !.closing = TRUE]
      BY <1>0, <3>2, Zenon DEF recordTerminal, LifeType
    <3>q. QED
      BY <2>1, <3>1, <3>2, Zenon DEF CloseEnter
  <2>2. CASE CloseClaim(p)
    BY <1>a, <1>b, <2>2, Zenon DEF CloseClaim
  <2>3. CASE CloseLease(p) \/ CloseRequest(p) \/ CloseWait(p)
    BY <1>a, <2>3, Zenon DEF CloseLease, CloseRequest, CloseWait, CloseCancelled, CloseTimer
  <2>4. CASE CloseReturn(p)
    BY <1>0, <2>4, Zenon DEF CloseReturn, LifeType
  <2>q. QED
    BY <1>9, <2>1, <2>2, <2>3, <2>4, Zenon DEF closeGracefully
<1>10. ASSUME NEW p \in Producers, SendEnter(p) \/ SendCapacity(p) \/ SendAwait(p)
       PROVE  life'.terminal = life.terminal
  BY <1>10, Zenon DEF SendEnter, SendCapacity, SendAwait
<1>q. QED
  BY <1>1, <1>2, <1>3, <1>4, <1>5, <1>6, <1>7, <1>8, <1>9, <1>10, StepsAre, Zenon

(* The first cause given to recordTerminal is the one Err reports for ever. *)
THEOREM CauseIsStable == Spec => CauseStable
<1>1. ControlInv /\ [Next]_vars => [life.terminal # None => life'.terminal = life.terminal]_vars
  BY CauseStays, Zenon
<1>q. QED
  BY <1>1, ControlInductive, PTL DEF Spec, CauseStable

(* Which goroutines a step moves.                                          *)
Only(p) == \A q \in Procs : q # p => pc'[q] = pc[q]

(* A step of a goroutine moves that goroutine and no other.                *)
LEMMA OnlyMoves ==
  ASSUME ControlInv
  PROVE  /\ StillNext => UNCHANGED pc
         /\ WriterNext => Only("writer")
         /\ ReaderNext => Only("reader")
         /\ Join => Only("waiter")
         /\ HandlerNext => \A q \in Procs \ {"handler", "callback"} : pc'[q] = pc[q]
         /\ \A p \in Procs : Shutdown(p) \/ CloseDone(p) => Only(p)
         /\ \A p \in Graceful : closeGracefully(p) => Only(p)
         /\ \A p \in Producers : SendEnter(p) \/ SendCapacity(p) \/ SendAwait(p) => Only(p)
         /\ OtherNext => \E p \in Graceful \cup {"aborter"} :
                           Only(p) /\ pc[p] \in {"idle", "select", "watch"}
                           /\ pc'[p] \in {"close", "shutdown", "exited"}
<1>0. pc = [q \in Procs |-> pc[q]]
  BY Zenon DEF ControlInv, PcInv
<1>a. ASSUME NEW p, NEW b, Goto(p, b) PROVE Only(p)
  BY <1>0, <1>a, Zenon DEF Only, Goto
<1>b. ASSUME NEW l, NEW p, NEW e, NEW d, CallShutdown(l, p, e, d) PROVE Only(p)
  BY <1>a, <1>b, Zenon DEF CallShutdown
<1>c. ASSUME NEW e, WriteResult(e) PROVE Only("writer")
  BY <1>a, <1>b, <1>c, Zenon DEF WriteResult
<1>s. ASSUME UNCHANGED pc, NEW p PROVE Only(p)
  BY <1>s, Zenon DEF Only
<1>1. StillNext => UNCHANGED pc
  BY Zenon DEF StillNext, StartCancel, Ping, Finished, vars, CallerCancel
<1>2. ASSUME WriterNext PROVE Only("writer")
  BY <1>2, <1>a, <1>c, <1>s, Zenon DEF WriterNext, WriterStep, WriterPoll, WriterSelect, TakeClose, Take,
     Encrypt, WriteInterrupted, WriterExit, WriteDone, WriteFails
<1>3. ASSUME ReaderNext PROVE Only("reader")
  <2>1. ASSUME NEW kind \in Inbound, Read(kind) PROVE Only("reader")
    <3>1. kind \in {"data", "ping", "other", "close", "bad"}
      BY ConnectionAssumption, Zenon
    <3>q. QED
      BY <1>a, <1>b, <1>s, <2>1, <3>1, Zenon DEF Read
  <2>q. QED
    BY <1>3, <1>a, <1>b, <2>1, Zenon DEF ReaderNext, ReaderStep, ReadInterrupted, PongEnter, PongCapacity,
       Dispatch, ReadFails
<1>4. Join => Only("waiter")
  BY <1>b, Zenon DEF Join
<1>5. ASSUME HandlerNext, NEW q \in Procs \ {"handler", "callback"} PROVE pc'[q] = pc[q]
  <2>1. CASE HandlerCall
    BY <1>0, <2>1, Zenon DEF HandlerCall
  <2>2. CASE HandlerResult
    <3>1. CASE pc' = [pc EXCEPT !["handler"] = "poll", !["callback"] = "new"]
      BY <1>0, <3>1, Zenon
    <3>q. QED
      BY <1>b, <2>2, <3>1, Zenon DEF HandlerResult, Only
  <2>3. CASE Only("handler") \/ Only("callback")
    BY <2>3, Zenon DEF Only
  <2>4. HandlerCall \/ HandlerResult \/ Only("handler") \/ Only("callback")
    BY <1>5, <1>a, Zenon DEF HandlerNext, HandlerStep, HandlerTake, HandlerLoop, HandlerGrace,
       HandlerDetach, CallbackBegin, CallbackReturn
  <2>q. QED
    BY <2>1, <2>2, <2>3, <2>4, Zenon
<1>6. ASSUME NEW p \in Procs, Shutdown(p) \/ CloseDone(p) PROVE Only(p)
  BY <1>6, <1>a, <1>s, Zenon DEF Shutdown, ShutdownEnter, ShutdownLock, ShutdownDispose, ShutdownRelease,
     ReturnShutdown, CloseDone
<1>7. ASSUME NEW p \in Graceful, closeGracefully(p) PROVE Only(p)
  BY <1>7, <1>a, <1>b, Zenon DEF closeGracefully, CloseEnter, CloseClaim, CloseLease, CloseRequest,
     CloseWait, CloseReturn, CloseCancelled, CloseTimer
<1>8. ASSUME NEW p \in Producers, SendEnter(p) \/ SendCapacity(p) \/ SendAwait(p) PROVE Only(p)
  BY <1>8, <1>a, Zenon DEF SendEnter, SendCapacity, SendAwait, Accept, Refuse
<1>9. ASSUME OtherNext
      PROVE  \E p \in Graceful \cup {"aborter"} :
               Only(p) /\ pc[p] \in {"idle", "select", "watch"}
               /\ pc'[p] \in {"close", "shutdown", "exited"}
  <2>a. /\ "watcher" \in Graceful \cap Procs /\ "maintenance" \in Graceful \cap Procs
        /\ Closers \subseteq Graceful /\ Closers \subseteq Procs /\ "aborter" \in Procs
    BY Names, Zenon DEF Graceful
  <2>b. ASSUME NEW p \in Procs, NEW b \in {"close", "exited", "shutdown"}, Goto(p, b)
        PROVE  Only(p) /\ pc'[p] \in {"close", "shutdown", "exited"}
    BY <1>0, <2>b, Zenon DEF Only, Goto
  <2>1. CASE MaintenanceExit
    BY <2>1, <2>a, <2>b, Zenon DEF MaintenanceExit
  <2>2. CASE IdleTimeout
    BY <2>2, <2>a, <2>b, Zenon DEF IdleTimeout
  <2>3. CASE KeepaliveTimeout
    BY <2>3, <2>a, <2>b, Zenon DEF KeepaliveTimeout, CallShutdown
  <2>4. CASE Watch
    BY <2>4, <2>a, <2>b, Zenon DEF Watch
  <2>5. CASE Abort
    BY <2>5, <2>a, <2>b, Zenon DEF Abort, CallShutdown
  <2>6. ASSUME NEW p \in Closers, CloseCall(p)
        PROVE  Only(p) /\ pc[p] = "idle" /\ pc'[p] = "close" /\ p \in Graceful
    BY <2>6, <2>a, <1>0, Zenon DEF CloseCall, Only, Goto
  <2>q. QED
    BY <1>9, <2>1, <2>2, <2>3, <2>4, <2>5, <2>6, Zenon DEF OtherNext
<1>q. QED
  BY <1>1, <1>2, <1>3, <1>4, <1>5, <1>6, <1>7, <1>8, <1>9, Zenon

(* Nobody else moves the writer, except that Start starts it and that it   *)
(* goes through shutdown.                                                  *)
Aside ==
  \/ pc'["writer"] = pc["writer"]
  \/ pc["writer"] = "new" /\ pc'["writer"] = "poll"
  \/ pc["writer"] \in Shut /\ pc'["writer"] \in Shut \cup {"fail_pending"}

(* Steps of the others leave writeLoop where it is, or start it.           *)
LEMMA WriterElsewhere ==
  ASSUME ControlInv, [Next]_vars
  PROVE  WriterNext \/ Aside
<1>0. "writer" \in Procs /\ "writer" \notin Graceful \cup Producers
  BY Names, GracefulAre, Zenon
<1>1. CASE StillNext \/ Join \/ ReaderNext \/ OtherNext \/ HandlerNext
  BY <1>0, <1>1, OnlyMoves, Zenon DEF Only, Aside
<1>2. ASSUME NEW p \in Procs, Shutdown(p) \/ CloseDone(p) PROVE Aside
  <2>1. CASE p # "writer"
    BY <1>0, <1>2, <2>1, OnlyMoves, Zenon DEF Only, Aside
  <2>2. CASE p = "writer"
    <3>1. pc = [q \in Procs |-> pc[q]] /\ pc["writer"] # "close_done"
      BY PointsAre, <1>0, Zenon DEF ControlInv, PcInv, Shut
    <3>2. pc["writer"] \in Shut => call["writer"].then = "fail_pending"
      BY ThensAre, <1>0, Zenon DEF ControlInv, PcInv
    <3>3. Shutdown("writer")
      BY <1>2, <2>2, <3>1, Zenon DEF CloseDone
    <3>4. pc["writer"] \in Shut
      BY <3>3, Zenon DEF Shutdown, ShutdownEnter, ShutdownLock, ShutdownDispose, ShutdownRelease, Shut
    <3>5. UNCHANGED pc \/ \E b \in {"lock", "dispose", "release", "fail_pending"} : Goto("writer", b)
      BY <3>2, <3>3, <3>4, Zenon DEF Shutdown, ShutdownEnter, ShutdownLock, ShutdownDispose,
         ShutdownRelease, ReturnShutdown
    <3>q. QED
      BY <1>0, <3>1, <3>4, <3>5, Zenon DEF Goto, Aside, Shut
  <2>q. QED
    BY <2>1, <2>2, Zenon
<1>3. CASE Start
  <2>1. CASE Only("starter")
    BY <1>0, <2>1, Zenon DEF Only, Aside
  <2>2. CASE /\ life.startOnce = "free"
             /\ pc' = [pc EXCEPT !["starter"] = "exited", !["reader"] = "read",
                            !["writer"] = "poll", !["handler"] = "poll",
                            !["maintenance"] = "select",
                            !["watcher"] = "watch", !["waiter"] = "wait"]
    <3>1. pc["writer"] = "new" /\ pc = [q \in Procs |-> pc[q]]
      BY <2>2, Zenon DEF ControlInv, StartInv, PcInv, Loops
    <3>q. QED
      BY <1>0, <2>2, <3>1, Zenon DEF Aside
  <2>3. ASSUME NEW b, Goto("starter", b) PROVE Only("starter")
    BY <2>3, Zenon DEF Goto, Only, ControlInv, PcInv
  <2>q. QED
    BY <1>3, <2>1, <2>2, <2>3, Zenon DEF Start, CallShutdown
<1>q. QED
  BY <1>0, <1>1, <1>2, <1>3, StepsAre, OnlyMoves, Zenon DEF Only, Aside

-----------------------------------------------------------------------------
(* The values of the queues, channels and results.                         *)

(* Taking or dropping a lease leaves the channels alone.                   *)
LEMMA QueueParts ==
  ASSUME queue \in QueueType, NEW p \in Procs
  PROVE  /\ Unlease(p) \in QueueType
         /\ [queue EXCEPT !.leases = @ \cup {p}] \in QueueType
         /\ Unlease(p).leases = queue.leases \ {p}
         /\ Unlease(p).outbound = queue.outbound /\ Unlease(p).control = queue.control
         /\ Unlease(p).close = queue.close /\ Unlease(p).handler = queue.handler
BY Zenon DEF QueueType, Unlease

(* The answer to an item goes to the channel of the item only.             *)
LEMMA CompletedIs ==
  ASSUME DataType, NEW item \in Producers \cup {"close", "control", "nothing"}, NEW r \in Causes \cup {None}
  PROVE  /\ Completed(item, r) \in [Producers \cup {"close"} -> Causes \cup {None, "empty"}]
         /\ \A q \in Producers \cup {"close"} : q # item => Completed(item, r)[q] = completion[q]
         /\ item = "close" \/ (item \in Producers /\ Mode[item] = "SendAndWait") =>
              Completed(item, r)[item] = r
         /\ item \in Producers /\ Mode[item] # "SendAndWait" =>
              Completed(item, r)[item] = completion[item]
<1>1. completion \in [Producers \cup {"close"} -> Causes \cup {None, "empty"}]
  BY Zenon DEF DataType
<1>2. "control" \notin Producers /\ "close" \notin Producers /\ "nothing" \notin Producers
  BY Names, Zenon
<1>q. QED
  BY <1>1, <1>2, Zenon DEF Completed

(* The result of a call is kept for callers of send and Close only.        *)
LEMMA ReturnIs ==
  ASSUME DataType, NEW p, NEW r \in Causes \cup {None, "none", "repeated", "deadline", "full"},
         Return(p, r)
  PROVE  /\ result' \in [Producers \cup Closers ->
                           Causes \cup {None, "none", "repeated", "deadline", "full"}]
         /\ \A q \in Producers \cup Closers : q # p => result'[q] = result[q]
         /\ p \in Producers \cup Closers => result'[p] = r
BY Zenon DEF DataType, Return

(* An event leaves the configuration alone.                                *)
LEMMA HappensIs ==
  ASSUME DataType, NEW event \in Events, Happens(event)
  PROVE  env' \in EnvType /\ env'.scenario = env.scenario
BY Zenon DEF DataType, EnvType, Happens

(* A message enters the queue and the history, and its sender goes on.     *)
LEMMA AcceptIs ==
  ASSUME DataType, NEW p \in Producers, Accept(p)
  PROVE  /\ queue' \in QueueType
         /\ queue'.leases = queue.leases \ {p} /\ queue'.outbound = Append(queue.outbound, p)
         /\ queue'.control = queue.control /\ queue'.close = queue.close
         /\ queue'.handler = queue.handler
         /\ history' \in HistoryType
         /\ history'.accepted = Append(history.accepted, p)
         /\ history'.written = history.written /\ history'.sent = history.sent
<1>1. PICK u : u = Unlease(p)
  BY Zenon
<1>2. /\ u \in QueueType /\ u.leases = queue.leases \ {p} /\ u.outbound = queue.outbound
      /\ u.control = queue.control /\ u.close = queue.close /\ u.handler = queue.handler
  BY <1>1, Names, QueueParts, Zenon DEF DataType
<1>3. queue' = [u EXCEPT !.outbound = Append(@, p)]
  BY <1>1, Zenon DEF Accept
<1>4. PICK o : o = Append(u.outbound, p)
  BY Zenon
<1>5. o \in Seq(Producers)
  BY <1>2, <1>4 DEF QueueType
<1>6. queue' = [u EXCEPT !.outbound = o]
  BY <1>3, <1>4, Zenon
<1>7. queue' \in QueueType /\ queue'.outbound = o /\ queue'.leases = u.leases
      /\ queue'.control = u.control /\ queue'.close = u.close /\ queue'.handler = u.handler
  BY <1>2, <1>5, <1>6, Zenon DEF QueueType
<1>8. PICK a : a = Append(history.accepted, p)
  BY Zenon
<1>9. history \in HistoryType
  BY Zenon DEF DataType
<1>10. a \in Seq(Producers) /\ history' = [history EXCEPT !.accepted = a]
  BY <1>8, <1>9 DEF Accept, HistoryType
<1>11. /\ history' \in HistoryType
       /\ history'.accepted = a /\ history'.written = history.written
       /\ history'.sent = history.sent
  BY <1>9, <1>10, Zenon DEF HistoryType
<1>q. QED
  BY <1>2, <1>4, <1>7, <1>8, <1>11, Zenon

(* A frame joins those written, and a message those sent.                  *)
LEMMA RecordedIs ==
  ASSUME DataType, writing \in Items, history' = Recorded
  PROVE  /\ history' \in HistoryType /\ history'.accepted = history.accepted
         /\ history'.written = Append(history.written, writing)
         /\ history'.sent = IF writing \in Producers THEN Append(history.sent, writing)
                            ELSE history.sent
<1>1. PICK t, m : /\ t = Append(history.written, writing)
                  /\ m = IF writing \in Producers THEN Append(history.sent, writing)
                         ELSE history.sent
  BY Zenon
<1>2. history \in HistoryType
  BY Zenon DEF DataType
<1>3. t \in Seq(Items) /\ m \in Seq(Producers)
  BY <1>1, <1>2 DEF HistoryType
<1>4. history' = [history EXCEPT !.written = t, !.sent = m]
  BY <1>1, Zenon DEF Recorded
<1>5. /\ history' \in HistoryType /\ history'.accepted = history.accepted
      /\ history'.written = t /\ history'.sent = m
  BY <1>2, <1>3, <1>4, Zenon DEF HistoryType
<1>q. QED
  BY <1>1, <1>5, Zenon

(* The writer takes the close request, a control message or a message.     *)
Takes ==
  \/ TakeClose
  \/ queue.control > 0 /\ Take("control", [queue EXCEPT !.control = @ - 1])
  \/ queue.outbound # <<>> /\ Take(Head(queue.outbound), [queue EXCEPT !.outbound = Tail(@)])

(* writeLoop takes one item from one channel.                              *)
LEMMA TakesAre ==
  ASSUME DataType, Takes
  PROVE  /\ queue' \in QueueType
         /\ queue'.leases = queue.leases /\ queue'.handler = queue.handler
         /\ \/ /\ queue.close # <<>> /\ writing' \in Graceful /\ queue.close = <<writing'>>
               /\ queue'.close = <<>> /\ queue'.outbound = queue.outbound
               /\ queue'.control = queue.control
            \/ /\ writing' = "control" /\ queue.control > 0 /\ queue'.control = queue.control - 1
               /\ queue'.outbound = queue.outbound /\ queue'.close = queue.close
            \/ /\ queue.outbound # <<>> /\ writing' = Head(queue.outbound)
               /\ queue'.outbound = Tail(queue.outbound) /\ writing' \in Producers
               /\ queue'.control = queue.control /\ queue'.close = queue.close
<1>0. queue \in QueueType
  BY Zenon DEF DataType
<1>2. CASE TakeClose
  <2>1. PICK p \in Graceful : queue.close = <<p>>
    BY <1>0, <1>2, Zenon DEF TakeClose, QueueType
  <2>2. Head(queue.close) = p
    BY <2>1
  <2>3. writing' = p /\ queue' = [queue EXCEPT !.close = <<>>]
    BY <1>2, <2>2, Zenon DEF TakeClose, Take
  <2>4. /\ queue' \in QueueType /\ queue'.leases = queue.leases /\ queue'.handler = queue.handler
        /\ queue'.close = <<>> /\ queue'.outbound = queue.outbound
        /\ queue'.control = queue.control
    BY <1>0, <2>3, Zenon DEF QueueType
  <2>q. QED
    BY <1>2, <2>1, <2>3, <2>4, Zenon DEF TakeClose
<1>3. CASE queue.control > 0 /\ Take("control", [queue EXCEPT !.control = @ - 1])
  <2>1. PICK n : n = queue.control - 1
    BY Zenon
  <2>2. n \in Nat
    BY <1>0, <1>3, <2>1 DEF QueueType
  <2>3. writing' = "control" /\ queue' = [queue EXCEPT !.control = n]
    BY <1>3, <2>1, Zenon DEF Take
  <2>4. /\ queue' \in QueueType /\ queue'.leases = queue.leases /\ queue'.handler = queue.handler
        /\ queue'.close = queue.close /\ queue'.outbound = queue.outbound
        /\ queue'.control = n
    BY <1>0, <2>2, <2>3, Zenon DEF QueueType
  <2>q. QED
    BY <1>3, <2>1, <2>3, <2>4, Zenon
<1>4. CASE /\ queue.outbound # <<>>
           /\ Take(Head(queue.outbound), [queue EXCEPT !.outbound = Tail(@)])
  <2>1. PICK t : t = Tail(queue.outbound)
    BY Zenon
  <2>2. t \in Seq(Producers) /\ Head(queue.outbound) \in Producers
    BY <1>0, <1>4, <2>1 DEF QueueType
  <2>3. writing' = Head(queue.outbound) /\ queue' = [queue EXCEPT !.outbound = t]
    BY <1>4, <2>1, Zenon DEF Take
  <2>4. /\ queue' \in QueueType /\ queue'.leases = queue.leases /\ queue'.handler = queue.handler
        /\ queue'.close = queue.close /\ queue'.outbound = t
        /\ queue'.control = queue.control
    BY <1>0, <2>2, <2>3, Zenon DEF QueueType
  <2>q. QED
    BY <1>4, <2>1, <2>2, <2>3, <2>4, Zenon
<1>q. QED
  BY <1>2, <1>3, <1>4, Zenon DEF Takes

(* What a step of writeLoop is.                                            *)
LEMMA WriterSteps ==
  ASSUME WriterNext
  PROVE  \/ /\ Takes /\ pc["writer"] \in {"poll", "select"} /\ Goto("writer", "encrypt")
            /\ UNCHANGED <<call, life, completion, result, env, history>>
         \/ /\ pc["writer"] = "poll" /\ queue.close = <<>> /\ Goto("writer", "select")
            /\ UNCHANGED <<call, life, queue, writing, completion, result, env, history>>
         \/ /\ pc["writer"] = "select" /\ Cancelled /\ Goto("writer", "fail_pending")
            /\ UNCHANGED <<call, life, queue, writing, completion, result, env, history>>
         \/ /\ pc["writer"] = "encrypt" /\ ~Cancelled
            /\ env' = [env EXCEPT !.rekeys = @ + 1] /\ Goto("writer", "write_rekey")
            /\ UNCHANGED <<call, life, queue, writing, completion, result, history>>
         \/ /\ pc["writer"] = "encrypt" /\ ~Cancelled /\ Goto("writer", "write")
            /\ UNCHANGED <<call, life, queue, writing, completion, result, env, history>>
         \/ /\ pc["writer"] = "write_rekey" /\ ~life.released /\ Goto("writer", "encrypt")
            /\ UNCHANGED <<call, life, queue, writing, completion, result, env, history>>
         \/ /\ pc["writer"] = "write" /\ ~life.released /\ WriteResult(None)
            /\ history' = Recorded
            /\ UNCHANGED <<queue, result, env>>
         \/ /\ pc["writer"] \in Writing /\ (UNCHANGED env \/ Happens("io"))
            /\ (\E e \in {"context", "io"} : WriteResult(e))
            /\ UNCHANGED <<queue, result, history>>
         \/ /\ pc["writer"] = "fail_pending" /\ failPending
            /\ UNCHANGED <<pc, call, life, writing, result, env, history>>
         \/ /\ pc["writer"] = "fail_pending" /\ ~Pending /\ Goto("writer", "exited")
            /\ UNCHANGED <<call, life, queue, writing, completion, result, env, history>>
<1>1. CASE WriterPoll
  BY <1>1, Zenon DEF WriterPoll, TakeClose, Take, Takes
<1>2. CASE WriterSelect
  BY <1>2, Zenon DEF WriterSelect, TakeClose, Take, Takes
<1>3. CASE Encrypt
  BY <1>3, Zenon DEF Encrypt, Writing
<1>4. CASE WriteInterrupted
  BY <1>4, Zenon DEF WriteInterrupted, Writing
<1>5. CASE WriterExit
  BY <1>5, Zenon DEF WriterExit
<1>6. CASE WriteDone
  BY <1>6, Zenon DEF WriteDone
<1>7. CASE WriteFails
  BY <1>7, Zenon DEF WriteFails, Writing
<1>q. QED
  BY <1>1, <1>2, <1>3, <1>4, <1>5, <1>6, <1>7, Zenon DEF WriterNext, WriterStep

(* The end of a write: its answer, and where the writer goes.              *)
LEMMA WriteResultIs ==
  ASSUME ControlInv, DataType, NEW e \in {None, "context", "io"}, WriteResult(e)
  PROVE  /\ completion' \in [Producers \cup {"close"} -> Causes \cup {None, "empty"}]
         /\ writing' = "nothing"
         /\ Moved("writer", IF writing \in Graceful \/ e # None THEN "shutdown" ELSE "poll")
         /\ life'.cancelled = life.cancelled /\ life'.released = life.released
         /\ life'.started = life.started /\ life'.startOnce = life.startOnce
         /\ life'.closeOnce = life.closeOnce
         /\ writing \in Graceful =>
              /\ completion'["close"] = e
              /\ \A p \in Producers : completion'[p] = completion[p]
         /\ writing \notin Graceful => completion'["close"] = completion["close"]
         /\ \A p \in Producers : p # writing => completion'[p] = completion[p]
         /\ writing \in Producers =>
              completion'[writing] = IF Mode[writing] = "SendAndWait" THEN e ELSE completion[writing]
<1>0. /\ "writer" \in Procs /\ PcInv /\ life \in LifeType /\ e \in Causes \cup {None}
      /\ CloseCause(writing) \in Causes
  BY Names, CloseCauseIs, Zenon DEF ControlInv, Causes
<1>1. PICK item : item = IF writing \in Graceful THEN "close" ELSE writing
  BY Zenon
<1>2. /\ item \in Producers \cup {"close", "control", "nothing"} /\ "close" \notin Producers
      /\ \A p \in Producers : p \notin Graceful
  BY <1>1, Names, Zenon DEF DataType, Items
<1>3. completion' = Completed(item, e) /\ writing' = "nothing"
  BY <1>1, Zenon DEF WriteResult
<1>4. /\ Completed(item, e) \in [Producers \cup {"close"} -> Causes \cup {None, "empty"}]
      /\ \A q \in Producers \cup {"close"} : q # item => Completed(item, e)[q] = completion[q]
      /\ item = "close" \/ (item \in Producers /\ Mode[item] = "SendAndWait") =>
           Completed(item, e)[item] = e
      /\ item \in Producers /\ Mode[item] # "SendAndWait" =>
           Completed(item, e)[item] = completion[item]
  BY <1>0, <1>2, CompletedIs, Zenon
<1>5. /\ Moved("writer", IF writing \in Graceful \/ e # None THEN "shutdown" ELSE "poll")
      /\ life'.cancelled = life.cancelled /\ life'.released = life.released
      /\ life'.started = life.started /\ life'.startOnce = life.startOnce
      /\ life'.closeOnce = life.closeOnce
  <2>1. CASE writing \in Graceful
    <3>1. CallShutdown(life, "writer", CloseCause(writing), "fail_pending")
      BY <2>1, Zenon DEF WriteResult
    <3>q. QED
      BY <1>0, <2>1, <3>1, CallMoves, Zenon
  <2>2. CASE writing \notin Graceful /\ e # None
    <3>1. CallShutdown(life, "writer", e, "fail_pending")
      BY <2>2, Zenon DEF WriteResult
    <3>q. QED
      BY <1>0, <2>2, <3>1, CallMoves, Zenon
  <2>3. CASE writing \notin Graceful /\ e = None
    <3>1. Goto("writer", "poll") /\ UNCHANGED life
      BY <2>3, Zenon DEF WriteResult
    <3>q. QED
      BY <1>0, <2>3, <3>1, GotoMoves, Zenon DEF PcInv
  <2>q. QED
    BY <2>1, <2>2, <2>3, Zenon
<1>6. /\ writing \in Graceful =>
           /\ completion'["close"] = e
           /\ \A p \in Producers : completion'[p] = completion[p]
      /\ writing \notin Graceful => completion'["close"] = completion["close"]
  <2>1. CASE writing \in Graceful
    BY <1>1, <1>2, <1>3, <1>4, <2>1, Zenon
  <2>2. CASE writing \notin Graceful
    <3>1. item # "close"
      BY <1>1, <2>2, Names, Zenon DEF DataType, Items
    <3>q. QED
      BY <1>3, <1>4, <2>2, <3>1, Zenon
  <2>q. QED
    BY <2>1, <2>2, Zenon
<1>7. /\ \A p \in Producers : p # writing => completion'[p] = completion[p]
      /\ writing \in Producers =>
           completion'[writing] = IF Mode[writing] = "SendAndWait" THEN e ELSE completion[writing]
  <2>1. CASE writing \in Producers
    <3>1. item = writing
      BY <1>1, <1>2, <2>1, Zenon
    <3>q. QED
      BY <1>3, <1>4, <2>1, <3>1, Zenon
  <2>2. CASE writing \notin Producers
    <3>1. item \notin Producers
      BY <1>1, <1>2, <2>2, Zenon
    <3>q. QED
      BY <1>3, <1>4, <2>2, <3>1, Zenon
  <2>q. QED
    BY <2>1, <2>2, Zenon
<1>q. QED
  BY <1>3, <1>4, <1>5, <1>6, <1>7, Zenon

(* The data of a new connection.                                           *)
LEMMA InitData == ASSUME Init PROVE DataInv
<1>1. queue \in QueueType
  <2>1. queue = [leases |-> {}, outbound |-> <<>>, control |-> 0, close |-> <<>>, handler |-> 0]
    BY Zenon DEF Init
  <2>2. {} \in SUBSET Procs /\ <<>> \in Seq(Producers) /\ 0 \in Nat
    OBVIOUS
  <2>3. <<>> \in {<<>>} \cup {<<p>> : p \in Graceful}
    BY Zenon
  <2>q. QED
    BY <2>1, <2>2, <2>3, Zenon DEF QueueType
<1>2. env \in EnvType
  <2>1. PICK s \in Scenarios :
          env = [happened |-> {}, callerCtx |-> {}, inbound |-> 0, rekeys |-> 0,
                 pings |-> 0, scenario |-> s]
    BY Zenon DEF Init
  <2>2. s \in Scenario
    BY ConnectionAssumption, Zenon
  <2>3. {} \in SUBSET Events /\ {} \in SUBSET Producers /\ 0 \in Nat
    BY Zenon
  <2>q. QED
    BY <2>1, <2>2, <2>3, Zenon DEF EnvType
<1>3. pc["writer"] = "new"
  <2>1. "writer" \in Procs /\ "writer" \notin Producers \cup Closers \cup {"starter", "aborter"}
    BY Names, Zenon
  <2>q. QED
    BY <2>1, ConnectionAssumption, Zenon DEF Init, Scenario
<1>4. /\ completion \in [Producers \cup {"close"} -> Causes \cup {None, "empty"}]
      /\ result \in [Producers \cup Closers -> Causes \cup {None, "none", "repeated", "deadline", "full"}]
      /\ writing = "nothing"
  <2>1. /\ completion = [p \in Producers \cup {"close"} |-> "empty"]
        /\ result = [p \in Producers \cup Closers |-> "none"] /\ writing = "nothing"
    BY Zenon DEF Init
  <2>q. QED
    BY <2>1, Zenon
<1>5. history \in HistoryType
  BY DEF Init, HistoryType
<1>q. QED
  BY <1>1, <1>2, <1>3, <1>4, <1>5, Zenon DEF DataInv, DataType, Writing

(* Every step keeps the data well formed.                                  *)
LEMMA NextData ==
  ControlInv /\ DataInv /\ [Next]_vars => DataInv'
(* One round of failPending.                                               *)
<1>FailPendingData.
    ASSUME ControlInv, DataType, failPending
    PROVE  /\ queue' \in QueueType
           /\ completion' \in [Producers \cup {"close"} -> Causes \cup {None, "empty"}]
  <2> USE <1>FailPendingData
  <2>0. queue \in QueueType /\ life.cancelled \in Causes \cup {None}
    BY Zenon DEF ControlInv, DataType, LifeType
  <2>1. CASE /\ queue.control > 0
             /\ queue' = [queue EXCEPT !.control = @ - 1]
             /\ UNCHANGED completion
    <3>1. PICK n : n = queue.control - 1
      BY Zenon
    <3>2. n \in Nat
      BY <2>0, <2>1, <3>1 DEF QueueType
    <3>3. queue' \in QueueType
      BY <2>0, <2>1, <3>1, <3>2, Zenon DEF QueueType
    <3>q. QED
      BY <2>1, <3>3, Zenon DEF DataType
  <2>2. CASE /\ queue.outbound # <<>>
             /\ queue' = [queue EXCEPT !.outbound = Tail(@)]
             /\ completion' = Completed(Head(queue.outbound), life.cancelled)
    <3>1. Head(queue.outbound) \in Producers /\ Tail(queue.outbound) \in Seq(Producers)
      BY <2>0, <2>2 DEF QueueType
    <3>2. queue' \in QueueType
      BY <2>0, <2>2, <3>1, Zenon DEF QueueType
    <3>q. QED
      BY <2>0, <2>2, <3>1, <3>2, CompletedIs, Zenon
  <2>3. CASE /\ queue.close # <<>>
             /\ queue' = [queue EXCEPT !.close = <<>>]
             /\ completion' = Completed("close", life.cancelled)
    <3>1. queue' \in QueueType
      BY <2>0, <2>3, Zenon DEF QueueType
    <3>q. QED
      BY <2>0, <2>3, <3>1, CompletedIs, Zenon
  <2>q. QED
    BY <2>1, <2>2, <2>3, Zenon DEF failPending
(* The data after a step of shutdown or close(c.done).                     *)
<1>ShutdownData. ASSUME ControlInv, DataType, NEW p \in Procs, Shutdown(p) \/ CloseDone(p)
                 PROVE  DataType'
  <2> USE <1>ShutdownData
  <2>1. CASE ShutdownEnter(p) \/ ShutdownLock(p) \/ ShutdownRelease(p)
    BY <2>1, Zenon DEF ShutdownEnter, ShutdownLock, ShutdownRelease, DataType
  <2>2. CASE ShutdownDispose(p)
    <3>1. CASE failPending
      BY <2>2, <3>1, <1>FailPendingData, Zenon DEF ShutdownDispose, DataType
    <3>2. CASE queue' = [queue EXCEPT !.handler = 0] /\ UNCHANGED completion
      <4>1. queue' \in QueueType
        BY <3>2, Zenon DEF DataType, QueueType
      <4>q. QED
        BY <2>2, <3>2, <4>1, Zenon DEF ShutdownDispose, DataType
    <3>q. QED
      BY <2>2, <3>1, <3>2, Zenon DEF ShutdownDispose
  <2>3. CASE CloseDone(p)
    BY <2>3, ReturnIs, Zenon DEF CloseDone, DataType
  <2>q. QED
    BY <2>1, <2>2, <2>3, Zenon DEF Shutdown
(* The data after a step of closeGracefully.                               *)
<1>CloseData. ASSUME ControlInv, DataType, NEW p \in Graceful, closeGracefully(p)
              PROVE  DataType'
  <2> USE <1>CloseData
  <2>0. p \in Procs /\ queue \in QueueType /\ life.cancelled \in Causes \cup {None} /\ "timer" \in Events
    BY GracefulAre, Zenon DEF ControlInv, DataType, LifeType, Events
  <2>1. CASE CloseEnter(p) \/ CloseClaim(p) \/ CloseReturn(p)
    <3>1. UNCHANGED result \/ \E r \in {"repeated", None} : Return(p, r)
      BY <2>1, Zenon DEF CloseEnter, CloseClaim, CloseReturn
    <3>2. result' \in [Producers \cup Closers ->
                         Causes \cup {None, "none", "repeated", "deadline", "full"}]
      BY <3>1, ReturnIs, Zenon DEF DataType
    <3>q. QED
      BY <2>1, <3>2, Zenon DEF CloseEnter, CloseClaim, CloseReturn, DataType
  <2>2. CASE CloseLease(p)
    <3>1. CASE Cancelled
      BY <2>0, <2>2, <3>1, ReturnIs, Zenon DEF CloseLease, DataType
    <3>2. CASE ~Cancelled
      BY <2>0, <2>2, <3>2, QueueParts, Zenon DEF CloseLease, Lease, DataType
    <3>q. QED
      BY <3>1, <3>2, Zenon
  <2>3. CASE CloseRequest(p)
    <3>1. CASE /\ queue' = [Unlease(p) EXCEPT !.close = <<p>>] /\ UNCHANGED <<result, env>>
      <4>1. PICK u : u = Unlease(p)
        BY Zenon
      <4>2. u \in QueueType /\ queue' = [u EXCEPT !.close = <<p>>]
        BY <2>0, <3>1, <4>1, QueueParts, Zenon
      <4>3. queue' \in QueueType
        BY <4>2, Zenon DEF QueueType
      <4>q. QED
        BY <2>3, <3>1, <4>3, Zenon DEF CloseRequest, DataType
    <3>2. CASE CloseCancelled(p) /\ queue' = Unlease(p)
      BY <2>0, <2>3, <3>2, QueueParts, ReturnIs, Zenon DEF CloseRequest, CloseCancelled, DataType
    <3>3. CASE CloseTimer(p) /\ queue' = Unlease(p)
      BY <2>0, <2>3, <3>3, QueueParts, ReturnIs, HappensIs, Zenon DEF CloseRequest, CloseTimer, DataType
    <3>q. QED
      BY <2>3, <3>1, <3>2, <3>3, Zenon DEF CloseRequest
  <2>4. CASE CloseWait(p)
    <3>1. CASE completion["close"] # "empty" /\ Return(p, completion["close"]) /\ UNCHANGED env
      <4>1. completion["close"] \in Causes \cup {None}
        BY <3>1, Zenon DEF DataType
      <4>q. QED
        BY <2>4, <3>1, <4>1, ReturnIs, Zenon DEF CloseWait, DataType
    <3>2. CASE CloseCancelled(p)
      BY <2>0, <2>4, <3>2, ReturnIs, Zenon DEF CloseWait, CloseCancelled, DataType
    <3>3. CASE CloseTimer(p)
      BY <2>0, <2>4, <3>3, ReturnIs, HappensIs, Zenon DEF CloseWait, CloseTimer, DataType
    <3>q. QED
      BY <2>4, <3>1, <3>2, <3>3, Zenon DEF CloseWait
  <2>q. QED
    BY <2>1, <2>2, <2>3, <2>4, Zenon DEF closeGracefully
(* The data after a step of a sender.                                      *)
<1>SendData.
    ASSUME ControlInv, DataType, NEW p \in Producers, SendEnter(p) \/ SendCapacity(p) \/ SendAwait(p)
    PROVE  DataType'
  <2> USE <1>SendData
  <2>0. p \in Procs /\ queue \in QueueType /\ life.cancelled \in Causes \cup {None}
        /\ {"context", "closed"} \subseteq Causes
    BY Names, Zenon DEF ControlInv, DataType, LifeType, Causes
  <2>1. CASE SendAwait(p)
    <3>1. completion[p] \in Causes \cup {None, "empty"}
      BY Zenon DEF DataType
    <3>2. \E r \in Causes \cup {None} : Return(p, r)
      BY <2>0, <2>1, <3>1, Zenon DEF SendAwait
    <3>3. result' \in [Producers \cup Closers ->
                         Causes \cup {None, "none", "repeated", "deadline", "full"}]
      BY <3>2, ReturnIs, Zenon
    <3>q. QED
      BY <2>1, <3>3, Zenon DEF SendAwait, DataType
  <2>2. CASE SendEnter(p) \/ SendCapacity(p)
    <3>0. UNCHANGED <<call, life, writing, completion, env>>
      BY <2>2, Zenon DEF SendEnter, SendCapacity
    <3>1. CASE Accept(p)
      <4>1. UNCHANGED result \/ Return(p, None)
        BY <3>1, Zenon DEF Accept
      <4>2. result' \in [Producers \cup Closers ->
                           Causes \cup {None, "none", "repeated", "deadline", "full"}]
        BY <4>1, ReturnIs, Zenon DEF DataType
      <4>q. QED
        BY <3>0, <3>1, <4>2, AcceptIs, Zenon DEF DataType
    <3>2. ASSUME NEW r \in {"context", "closed", "full"}, Refuse(p, r) PROVE DataType'
      <4>1. result' \in [Producers \cup Closers ->
                           Causes \cup {None, "none", "repeated", "deadline", "full"}]
        BY <2>0, <3>2, ReturnIs, Zenon DEF Refuse
      <4>2. queue' \in QueueType /\ UNCHANGED history
        BY <2>0, <3>2, QueueParts, Zenon DEF Refuse
      <4>q. QED
        BY <3>0, <4>1, <4>2, Zenon DEF DataType
    <3>3. CASE Lease(p) /\ UNCHANGED <<result, history>>
      <4>1. queue' \in QueueType
        BY <2>0, <3>3, QueueParts, Zenon DEF Lease
      <4>q. QED
        BY <3>0, <3>3, <4>1, Zenon DEF DataType
    <3>4. Accept(p) \/ (\E r \in {"context", "closed", "full"} : Refuse(p, r))
          \/ (Lease(p) /\ UNCHANGED <<result, history>>)
      BY <2>2, Zenon DEF SendEnter, SendCapacity
    <3>q. QED
      BY <3>1, <3>2, <3>3, <3>4, Zenon
  <2>q. QED
    BY <2>1, <2>2, Zenon
(* writeLoop holds an item exactly while it writes.                        *)
<1>WriterData. ASSUME ControlInv, DataInv, WriterNext PROVE DataInv'
  <2> USE <1>WriterData
  <2>0. /\ env \in EnvType /\ "io" \in Events /\ DataType /\ "writer" \in Procs
        /\ history \in HistoryType
        /\ completion \in [Producers \cup {"close"} -> Causes \cup {None, "empty"}]
    BY Names, Zenon DEF DataInv, DataType, Events
  <2>g. ASSUME NEW b, Goto("writer", b) PROVE pc'["writer"] = b
    BY <2>0, <2>g, Zenon DEF Goto, ControlInv, PcInv
  <2>1. CASE /\ Takes /\ Goto("writer", "encrypt")
             /\ UNCHANGED <<completion, result, env, history>>
    <3>1. queue' \in QueueType /\ writing' \in Items
      BY <2>0, <2>1, TakesAre, Zenon DEF Items
    <3>2. writing' # "nothing"
      BY <3>1, Names, GracefulAre, Zenon DEF Items
    <3>q. QED
      BY <2>0, <2>1, <2>g, <3>1, <3>2, Zenon DEF DataInv, DataType, Writing
  <2>2. ASSUME NEW b, Goto("writer", b), pc["writer"] \in Writing <=> b \in Writing,
               UNCHANGED <<queue, writing, completion, result, env, history>>
        PROVE  DataInv'
    BY <2>2, <2>g, Zenon DEF DataInv, DataType
  <2>3. CASE /\ pc["writer"] = "encrypt" /\ Goto("writer", "write_rekey")
             /\ env' = [env EXCEPT !.rekeys = @ + 1]
             /\ UNCHANGED <<queue, writing, completion, result, history>>
    <3>1. PICK n : n = env.rekeys + 1
      BY Zenon
    <3>2. n \in Nat /\ env' = [env EXCEPT !.rekeys = n]
      BY <2>0, <2>3, <3>1 DEF EnvType
    <3>3. env' \in EnvType
      BY <2>0, <3>2, Zenon DEF EnvType
    <3>q. QED
      BY <2>3, <2>g, <3>3, Zenon DEF DataInv, DataType, Writing
  <2>4. ASSUME NEW e \in {None, "context", "io"}, WriteResult(e)
        PROVE  /\ completion' \in [Producers \cup {"close"} -> Causes \cup {None, "empty"}]
               /\ writing' = "nothing" /\ pc'["writer"] \notin Writing
    BY <2>0, <2>4, WriteResultIs, Zenon DEF Moved, Writing
  <2>5. CASE /\ pc["writer"] = "write" /\ WriteResult(None)
             /\ history' = Recorded
             /\ UNCHANGED <<queue, result, env>>
    <3>1. writing \in Items
      BY <2>5, Zenon DEF DataInv, DataType, Writing
    <3>2. history' \in HistoryType
      BY <2>0, <2>5, <3>1, RecordedIs, Zenon
    <3>q. QED
      BY <2>4, <2>5, <3>2, Zenon DEF DataInv, DataType
  <2>6. ASSUME NEW e \in {"context", "io"}, WriteResult(e), UNCHANGED env \/ Happens("io"),
               UNCHANGED <<queue, result, history>>
        PROVE  DataInv'
    <3>2. env' \in EnvType
      BY <2>0, <2>6, HappensIs, Zenon
    <3>q. QED
      BY <2>4, <2>6, <3>2, Zenon DEF DataInv, DataType
  <2>7. CASE failPending /\ UNCHANGED <<pc, writing, result, env, history>>
    BY <2>0, <2>7, <1>FailPendingData, Zenon DEF DataInv, DataType
  <2>q. QED
    BY <2>1, <2>2, <2>3, <2>5, <2>6, <2>7, WriterSteps, Zenon DEF Writing
(* The data after a step of the other goroutines.                          *)
<1>ReaderData. ASSUME ControlInv, DataType, ReaderNext \/ HandlerNext \/ StillNext \/ OtherNext
               PROVE  DataType'
  <2> USE <1>ReaderData
  <2>0. /\ env \in EnvType /\ queue \in QueueType /\ "reader" \in Procs
        /\ {"io", "start_cancel", "abort", "idle", "keepalive_timeout", "handler_error",
            "caller_cancel"} \subseteq Events
    BY Names, Zenon DEF DataType, Events
  <2>a. ASSUME env' = [env EXCEPT !.inbound = @ + 1] \/ env' = [env EXCEPT !.pings = @ + 1]
        PROVE  env' \in EnvType
    <3>1. PICK i : i = env.inbound + 1
      BY Zenon
    <3>2. PICK n : n = env.pings + 1
      BY Zenon
    <3>3. i \in Nat /\ n \in Nat
      BY <2>0, <3>1, <3>2 DEF EnvType
    <3>4. env' = [env EXCEPT !.inbound = i] \/ env' = [env EXCEPT !.pings = n]
      BY <2>a, <3>1, <3>2, Zenon
    <3>q. QED
      BY <2>0, <3>3, <3>4, Zenon DEF EnvType
  <2>b. ASSUME NEW d, d \in {1, -1}, d = -1 => queue.handler > 0,
               queue' = [queue EXCEPT !.handler = @ + d]
        PROVE  queue' \in QueueType
    <3>1. PICK n : n = queue.handler + d
      BY Zenon
    <3>2. n \in Nat
      BY <2>0, <2>b, <3>1 DEF QueueType
    <3>q. QED
      BY <2>0, <2>b, <3>1, <3>2, Zenon DEF QueueType
  <2>c. ASSUME NEW u \in QueueType, queue' = [u EXCEPT !.control = @ + 1]
        PROVE  queue' \in QueueType
    <3>1. PICK n : n = u.control + 1
      BY Zenon
    <3>2. n \in Nat
      BY <2>c, <3>1 DEF QueueType
    <3>q. QED
      BY <2>c, <3>1, <3>2, Zenon DEF QueueType
  <2>u. Unlease("reader") \in QueueType /\ [queue EXCEPT !.leases = @ \cup {"reader"}] \in QueueType
    BY <2>0, QueueParts, Zenon
  <2>d. ASSUME UNCHANGED <<writing, completion, result, history>>, queue' \in QueueType, env' \in EnvType
        PROVE  DataType'
    BY <2>d, Zenon DEF DataType
  <2>1. CASE ReaderNext
    <3>1. ASSUME NEW kind \in Inbound, Read(kind) PROVE DataType'
      BY <2>0, <2>a, <2>d, <3>1, Zenon DEF Read
    <3>2. CASE ReadInterrupted
      BY <2>0, <2>d, <3>2, Zenon DEF ReadInterrupted
    <3>3. CASE ReadFails
      BY <2>0, <2>d, <3>3, HappensIs, Zenon DEF ReadFails
    <3>4. CASE PongEnter
      BY <2>0, <2>d, <2>u, <3>4, Zenon DEF PongEnter, Lease
    <3>5. CASE PongCapacity
      BY <2>0, <2>c, <2>d, <2>u, <3>5, Zenon DEF PongCapacity
    <3>6. CASE Dispatch
      <4>1. CASE queue' = [queue EXCEPT !.handler = @ + 1]
        <5>1. queue' \in QueueType
          BY <2>b, <4>1
        <5>q. QED
          BY <2>0, <2>d, <3>6, <5>1, Zenon DEF Dispatch
      <4>q. QED
        BY <2>0, <2>d, <3>6, <4>1, Zenon DEF Dispatch
    <3>q. QED
      BY <2>1, <3>1, <3>2, <3>3, <3>4, <3>5, <3>6, Zenon DEF ReaderNext, ReaderStep
  <2>2. CASE HandlerNext
    <3>1. CASE HandlerTake
      <4>1. queue' = [queue EXCEPT !.handler = @ + -1] /\ queue.handler > 0
        BY <2>0, <3>1, Zenon DEF HandlerTake, QueueType
      <4>2. queue' \in QueueType
        BY <2>b, <4>1, Zenon
      <4>q. QED
        BY <2>0, <2>d, <3>1, <4>2, Zenon DEF HandlerTake
    <3>2. CASE HandlerLoop \/ HandlerResult \/ CallbackBegin
      BY <2>0, <2>d, <3>2, Zenon DEF HandlerLoop, HandlerResult, CallbackBegin
    <3>3. ASSUME NEW outcome \in {"returned", "failed"}, CallbackReturn(outcome) PROVE DataType'
      BY <2>0, <2>d, <3>3, HappensIs, Zenon DEF CallbackReturn
    <3>q. QED
      BY <2>2, <3>1, <3>2, <3>3, Zenon DEF HandlerNext, HandlerStep
  <2>3. CASE StillNext
    <3>1. CASE StartCancel
      BY <2>0, <2>d, <3>1, HappensIs, Zenon DEF StartCancel
    <3>2. CASE Ping
      BY <2>0, <2>a, <2>c, <2>d, <3>2, Zenon DEF Ping
    <3>3. CASE Finished \/ UNCHANGED vars
      BY <2>0, <2>d, <3>3, Zenon DEF Finished, vars
    <3>4. ASSUME NEW p \in Producers, CallerCancel(p) PROVE DataType'
      <4>1. env' \in EnvType
        BY <2>0, <3>4, Zenon DEF CallerCancel, EnvType
      <4>q. QED
        BY <2>0, <2>d, <3>4, <4>1, Zenon DEF CallerCancel
    <3>q. QED
      BY <2>3, <3>1, <3>2, <3>3, <3>4, Zenon DEF StillNext
  <2>4. CASE OtherNext
    <3>1. CASE MaintenanceExit \/ Watch \/ \E p \in Closers : CloseCall(p)
      BY <2>0, <2>d, <3>1, Zenon DEF MaintenanceExit, Watch, CloseCall
    <3>2. CASE IdleTimeout \/ KeepaliveTimeout \/ Abort
      BY <2>0, <2>d, <3>2, HappensIs, Zenon DEF IdleTimeout, KeepaliveTimeout, Abort
    <3>q. QED
      BY <2>4, <3>1, <3>2, Zenon DEF OtherNext
  <2>q. QED
    BY <2>1, <2>2, <2>3, <2>4, Zenon
(* The step as a whole.                                                   *)
<1>step. ASSUME ControlInv, DataInv, [Next]_vars PROVE DataInv'
  <2> USE <1>step
  <2>0. DataType
    BY Zenon DEF DataInv
  <2>1. CASE WriterNext
    BY <2>1, <1>WriterData, Zenon
  <2>2. CASE ~WriterNext
    <3>1. DataType'
      <4>1. CASE Start \/ Join
        BY <2>0, <4>1, Zenon DEF Start, Join, DataType
      <4>q. QED
        BY <2>0, <2>2, <4>1, StepsAre, <1>ReaderData, <1>ShutdownData, <1>CloseData, <1>SendData, Zenon
    <3>2. UNCHANGED writing
      <4>1. CASE StillNext \/ Start \/ Join \/ OtherNext
        BY <4>1, Zenon DEF StillNext, StartCancel, Ping, Finished, vars, CallerCancel, Start, Join, OtherNext,
                    MaintenanceExit, IdleTimeout, KeepaliveTimeout, Watch, Abort, CloseCall
      <4>2. CASE ReaderNext \/ HandlerNext
        BY <4>2, Zenon DEF ReaderNext, ReaderStep, ReadInterrupted, PongEnter, PongCapacity, Dispatch, ReadFails,
                    Read, HandlerNext, HandlerStep, HandlerTake, HandlerLoop, HandlerResult,
                    CallbackBegin, CallbackReturn
      <4>3. ASSUME NEW p \in Procs, Shutdown(p) \/ CloseDone(p) PROVE UNCHANGED writing
        BY <4>3, Zenon DEF Shutdown, ShutdownEnter, ShutdownLock, ShutdownDispose, ShutdownRelease, CloseDone
      <4>4. ASSUME NEW p \in Graceful, closeGracefully(p) PROVE UNCHANGED writing
        BY <4>4, Zenon DEF closeGracefully, CloseEnter, CloseClaim, CloseLease, CloseRequest, CloseWait,
                    CloseReturn
      <4>5. ASSUME NEW p \in Producers, SendEnter(p) \/ SendCapacity(p) \/ SendAwait(p)
            PROVE  UNCHANGED writing
        BY <4>5, Zenon DEF SendEnter, SendCapacity, SendAwait
      <4>q. QED
        BY <2>2, <4>1, <4>2, <4>3, <4>4, <4>5, StepsAre, Zenon
    <3>3. pc["writer"] \in Writing <=> pc'["writer"] \in Writing
      BY <2>2, WriterElsewhere, Zenon DEF Aside, Writing, Shut
    <3>q. QED
      BY <3>1, <3>2, <3>3, Zenon DEF DataInv
  <2>q. QED
    BY <2>1, <2>2, Zenon
<1>q. QED
  BY <1>step, Zenon

-----------------------------------------------------------------------------
(* queueMu: the leases and the terminal disposal.                          *)

(* Only shutdown enters its body, cancels the runtime and releases it.     *)
Apart ==
  /\ life'.released = life.released /\ life'.cancelled = life.cancelled
  /\ \A q \in Procs : pc'[q] \in Exclusive => pc[q] = pc'[q]

(* Only shutdown cancels, releases or enters its exclusive part.           *)
LEMMA ApartIs ==
  ASSUME ControlInv, [Next]_vars
  PROVE  Apart \/ \E p \in Procs : Shutdown(p)
<1>0. pc = [q \in Procs |-> pc[q]] /\ life \in LifeType
  BY Zenon DEF ControlInv, PcInv
<1>a. ASSUME NEW p, NEW b, Goto(p, b), b \notin Exclusive,
             life'.released = life.released, life'.cancelled = life.cancelled
      PROVE  Apart
  BY <1>0, <1>a, Zenon DEF Goto, Apart
<1>b. ASSUME NEW p, NEW e, NEW d, CallShutdown(life, p, e, d) PROVE Apart
  <2>1. life'.released = life.released /\ life'.cancelled = life.cancelled
    BY <1>0, <1>b, Zenon DEF CallShutdown, recordTerminal, LifeType
  <2>q. QED
    BY <1>a, <1>b, <2>1, Zenon DEF CallShutdown, Exclusive
<1>c. ASSUME NEW p, NEW e, NEW d, CallShutdown([life EXCEPT !.startOnce = "busy"], p, e, d)
      PROVE  Apart
  <2>1. life'.released = life.released /\ life'.cancelled = life.cancelled
    BY <1>0, <1>c, Zenon DEF CallShutdown, recordTerminal, LifeType
  <2>q. QED
    BY <1>a, <1>c, <2>1, Zenon DEF CallShutdown, Exclusive
<1>d. ASSUME NEW e, WriteResult(e) PROVE Apart
  BY <1>a, <1>b, <1>d, Zenon DEF WriteResult, Exclusive
<1>s. ASSUME UNCHANGED pc, UNCHANGED life PROVE Apart
  BY <1>s, Zenon DEF Apart
<1>1. CASE StillNext
  BY <1>1, <1>s, Zenon DEF StillNext, StartCancel, Ping, Finished, vars, CallerCancel
<1>2. CASE Start
  <2>1. CASE /\ life' = [life EXCEPT !.startOnce = "done", !.started = TRUE]
             /\ pc' = [pc EXCEPT !["starter"] = "exited", !["reader"] = "read",
                            !["writer"] = "poll", !["handler"] = "poll",
                            !["maintenance"] = "select",
                            !["watcher"] = "watch", !["waiter"] = "wait"]
    BY <1>0, <2>1, Zenon DEF Apart, LifeType, Exclusive
  <2>q. QED
    BY <1>2, <1>a, <1>c, <2>1, Zenon DEF Start, Exclusive
<1>3. CASE Join
  BY <1>3, <1>b, Zenon DEF Join
<1>4. CASE OtherNext
  <2>1. CASE Watch
    <3>1. life'.released = life.released /\ life'.cancelled = life.cancelled
      BY <1>0, <2>1, Zenon DEF Watch, recordTerminal, LifeType
    <3>q. QED
      BY <1>a, <2>1, <3>1, Zenon DEF Watch, Exclusive
  <2>q. QED
    BY <1>4, <1>a, <1>b, <2>1, Zenon DEF OtherNext, MaintenanceExit, IdleTimeout, KeepaliveTimeout, Abort,
                                  CloseCall, Exclusive
<1>5. CASE WriterNext
  BY <1>5, <1>a, <1>d, <1>s, WriterSteps, Zenon DEF Exclusive
<1>6. CASE ReaderNext
  <2>1. ASSUME NEW kind \in Inbound, Read(kind) PROVE Apart
    <3>1. kind \in {"data", "ping", "other", "close", "bad"}
      BY ConnectionAssumption, Zenon
    <3>q. QED
      BY <1>a, <1>b, <1>s, <2>1, <3>1, Zenon DEF Read, Exclusive
  <2>2. CASE ReaderStep \/ ReadFails
    BY <1>a, <1>b, <2>2, Zenon DEF ReaderStep, ReadInterrupted, PongEnter, PongCapacity, Dispatch,
                            ReadFails, Exclusive
  <2>q. QED
    BY <1>6, <2>1, <2>2, Zenon DEF ReaderNext
<1>7. CASE HandlerNext
  <2>1. CASE HandlerCall /\ UNCHANGED life
    BY <1>0, <2>1, Zenon DEF HandlerCall, Apart, Exclusive
  <2>2. CASE pc' = [pc EXCEPT !["handler"] = "poll", !["callback"] = "new"] /\ UNCHANGED life
    BY <1>0, <2>2, Zenon DEF Apart, Exclusive
  <2>3. ASSUME NEW outcome \in {"returned", "failed"}, CallbackReturn(outcome) PROVE Apart
    BY <1>a, <2>3, Zenon DEF CallbackReturn, Exclusive
  <2>4. CASE HandlerTake \/ HandlerResult \/ CallbackBegin
    BY <1>a, <1>b, <2>2, <2>4, Zenon DEF HandlerTake, HandlerResult, CallbackBegin, Exclusive
  <2>5. CASE HandlerLoop
    BY <1>a, <2>1, <2>5, Zenon DEF HandlerLoop, HandlerGrace, HandlerDetach, Exclusive
  <2>q. QED
    BY <1>7, <2>3, <2>4, <2>5, Zenon DEF HandlerNext, HandlerStep
<1>8. ASSUME NEW p \in Procs, CloseDone(p) PROVE Apart
  <2>1. life'.released = life.released /\ life'.cancelled = life.cancelled
    BY <1>0, <1>8, Zenon DEF CloseDone, LifeType
  <2>q. QED
    BY <1>a, <1>8, <2>1, Zenon DEF CloseDone, Exclusive
<1>9. ASSUME NEW p \in Graceful, closeGracefully(p) PROVE Apart
  <2>1. CASE CloseEnter(p)
    <3>1. life'.released = life.released /\ life'.cancelled = life.cancelled
      BY <1>0, <2>1, Zenon DEF CloseEnter, recordTerminal, LifeType
    <3>q. QED
      BY <1>a, <2>1, <3>1, Zenon DEF CloseEnter, Exclusive
  <2>2. CASE CloseClaim(p)
    BY <1>a, <1>c, <2>2, Zenon DEF CloseClaim, Exclusive
  <2>3. CASE CloseLease(p) \/ CloseRequest(p) \/ CloseWait(p)
    BY <1>a, <1>b, <2>3, Zenon DEF CloseLease, CloseRequest, CloseWait, CloseCancelled, CloseTimer, Exclusive
  <2>4. CASE CloseReturn(p)
    <3>1. life'.released = life.released /\ life'.cancelled = life.cancelled
      BY <1>0, <2>4, Zenon DEF CloseReturn, LifeType
    <3>q. QED
      BY <1>a, <2>4, <3>1, Zenon DEF CloseReturn, Exclusive
  <2>q. QED
    BY <1>9, <2>1, <2>2, <2>3, <2>4, Zenon DEF closeGracefully
<1>10. ASSUME NEW p \in Producers, SendEnter(p) \/ SendCapacity(p) \/ SendAwait(p) PROVE Apart
  BY <1>10, <1>a, Zenon DEF SendEnter, SendCapacity, SendAwait, Accept, Refuse, Exclusive
<1>q. QED
  BY <1>1, <1>2, <1>3, <1>4, <1>5, <1>6, <1>7, <1>8, <1>9, <1>10, StepsAre, Zenon

(* failPending empties the queues and touches nothing else of them.        *)
LEMMA FailPendingIs ==
  ASSUME DataType, failPending
  PROVE  /\ queue'.leases = queue.leases /\ queue'.handler = queue.handler
         /\ queue'.control <= queue.control
         /\ \/ UNCHANGED completion /\ queue'.outbound = queue.outbound /\ queue'.close = queue.close
            \/ /\ queue.outbound # <<>> /\ queue'.outbound = Tail(queue.outbound)
               /\ queue'.close = queue.close
               /\ completion' = Completed(Head(queue.outbound), life.cancelled)
            \/ /\ queue.close # <<>> /\ queue'.close = <<>> /\ queue'.outbound = queue.outbound
               /\ completion' = Completed("close", life.cancelled)
<1>0. queue \in QueueType
  BY Zenon DEF DataType
<1>1. CASE /\ queue.control > 0
           /\ queue' = [queue EXCEPT !.control = @ - 1]
           /\ UNCHANGED completion
  BY <1>0, <1>1 DEF QueueType
<1>2. CASE /\ queue.outbound # <<>>
           /\ queue' = [queue EXCEPT !.outbound = Tail(@)]
           /\ completion' = Completed(Head(queue.outbound), life.cancelled)
  <2>1. PICK t : t = Tail(queue.outbound)
    BY Zenon
  <2>2. queue' = [queue EXCEPT !.outbound = t]
    BY <1>2, <2>1, Zenon
  <2>q. QED
    BY <1>0, <1>2, <2>1, <2>2 DEF QueueType
<1>3. CASE /\ queue.close # <<>>
           /\ queue' = [queue EXCEPT !.close = <<>>]
           /\ completion' = Completed("close", life.cancelled)
  BY <1>0, <1>3 DEF QueueType
<1>q. QED
  BY <1>1, <1>2, <1>3, Zenon DEF failPending

(* At first nobody holds a lease.                                          *)
LEMMA InitLease == ASSUME Init PROVE LeaseInv
<1>1. \A p \in Procs : pc[p] \in {"idle", "exited", "new"}
  BY Zenon DEF Init
<1>2. queue.leases = {} /\ queue.outbound = <<>> /\ queue.control = 0 /\ queue.close = <<>>
      /\ queue.handler = 0 /\ ~life.released
  BY Zenon DEF Init
<1>q. QED
  BY <1>1, <1>2, Zenon DEF LeaseInv, Leased, Drained, Emptied, Pending

(* Every step keeps the leases.                                            *)
LEMMA NextLease ==
  ControlInv /\ ControlInv' /\ DataType /\ LeaseInv /\ [Next]_vars => LeaseInv'
(* What is drained or emptied after such a step was so before.             *)
<1>ApartSeals. ASSUME Apart
               PROVE  (Drained' => Drained) /\ (Emptied' => Emptied) /\ (Cancelled' <=> Cancelled)
  BY <1>ApartSeals, Zenon DEF Apart, Drained, Emptied, Cancelled, Exclusive
(* The context is cancelled before the disposal begins.                    *)
<1>OpenIs. ASSUME ControlInv, ~Cancelled PROVE ~Drained /\ ~Emptied
  BY <1>OpenIs, Zenon DEF ControlInv, ShutdownInv, Cancelled, Drained, Emptied, Exclusive
(* Who can hold a lease.                                                   *)
<1>LeasedAre. ASSUME PcInv, NEW q \in Procs, pc[q] \in Leased
              PROVE  \/ q \in Producers /\ pc[q] = "capacity"
                     \/ q \in Graceful /\ pc[q] = "close_request"
                     \/ q = "reader" /\ pc[q] = "pong_capacity"
  <2> USE <1>LeasedAre
  <2>0. pc[q] \in Points(q)
    BY Zenon DEF PcInv
  <2>1. CASE q \in Producers
    BY <2>0, <2>1, PointsAre DEF Leased
  <2>2. CASE q \in Closers
    BY <2>0, <2>2, PointsAre DEF Leased, Closing, Shut, Graceful
  <2>3. CASE q \in {"watcher", "maintenance"}
    BY <2>0, <2>3, PointsAre DEF Leased, Closing, Shut, Graceful
  <2>4. CASE q \in {"starter", "aborter", "waiter"}
    BY <2>0, <2>4, PointsAre DEF Leased, Shut
  <2>5. CASE q \in {"callback", "reader"}
    BY <2>0, <2>5, PointsAre, Zenon DEF Leased, Shut
  <2>6. CASE q \in {"writer", "handler"}
    BY <2>0, <2>6, PointsAre DEF Leased, Shut
  <2>q. QED
    BY <2>1, <2>2, <2>3, <2>4, <2>5, <2>6, Zenon DEF Procs, Loops
(* A step that takes and drops no lease.                                   *)
<1>LeaseFrame.
    ASSUME LeaseInv, Drained' => Drained, Emptied' => Emptied, queue'.leases = queue.leases,
           \A q \in Procs : pc'[q] \in Leased <=> pc[q] \in Leased,
           Emptied => ~Pending' /\ queue'.handler = 0
    PROVE  LeaseInv'
  BY <1>LeaseFrame, Zenon DEF LeaseInv
(* A step that drops a lease.                                              *)
<1>LeaseDrop.
    ASSUME LeaseInv, Drained' => Drained, Emptied' => Emptied,
           NEW p \in Procs, Only(p), pc'[p] \notin Leased, queue'.leases = queue.leases \ {p},
           Emptied => ~Pending' /\ queue'.handler = 0
    PROVE  LeaseInv'
  BY <1>LeaseDrop, Zenon DEF LeaseInv, Only
(* A step that takes a lease before the disposal.                          *)
<1>LeaseTake.
    ASSUME LeaseInv, ~Drained', ~Emptied',
           NEW p \in Procs, Only(p), pc'[p] \in Leased, queue'.leases = queue.leases \cup {p}
    PROVE  LeaseInv'
  BY <1>LeaseTake, Zenon DEF LeaseInv, Only
(* queueMu.Lock waits for the leases, and the disposal empties the queues. *)
<1>ShutdownLease. ASSUME ControlInv, ControlInv', DataType, LeaseInv, NEW p \in Procs, Shutdown(p)
                  PROVE  LeaseInv'
  <2> USE <1>ShutdownLease
  <2>0. Only(p) /\ pc = [q \in Procs |-> pc[q]] /\ pc[p] \in Shut
    BY OnlyMoves, Zenon DEF ControlInv, PcInv, Shutdown, ShutdownEnter, ShutdownLock, ShutdownDispose,
                     ShutdownRelease, Shut
  <2>1. pc'[p] \notin Leased /\ pc[p] \notin Leased
    <3>1. pc[p] \notin Leased
      BY <2>0, Zenon DEF Shut, Leased
    <3>2. call[p].then \notin Leased
      <4>1. call[p].then \in Thens(p)
        BY <2>0, Zenon DEF ControlInv, PcInv
      <4>2. Thens(p) \cap Leased = {}
        <5>1. CASE p \in Closers
          BY <5>1, ThensAre, Zenon DEF Leased
        <5>2. CASE p \in {"starter", "waiter"}
          BY <5>2, ThensAre, Zenon DEF Leased
        <5>3. CASE p \in {"watcher", "maintenance", "writer"}
          BY <5>3, ThensAre, Zenon DEF Leased
        <5>4. CASE p \notin Closers \cup {"starter", "waiter", "watcher", "maintenance", "writer"}
          BY <5>4, Zenon DEF Thens, Leased
        <5>q. QED
          BY <5>1, <5>2, <5>3, <5>4, Zenon
      <4>q. QED
        BY <4>1, <4>2, Zenon
    <3>3. UNCHANGED pc \/ Goto(p, call[p].then) \/ \E b \in {"lock", "dispose", "release"} : Goto(p, b)
      BY Zenon DEF Shutdown, ShutdownEnter, ShutdownLock, ShutdownDispose, ShutdownRelease, ReturnShutdown
    <3>q. QED
      BY <2>0, <3>1, <3>2, <3>3, Zenon DEF Goto, Leased
  <2>2. \A q \in Procs : pc'[q] \in Leased <=> pc[q] \in Leased
    BY <2>0, <2>1, Zenon DEF Only
  <2>3. CASE ShutdownEnter(p)
    <3>1. Drained' => Drained
      BY <2>0, <2>3, Zenon DEF ShutdownEnter, ReturnShutdown, Goto, Only, Drained, ControlInv, ShutdownInv,
                        LifeType
    <3>2. Emptied' => Emptied
      BY <2>0, <2>3, ZenonT(90) DEF ShutdownEnter, ReturnShutdown, Goto, Only, Emptied, ControlInv, ShutdownInv,
                        LifeType
    <3>3. UNCHANGED queue
      BY <2>3, Zenon DEF ShutdownEnter
    <3>q. QED
      BY <2>2, <3>1, <3>2, <3>3, Zenon DEF LeaseInv, Pending
  <2>4. CASE ShutdownLock(p)
    <3>1. queue.leases = {} /\ UNCHANGED <<queue, life>> /\ Goto(p, "dispose")
      BY <2>4, Zenon DEF ShutdownLock
    <3>2. Emptied' => Emptied
      BY <2>0, <3>1, Zenon DEF Goto, Only, Emptied
    <3>q. QED
      BY <2>2, <3>1, <3>2, Zenon DEF LeaseInv, Pending
  <2>5. CASE ShutdownDispose(p)
    <3>0. Drained /\ UNCHANGED life /\ ~Emptied
      <4>1. \A q \in Procs : pc[q] # "release"
        BY <2>5, Zenon DEF ShutdownDispose, ControlInv, ShutdownInv, Exclusive
      <4>2. ~life.released
        BY <2>5, Zenon DEF ShutdownDispose, ControlInv, ShutdownInv, Exclusive
      <4>q. QED
        BY <2>5, <4>1, <4>2, Zenon DEF ShutdownDispose, Drained, Emptied
    <3>1. CASE failPending /\ UNCHANGED pc
      <4>1. queue'.leases = queue.leases
        BY <3>1, FailPendingIs, Zenon
      <4>2. Emptied' => Emptied
        BY <3>0, <3>1, Zenon DEF Emptied
      <4>q. QED
        BY <2>2, <3>0, <4>1, <4>2, Zenon DEF LeaseInv
    <3>2. CASE ~Pending /\ queue' = [queue EXCEPT !.handler = 0]
      <4>1. /\ queue'.leases = queue.leases /\ queue'.handler = 0
            /\ queue'.control = queue.control /\ queue'.outbound = queue.outbound
            /\ queue'.close = queue.close
        BY <3>2, Zenon DEF DataType, QueueType
      <4>2. ~Pending'
        BY <3>2, <4>1, Zenon DEF Pending
      <4>q. QED
        BY <2>2, <3>0, <4>1, <4>2, Zenon DEF LeaseInv
    <3>q. QED
      BY <2>5, <3>1, <3>2, Zenon DEF ShutdownDispose
  <2>6. CASE ShutdownRelease(p)
    <3>1. Emptied /\ Drained /\ UNCHANGED queue
      BY <2>6, Zenon DEF ShutdownRelease, Emptied, Drained
    <3>q. QED
      BY <2>2, <3>1, Zenon DEF LeaseInv, Pending
  <2>q. QED
    BY <2>3, <2>4, <2>5, <2>6, Zenon DEF Shutdown
(* A sender holds its lease while it waits for capacity.                   *)
<1>SendLease. ASSUME ControlInv, DataType, LeaseInv, Apart, NEW p \in Producers,
                     SendEnter(p) \/ SendCapacity(p) \/ SendAwait(p)
              PROVE  LeaseInv'
  <2> USE <1>SendLease
  <2>0. /\ p \in Procs /\ Only(p) /\ queue \in QueueType /\ pc = [q \in Procs |-> pc[q]]
        /\ (Drained' => Drained) /\ (Emptied' => Emptied)
    BY Names, OnlyMoves, <1>ApartSeals, Zenon DEF DataType, ControlInv, PcInv
  <2>g. ASSUME NEW b, Goto(p, b) PROVE pc'[p] = b
    BY <2>0, <2>g, Zenon DEF Goto
  <2>1. CASE SendAwait(p)
    <3>1. UNCHANGED queue /\ pc[p] = "await" /\ pc'[p] = "exited"
      BY <2>1, <2>g, Zenon DEF SendAwait
    <3>2. \A q \in Procs : pc'[q] \in Leased <=> pc[q] \in Leased
      BY <2>0, <3>1, Zenon DEF Only, Leased
    <3>q. QED
      BY <2>0, <3>1, <3>2, Zenon DEF LeaseInv, Pending
  <2>2. ASSUME Accept(p), ~Drained PROVE LeaseInv'
    <3>1. queue'.leases = queue.leases \ {p} /\ pc'[p] \notin Leased
      BY <2>2, <2>g, AcceptIs, Zenon DEF Accept, Leased
    <3>2. ~Emptied
      BY <2>2, Zenon DEF Drained, Emptied
    <3>q. QED
      BY <2>0, <3>1, <3>2, <1>LeaseDrop, Zenon
  <2>3. ASSUME NEW r, Refuse(p, r) PROVE LeaseInv'
    <3>1. queue' = Unlease(p) /\ pc'[p] = "exited"
      BY <2>3, <2>g, Zenon DEF Refuse
    <3>2. /\ queue'.leases = queue.leases \ {p} /\ queue'.outbound = queue.outbound
          /\ queue'.control = queue.control /\ queue'.close = queue.close
          /\ queue'.handler = queue.handler
      BY <2>0, <3>1, QueueParts, Zenon
    <3>3. Emptied => ~Pending' /\ queue'.handler = 0
      BY <3>2, Zenon DEF LeaseInv, Pending
    <3>4. pc'[p] \notin Leased
      BY <3>1, Zenon DEF Leased
    <3>q. QED
      BY <2>0, <3>2, <3>3, <3>4, <1>LeaseDrop, Zenon
  <2>4. CASE SendCapacity(p)
    <3>1. ~Drained
      BY <2>0, <2>4, Zenon DEF SendCapacity, LeaseInv, Leased
    <3>q. QED
      BY <2>2, <2>3, <2>4, <3>1, Zenon DEF SendCapacity
  <2>5. CASE SendEnter(p)
    <3>1. CASE \E r : Refuse(p, r)
      BY <2>3, <3>1, Zenon
    <3>2. CASE ~(\E r : Refuse(p, r))
      <4>1. ~life.closing /\ (Accept(p) \/ (Lease(p) /\ Goto(p, "capacity")))
        BY <2>5, <3>2, Zenon DEF SendEnter
      <4>2. ~Cancelled
        BY <4>1, Zenon DEF ControlInv, ShutdownInv
      <4>3. ~Drained /\ ~Emptied
        BY <4>2, <1>OpenIs, Zenon
      <4>4. CASE Lease(p) /\ Goto(p, "capacity")
        <5>1. queue'.leases = queue.leases \cup {p} /\ pc'[p] \in Leased
          BY <2>0, <2>g, <4>4, Zenon DEF Lease, Leased, QueueType
        <5>q. QED
          BY <2>0, <4>3, <5>1, <1>LeaseTake, Zenon
      <4>q. QED
        BY <2>2, <4>1, <4>3, <4>4, Zenon
    <3>q. QED
      BY <3>1, <3>2, Zenon
  <2>q. QED
    BY <2>1, <2>4, <2>5, Zenon
(* closeGracefully holds its lease while it enqueues the request.          *)
<1>CloseLeases. ASSUME ControlInv, DataType, LeaseInv, Apart, NEW p \in Graceful, closeGracefully(p)
                PROVE  LeaseInv'
  <2> USE <1>CloseLeases
  <2>0. /\ p \in Procs /\ Only(p) /\ queue \in QueueType /\ pc = [q \in Procs |-> pc[q]]
        /\ (Drained' => Drained) /\ (Emptied' => Emptied)
    BY GracefulAre, OnlyMoves, <1>ApartSeals, Zenon DEF DataType, ControlInv, PcInv
  <2>g. ASSUME NEW b, Goto(p, b) PROVE pc'[p] = b
    BY <2>0, <2>g, Zenon DEF Goto
  <2>a. ASSUME UNCHANGED queue, pc[p] \notin Leased, pc'[p] \notin Leased PROVE LeaseInv'
    <3>1. \A q \in Procs : pc'[q] \in Leased <=> pc[q] \in Leased
      BY <2>0, <2>a, Zenon DEF Only
    <3>q. QED
      BY <2>0, <2>a, <3>1, Zenon DEF LeaseInv, Pending
  <2>1. CASE CloseEnter(p) \/ CloseClaim(p) \/ CloseWait(p) \/ CloseReturn(p)
    <3>1. UNCHANGED queue /\ pc[p] \notin Leased
      BY <2>1, Zenon DEF CloseEnter, CloseClaim, CloseWait, CloseReturn, Leased
    <3>2. pc'[p] \in {"close_claim", "exited", "shutdown", "close_lease", "close_return"}
      BY <2>1, <2>g, Zenon DEF CloseEnter, CloseClaim, CloseWait, CloseReturn, CloseCancelled, CloseTimer,
                        CallShutdown
    <3>q. QED
      BY <2>a, <3>1, <3>2, Zenon DEF Leased
  <2>2. CASE CloseLease(p)
    <3>1. CASE Cancelled
      BY <2>2, <2>a, <2>g, <3>1, Zenon DEF CloseLease, Leased
    <3>2. CASE ~Cancelled
      <4>1. ~Drained /\ ~Emptied
        BY <3>2, <1>OpenIs, Zenon
      <4>2. queue'.leases = queue.leases \cup {p} /\ pc'[p] \in Leased
        BY <2>0, <2>2, <2>g, <3>2, Zenon DEF CloseLease, Lease, Leased, QueueType
      <4>q. QED
        BY <2>0, <4>1, <4>2, <1>LeaseTake, Zenon
    <3>q. QED
      BY <3>1, <3>2, Zenon
  <2>3. CASE CloseRequest(p)
    <3>1. ~Drained
      BY <2>0, <2>3, Zenon DEF CloseRequest, LeaseInv, Leased
    <3>2. ~Emptied
      BY <3>1, Zenon DEF Drained, Emptied
    <3>3. PICK u : u = Unlease(p)
      BY Zenon
    <3>4. u \in QueueType /\ u.leases = queue.leases \ {p}
      BY <2>0, <3>3, QueueParts, Zenon
    <3>5. queue' = u \/ queue' = [u EXCEPT !.close = <<p>>]
      BY <2>3, <3>3, Zenon DEF CloseRequest
    <3>6. queue'.leases = queue.leases \ {p}
      BY <3>4, <3>5, Zenon DEF QueueType
    <3>7. pc'[p] \in {"close_wait", "shutdown"}
      BY <2>3, <2>g, Zenon DEF CloseRequest, CloseCancelled, CloseTimer, CallShutdown
    <3>8. pc'[p] \notin Leased
      BY <3>7, Zenon DEF Leased
    <3>q. QED
      BY <2>0, <3>2, <3>6, <3>8, <1>LeaseDrop, Zenon
  <2>q. QED
    BY <2>1, <2>2, <2>3, Zenon DEF closeGracefully
(* readLoop holds its lease while it enqueues a pong.                      *)
<1>ReaderLease. ASSUME ControlInv, DataType, LeaseInv, Apart, ReaderNext
                PROVE  LeaseInv'
  <2> USE <1>ReaderLease
  <2>p. PICK p : p = "reader"
    BY Zenon
  <2>0. /\ p \in Procs /\ Only(p) /\ queue \in QueueType /\ pc = [q \in Procs |-> pc[q]]
        /\ (Drained' => Drained) /\ (Emptied' => Emptied)
    BY <2>p, Names, OnlyMoves, <1>ApartSeals, Zenon DEF DataType, ControlInv, PcInv
  <2>g. ASSUME NEW b, Goto(p, b) PROVE pc'[p] = b
    BY <2>0, <2>g, Zenon DEF Goto
  <2>a. ASSUME UNCHANGED queue, pc[p] \notin Leased, pc'[p] \notin Leased PROVE LeaseInv'
    <3>1. \A q \in Procs : pc'[q] \in Leased <=> pc[q] \in Leased
      BY <2>0, <2>a, Zenon DEF Only
    <3>q. QED
      BY <2>0, <2>a, <3>1, Zenon DEF LeaseInv, Pending
  <2>1. CASE ReadInterrupted \/ ReadFails \/ \E kind \in Inbound : Read(kind)
    <3>1. UNCHANGED queue /\ pc[p] = "read"
      BY <2>1, <2>p, Zenon DEF ReadInterrupted, ReadFails, Read
    <3>2. pc'[p] \in {"read", "dispatch", "pong", "shutdown"}
      <4>1. ASSUME NEW kind \in Inbound, Read(kind)
            PROVE  pc'[p] \in {"read", "dispatch", "pong", "shutdown"}
        <5>1. kind \in {"data", "ping", "other", "close", "bad"}
          BY ConnectionAssumption, Zenon
        <5>q. QED
          BY <2>g, <2>p, <3>1, <4>1, <5>1, Zenon DEF Read, CallShutdown
      <4>q. QED
        BY <2>1, <2>g, <2>p, <4>1, Zenon DEF ReadInterrupted, ReadFails, CallShutdown
    <3>q. QED
      BY <2>a, <3>1, <3>2, Zenon DEF Leased
  <2>2. CASE PongEnter
    <3>1. CASE Cancelled \/ life.closing
      <4>1. UNCHANGED queue /\ pc[p] = "pong" /\ pc'[p] = "shutdown"
        BY <2>2, <2>g, <2>p, <3>1, Zenon DEF PongEnter, CallShutdown
      <4>q. QED
        BY <2>a, <4>1, Zenon DEF Leased
    <3>2. CASE ~(Cancelled \/ life.closing)
      <4>1. ~Drained /\ ~Emptied
        BY <3>2, <1>OpenIs, Zenon
      <4>2. queue'.leases = queue.leases \cup {p} /\ pc'[p] \in Leased
        BY <2>0, <2>2, <2>g, <2>p, <3>2, Zenon DEF PongEnter, Lease, Leased, QueueType
      <4>q. QED
        BY <2>0, <4>1, <4>2, <1>LeaseTake, Zenon
    <3>q. QED
      BY <3>1, <3>2, Zenon
  <2>3. CASE PongCapacity
    <3>1. ~Drained
      BY <2>0, <2>3, <2>p, Zenon DEF PongCapacity, LeaseInv, Leased
    <3>2. ~Emptied
      BY <3>1, Zenon DEF Drained, Emptied
    <3>3. PICK u : u = Unlease(p)
      BY Zenon
    <3>4. u \in QueueType /\ u.leases = queue.leases \ {p}
      BY <2>0, <3>3, QueueParts, Zenon
    <3>5. queue' = u \/ queue' = [u EXCEPT !.control = @ + 1]
      BY <2>3, <2>p, <3>3, Zenon DEF PongCapacity
    <3>6. queue'.leases = queue.leases \ {p}
      BY <3>4, <3>5, Zenon DEF QueueType
    <3>7. pc'[p] \in {"read", "shutdown"}
      BY <2>3, <2>g, <2>p, Zenon DEF PongCapacity, CallShutdown
    <3>8. pc'[p] \notin Leased
      BY <3>7, Zenon DEF Leased
    <3>q. QED
      BY <2>0, <3>2, <3>6, <3>8, <1>LeaseDrop, Zenon
  <2>4. CASE Dispatch
    <3>1. pc[p] = "dispatch" /\ pc'[p] \in {"exited", "read", "shutdown"}
      BY <2>4, <2>g, <2>p, Zenon DEF Dispatch, CallShutdown
    <3>2. pc[p] \notin Leased /\ pc'[p] \notin Leased
      BY <3>1, Zenon DEF Leased
    <3>3. CASE ~Cancelled /\ queue' = [queue EXCEPT !.handler = @ + 1]
      <4>1. ~Drained /\ ~Emptied
        BY <3>3, <1>OpenIs, Zenon
      <4>2. queue'.leases = queue.leases
        BY <2>0, <3>3, Zenon DEF QueueType
      <4>3. \A q \in Procs : pc'[q] \in Leased <=> pc[q] \in Leased
        BY <2>0, <3>2, Zenon DEF Only
      <4>q. QED
        BY <2>0, <4>1, <4>2, <4>3, <1>LeaseFrame, Zenon
    <3>q. QED
      BY <2>4, <2>a, <3>2, <3>3, Zenon DEF Dispatch
  <2>q. QED
    BY <2>1, <2>2, <2>3, <2>4, Zenon DEF ReaderNext, ReaderStep
(* Steps of goroutines that hold no lease.                                 *)
<1>RestLease. ASSUME ControlInv, ControlInv', DataType, LeaseInv, Apart,
                     \/ WriterNext \/ HandlerNext \/ StillNext \/ OtherNext \/ Start \/ Join
                     \/ \E p \in Procs : CloseDone(p)
              PROVE  LeaseInv'
  <2> USE <1>RestLease
  <2>0. /\ queue \in QueueType /\ (Drained' => Drained) /\ (Emptied' => Emptied)
        /\ PcInv /\ PcInv' /\ pc = [q \in Procs |-> pc[q]]
    BY <1>ApartSeals, Zenon DEF DataType, ControlInv, PcInv
  <2>1. \A q \in Procs : pc'[q] \in Leased <=> pc[q] \in Leased
    <3>1. ASSUME NEW p \in Procs, Only(p), pc[p] \notin Leased, pc'[p] \notin Leased
          PROVE  \A q \in Procs : pc'[q] \in Leased <=> pc[q] \in Leased
      BY <3>1, Zenon DEF Only
    <3>2. ASSUME NEW q \in {"writer", "handler", "callback", "waiter", "starter", "aborter"}
          PROVE  q \in Procs /\ pc[q] \notin Leased /\ pc'[q] \notin Leased
      <4>1. q \in Procs /\ q \notin Producers /\ q \notin Graceful /\ q # "reader"
        BY Names, GracefulAre, Zenon
      <4>2. pc[q] \notin Leased
        BY <2>0, <4>1, <1>LeasedAre, Zenon
      <4>3. pc'[q] \in Points(q) /\ Points(q) \cap Leased = {}
        BY <2>0, <4>1, PointsAre, SMTT(30) DEF PcInv, Leased, Shut
      <4>q. QED
        BY <4>1, <4>2, <4>3, Zenon
    <3>3. CASE WriterNext \/ Join
      BY <3>1, <3>2, <3>3, OnlyMoves, Zenon
    <3>4. CASE HandlerNext
      BY <3>2, <3>4, OnlyMoves, Zenon
    <3>5. CASE StillNext
      BY <3>5, OnlyMoves, Zenon
    <3>6. CASE OtherNext
      <4>1. PICK p \in Graceful \cup {"aborter"} : Only(p) /\ pc[p] \in {"idle", "select", "watch"}
                                                   /\ pc'[p] \in {"close", "shutdown", "exited"}
        BY <3>6, OnlyMoves, Zenon
      <4>2. p \in Procs
        BY GracefulAre, Names, Zenon
      <4>q. QED
        BY <3>1, <4>1, <4>2, Zenon DEF Leased
    <3>7. CASE Start
      <4>1. ASSUME NEW b, Goto("starter", b) PROVE Only("starter")
        BY <2>0, <4>1, Zenon DEF Goto, Only
      <4>2. CASE /\ life.startOnce = "free"
                 /\ pc' = [pc EXCEPT !["starter"] = "exited", !["reader"] = "read",
                              !["writer"] = "poll", !["handler"] = "poll",
                              !["maintenance"] = "select",
                              !["watcher"] = "watch", !["waiter"] = "wait"]
        <5>1. \A q \in Loops \cup {"watcher", "waiter"} : pc[q] = "new"
          BY <4>2, Zenon DEF ControlInv, StartInv
        <5>2. pc["starter"] = "idle"
          BY <3>7, Zenon DEF Start
        <5>q. QED
          BY <2>0, <4>2, <5>1, <5>2, Zenon DEF Leased, Loops
      <4>q. QED
        BY <3>1, <3>2, <3>7, <4>1, <4>2, Zenon DEF Start, CallShutdown
    <3>8. ASSUME NEW p \in Procs, CloseDone(p)
          PROVE  \A q \in Procs : pc'[q] \in Leased <=> pc[q] \in Leased
      <4>1. Only(p) /\ pc[p] = "close_done" /\ pc'[p] \in {"close_return", "exited"}
        BY <2>0, <3>8, OnlyMoves, Zenon DEF CloseDone, Goto
      <4>q. QED
        BY <3>1, <4>1, Zenon DEF Leased
    <3>q. QED
      BY <3>3, <3>4, <3>5, <3>6, <3>7, <3>8, Zenon
  <2>a. ASSUME UNCHANGED queue PROVE LeaseInv'
    BY <2>0, <2>1, <2>a, Zenon DEF LeaseInv, Pending
  <2>2. CASE WriterNext
    <3>1. CASE Takes
      <4>1. /\ queue'.leases = queue.leases /\ queue'.handler = queue.handler /\ Pending
        BY <2>0, <3>1, TakesAre, Zenon DEF Pending
      <4>q. QED
        BY <2>0, <2>1, <4>1, Zenon DEF LeaseInv
    <3>2. CASE failPending
      <4>1. queue'.leases = queue.leases /\ queue'.handler = queue.handler
        BY <3>2, FailPendingIs, Zenon
      <4>2. Pending
        BY <3>2, Zenon DEF failPending, Pending
      <4>q. QED
        BY <2>0, <2>1, <4>1, <4>2, Zenon DEF LeaseInv
    <3>q. QED
      BY <2>2, <2>a, <3>1, <3>2, WriterSteps, Zenon
  <2>3. CASE HandlerNext
    <3>1. CASE HandlerTake
      <4>1. queue.handler > 0 /\ queue'.leases = queue.leases
        BY <2>0, <3>1, Zenon DEF HandlerTake, QueueType
      <4>q. QED
        BY <2>0, <2>1, <4>1 DEF LeaseInv
    <3>q. QED
      BY <2>3, <2>a, <3>1, Zenon DEF HandlerNext, HandlerStep, HandlerLoop, HandlerResult, CallbackBegin,
                              CallbackReturn
  <2>4. CASE StillNext
    <3>1. CASE Ping
      <4>1. ~Cancelled /\ queue' = [queue EXCEPT !.control = @ + 1]
        BY <3>1, Zenon DEF Ping
      <4>2. ~Drained /\ ~Emptied
        BY <4>1, <1>OpenIs, Zenon
      <4>3. queue'.leases = queue.leases
        BY <2>0, <4>1, Zenon DEF QueueType
      <4>q. QED
        BY <2>0, <2>1, <4>2, <4>3, Zenon DEF LeaseInv
    <3>q. QED
      BY <2>4, <2>a, <3>1, Zenon DEF StillNext, StartCancel, Finished, vars, CallerCancel
  <2>5. CASE OtherNext \/ Start \/ Join \/ \E p \in Procs : CloseDone(p)
    BY <2>5, <2>a, Zenon DEF OtherNext, MaintenanceExit, IdleTimeout, KeepaliveTimeout, Watch, Abort,
                      CloseCall, Start, Join, CloseDone
  <2>q. QED
    BY <2>2, <2>3, <2>4, <2>5, Zenon
(* The step as a whole.                                                   *)
<1>step. ASSUME ControlInv, ControlInv', DataType, LeaseInv, [Next]_vars
         PROVE  LeaseInv'
  <2> USE <1>step
  <2>1. CASE \E p \in Procs : Shutdown(p)
    BY <2>1, <1>ShutdownLease, Zenon
  <2>2. CASE Apart
    BY <2>1, <2>2, StepsAre, <1>RestLease, <1>ReaderLease, <1>CloseLeases, <1>SendLease, Zenon
  <2>q. QED
    BY <2>1, <2>2, ApartIs, Zenon
<1>q. QED
  BY <1>step, Zenon

-----------------------------------------------------------------------------
(* The handler loop.                                                       *)

Bounded == queue.control <= ControlQueue /\ queue.handler <= HandlerQueue

(* c.ctx is never un-cancelled, and its cause stays.                       *)
LEMMA CancelledStays ==
  ASSUME ControlInv, [Next]_vars, Cancelled
  PROVE  Cancelled' /\ life'.cancelled = life.cancelled
<1>1. CASE Apart
  BY <1>1, Zenon DEF Apart, Cancelled
<1>2. ASSUME NEW p \in Procs, Shutdown(p) PROVE life'.cancelled = life.cancelled
  <2>0. life \in LifeType /\ life.shutdownOnce # "free"
    BY Zenon DEF ControlInv, ShutdownInv, Cancelled
  <2>1. life' = life \/ life' = [life EXCEPT !.released = TRUE, !.shutdownOnce = "done"]
    BY <1>2, <2>0, Zenon DEF Shutdown, ShutdownEnter, ShutdownLock, ShutdownDispose, ShutdownRelease
  <2>q. QED
    BY <2>0, <2>1, Zenon DEF LifeType
<1>q. QED
  BY <1>1, <1>2, ApartIs, Zenon DEF Cancelled

(* Before anything runs no handler is called.                              *)
LEMMA InitHandler == ASSUME Init PROVE HandlerInv
<1>1. /\ queue.control = 0 /\ queue.handler = 0 /\ ControlQueue \in Nat /\ HandlerQueue \in Nat
  BY ConnectionAssumption, Zenon DEF Init
<1>2. "handler" \in Procs /\ "callback" \in Procs
      /\ "handler" \notin Producers \cup Closers /\ "callback" \notin Producers \cup Closers
  BY Names, Zenon
<1>3. PICK s \in Scenarios :
        pc = [p \in Procs |-> IF p \in s.callers \cup {"starter", "aborter"} THEN "idle"
                              ELSE IF p \in Producers \cup Closers THEN "exited" ELSE "new"]
  BY Zenon DEF Init
<1>4. s.callers \subseteq Producers \cup Closers
  BY ConnectionAssumption, Zenon DEF Scenario
<1>5. pc["handler"] = "new" /\ pc["callback"] = "new"
  BY <1>2, <1>3, <1>4, Zenon
<1>q. QED
  BY <1>1, <1>5 DEF HandlerInv

(* The loop calls the next handler only after the previous call is over.   *)
LEMMA NextHandler ==
  ControlInv /\ DataType /\ HandlerInv /\ [Next]_vars => HandlerInv'
(* The configuration of a behaviour does not change.                       *)
<1>ScenarioStays. ASSUME DataType, [Next]_vars PROVE env'.scenario = env.scenario
  <2> USE <1>ScenarioStays
  <2>0. /\ env \in EnvType
        /\ {"io", "start_cancel", "abort", "idle", "keepalive_timeout", "handler_error",
            "caller_cancel", "timer"} \subseteq Events
    BY Zenon DEF DataType, Events
  <2>a. ASSUME UNCHANGED env \/ \E event \in Events : Happens(event)
        PROVE  env'.scenario = env.scenario
    BY <2>a, HappensIs, Zenon
  <2>b. ASSUME \/ env' = [env EXCEPT !.inbound = @ + 1] \/ env' = [env EXCEPT !.pings = @ + 1]
               \/ env' = [env EXCEPT !.rekeys = @ + 1]
        PROVE  env'.scenario = env.scenario
    BY <2>0, <2>b, Zenon DEF EnvType
  <2>1. CASE StillNext
    <3>1. ASSUME NEW p \in Producers, CallerCancel(p) PROVE env'.scenario = env.scenario
      BY <2>0, <3>1, Zenon DEF CallerCancel, EnvType
    <3>q. QED
      BY <2>0, <2>1, <2>a, <2>b, <3>1, Zenon DEF StillNext, StartCancel, Ping, Finished, vars
  <2>2. CASE Start \/ Join \/ OtherNext
    BY <2>0, <2>2, <2>a, Zenon DEF Start, Join, OtherNext, MaintenanceExit, IdleTimeout, KeepaliveTimeout,
                            Watch, Abort, CloseCall
  <2>3. CASE WriterNext
    BY <2>0, <2>3, <2>a, <2>b, WriterSteps, Zenon
  <2>4. CASE ReaderNext
    BY <2>0, <2>4, <2>a, <2>b, Zenon DEF ReaderNext, ReaderStep, ReadInterrupted, PongEnter, PongCapacity,
                                  Dispatch, ReadFails, Read
  <2>5. CASE HandlerNext
    BY <2>0, <2>5, <2>a, Zenon DEF HandlerNext, HandlerStep, HandlerTake, HandlerLoop, HandlerResult,
                            CallbackBegin, CallbackReturn
  <2>6. ASSUME NEW p \in Procs, Shutdown(p) \/ CloseDone(p) PROVE env'.scenario = env.scenario
    BY <2>6, Zenon DEF Shutdown, ShutdownEnter, ShutdownLock, ShutdownDispose, ShutdownRelease, CloseDone
  <2>7. ASSUME NEW p \in Graceful, closeGracefully(p) PROVE env'.scenario = env.scenario
    BY <2>0, <2>7, <2>a, Zenon DEF closeGracefully, CloseEnter, CloseClaim, CloseLease, CloseRequest,
                            CloseWait, CloseReturn, CloseCancelled, CloseTimer
  <2>8. ASSUME NEW p \in Producers, SendEnter(p) \/ SendCapacity(p) \/ SendAwait(p)
        PROVE  env'.scenario = env.scenario
    BY <2>8, Zenon DEF SendEnter, SendCapacity, SendAwait
  <2>q. QED
    BY <2>1, <2>2, <2>3, <2>4, <2>5, <2>6, <2>7, <2>8, StepsAre, Zenon
(* A channel is only sent to while it has capacity.                        *)
<1>BoundsStay. ASSUME DataType, Bounded, [Next]_vars PROVE Bounded'
  <2> USE <1>BoundsStay
  <2>0. /\ queue \in QueueType /\ ControlQueue \in Nat /\ HandlerQueue \in Nat
        /\ queue.control \in Nat /\ queue.handler \in Nat
    BY ConnectionAssumption, Zenon DEF DataType, QueueType
  <2>a. ASSUME queue'.control <= queue.control, queue'.handler <= queue.handler,
               queue'.control \in Int, queue'.handler \in Int
        PROVE  Bounded'
    BY <2>0, <2>a DEF Bounded
  <2>s. ASSUME UNCHANGED queue PROVE Bounded'
    BY <2>s, Zenon DEF Bounded
  <2>u. ASSUME NEW p \in Procs
        PROVE  Unlease(p) \in QueueType /\ Unlease(p).control = queue.control
               /\ Unlease(p).handler = queue.handler
    BY <2>0, QueueParts, Zenon
  <2>1. CASE StillNext
    <3>1. CASE Ping
      BY <2>0, <3>1 DEF Ping, Bounded, QueueType
    <3>q. QED
      BY <2>1, <2>s, <3>1, Zenon DEF StillNext, StartCancel, Finished, vars, CallerCancel
  <2>2. CASE Start \/ Join \/ OtherNext
    BY <2>2, <2>s, Zenon DEF Start, Join, OtherNext, MaintenanceExit, IdleTimeout, KeepaliveTimeout,
                      Watch, Abort, CloseCall
  <2>f. ASSUME failPending PROVE Bounded'
    <3>1. queue'.control <= queue.control /\ queue'.handler = queue.handler
      BY <2>f, FailPendingIs, Zenon
    <3>2. queue'.control \in Int
      BY <2>0, <2>f DEF failPending, QueueType
    <3>q. QED
      BY <2>0, <2>a, <3>1, <3>2
  <2>3. CASE WriterNext
    <3>1. CASE Takes
      <4>1. queue' \in QueueType /\ queue'.handler = queue.handler
            /\ (queue'.control = queue.control \/ queue'.control = queue.control - 1)
        BY <3>1, TakesAre, Zenon
      <4>q. QED
        BY <2>0, <2>a, <4>1
    <3>q. QED
      BY <2>3, <2>f, <2>s, <3>1, WriterSteps, Zenon
  <2>4. CASE ReaderNext
    <3>r. "reader" \in Procs
      BY Names, Zenon
    <3>1. CASE PongCapacity
      <4>1. PICK u : u = Unlease("reader")
        BY Zenon
      <4>2. u \in QueueType /\ u.control = queue.control /\ u.handler = queue.handler
        BY <2>u, <3>r, <4>1, Zenon
      <4>3. queue' = u \/ (queue.control < ControlQueue /\ queue' = [u EXCEPT !.control = @ + 1])
        BY <3>1, <4>1, Zenon DEF PongCapacity
      <4>q. QED
        BY <2>0, <4>2, <4>3 DEF Bounded, QueueType
    <3>2. CASE PongEnter
      BY <2>0, <3>2, <2>s, Zenon DEF PongEnter, Lease, Bounded, QueueType
    <3>3. CASE Dispatch
      <4>1. CASE queue.handler < HandlerQueue /\ queue' = [queue EXCEPT !.handler = @ + 1]
        BY <2>0, <4>1 DEF Bounded, QueueType
      <4>q. QED
        BY <2>s, <3>3, <4>1, Zenon DEF Dispatch
    <3>q. QED
      BY <2>4, <2>s, <3>1, <3>2, <3>3, Zenon DEF ReaderNext, ReaderStep, ReadInterrupted, ReadFails, Read
  <2>5. CASE HandlerNext
    <3>1. CASE HandlerTake
      BY <2>0, <3>1 DEF HandlerTake, Bounded, QueueType
    <3>q. QED
      BY <2>5, <2>s, <3>1, Zenon DEF HandlerNext, HandlerStep, HandlerLoop, HandlerResult,
                              CallbackBegin, CallbackReturn
  <2>6. ASSUME NEW p \in Procs, Shutdown(p) \/ CloseDone(p) PROVE Bounded'
    <3>1. CASE queue' = [queue EXCEPT !.handler = 0]
      BY <2>0, <3>1 DEF Bounded, QueueType
    <3>q. QED
      BY <2>6, <2>f, <2>s, <3>1, Zenon DEF Shutdown, ShutdownEnter, ShutdownLock, ShutdownDispose,
                                    ShutdownRelease, CloseDone
  <2>7. ASSUME NEW p \in Graceful, closeGracefully(p) PROVE Bounded'
    <3>0. p \in Procs
      BY GracefulAre, Zenon
    <3>1. CASE CloseRequest(p)
      <4>1. PICK u : u = Unlease(p)
        BY Zenon
      <4>2. u \in QueueType /\ u.control = queue.control /\ u.handler = queue.handler
        BY <2>u, <3>0, <4>1, Zenon
      <4>3. queue' = u \/ queue' = [u EXCEPT !.close = <<p>>]
        BY <3>1, <4>1, Zenon DEF CloseRequest
      <4>q. QED
        BY <2>0, <4>2, <4>3, Zenon DEF Bounded, QueueType
    <3>2. CASE CloseLease(p)
      BY <2>0, <2>s, <3>2, Zenon DEF CloseLease, Lease, Bounded, QueueType
    <3>q. QED
      BY <2>7, <2>s, <3>1, <3>2, Zenon DEF closeGracefully, CloseEnter, CloseClaim, CloseWait, CloseReturn
  <2>8. ASSUME NEW p \in Producers, SendEnter(p) \/ SendCapacity(p) \/ SendAwait(p) PROVE Bounded'
    <3>0. p \in Procs
      BY Names, Zenon
    <3>1. CASE Accept(p)
      BY <2>0, <3>1, AcceptIs, Zenon DEF Bounded
    <3>2. CASE \E r : Refuse(p, r)
      <4>1. queue' = Unlease(p)
        BY <3>2, Zenon DEF Refuse
      <4>q. QED
        BY <2>u, <3>0, <4>1, Zenon DEF Bounded
    <3>3. CASE Lease(p)
      BY <2>0, <3>3, Zenon DEF Lease, Bounded, QueueType
    <3>q. QED
      BY <2>8, <2>s, <3>1, <3>2, <3>3, Zenon DEF SendEnter, SendCapacity, SendAwait
  <2>q. QED
    BY <2>1, <2>2, <2>3, <2>4, <2>5, <2>6, <2>7, <2>8, StepsAre, Zenon
(* A step of the others leaves the handler loop and the user's handler     *)
(* where they are, but for starting the loop and its way through shutdown. *)
<1>HandlerElsewhere.
    ASSUME ControlInv, [Next]_vars
    PROVE  \/ HandlerNext
           \/ /\ pc'["callback"] = pc["callback"]
              /\ \/ pc'["handler"] = pc["handler"]
                 \/ pc["handler"] = "new" /\ pc["callback"] = "new" /\ pc'["handler"] = "poll"
                 \/ pc["handler"] \in Shut /\ pc'["handler"] \in Shut \cup {"exited"}
  <2> USE <1>HandlerElsewhere
  <2> DEFINE Same == pc'["callback"] = pc["callback"] /\ pc'["handler"] = pc["handler"]
  <2>0. "handler" \in Procs /\ "callback" \in Procs /\ "writer" \in Procs /\ "reader" \in Procs
        /\ "waiter" \in Procs
    BY Names, Zenon
  <2>1. CASE StillNext
    BY <2>1, OnlyMoves, Zenon
  <2>2. CASE WriterNext \/ ReaderNext \/ Join
    BY <2>0, <2>2, OnlyMoves, Zenon DEF Only
  <2>3. CASE OtherNext
    <3>1. PICK p \in Graceful \cup {"aborter"} : Only(p)
      BY <2>3, OnlyMoves, Zenon
    <3>2. p # "handler" /\ p # "callback"
      BY <3>1, GracefulAre, Zenon
    <3>q. QED
      BY <2>0, <3>1, <3>2, Zenon DEF Only
  <2>4. ASSUME NEW p \in Graceful, closeGracefully(p) PROVE Same
    <3>1. Only(p) /\ p # "handler" /\ p # "callback"
      BY <2>4, OnlyMoves, GracefulAre, Zenon
    <3>q. QED
      BY <2>0, <3>1, Zenon DEF Only
  <2>5. ASSUME NEW p \in Producers, SendEnter(p) \/ SendCapacity(p) \/ SendAwait(p) PROVE Same
    <3>1. Only(p) /\ p # "handler" /\ p # "callback"
      BY <2>5, OnlyMoves, Names, Zenon
    <3>q. QED
      BY <2>0, <3>1, Zenon DEF Only
  <2>6. CASE Start
    <3>0. life.startOnce = "free" => pc["handler"] = "new" /\ pc["callback"] = "new"
      BY Zenon DEF ControlInv, StartInv, Loops
    <3>1. pc = [q \in Procs |-> pc[q]]
      BY Zenon DEF ControlInv, PcInv
    <3>2. CASE pc' = [pc EXCEPT !["starter"] = "exited", !["reader"] = "read",
                              !["writer"] = "poll", !["handler"] = "poll",
                              !["maintenance"] = "select",
                              !["watcher"] = "watch", !["waiter"] = "wait"]
               /\ life.startOnce = "free"
      <4>1. pc'["handler"] = "poll" /\ pc'["callback"] = pc["callback"]
        BY <2>0, <3>1, <3>2, Zenon
      <4>q. QED
        BY <3>0, <3>2, <4>1, Zenon
    <3>3. CASE \E b : Goto("starter", b)
      BY <2>0, <3>1, <3>3, Zenon DEF Goto
    <3>q. QED
      BY <2>6, <3>2, <3>3, Zenon DEF Start, CallShutdown
  <2>7. ASSUME NEW p \in Procs, Shutdown(p) \/ CloseDone(p)
        PROVE  \/ Same
               \/ /\ pc["handler"] \in Shut /\ pc'["handler"] \in Shut \cup {"exited"}
                  /\ pc'["callback"] = pc["callback"]
    <3>0. Only(p)
      BY <2>7, OnlyMoves, Zenon
    <3>1. CASE p # "handler" /\ p # "callback"
      BY <2>0, <3>0, <3>1, Zenon DEF Only
    <3>2. CASE p = "callback"
      <4>1. pc["callback"] \in {"new", "spawned", "running", "returned", "failed"}
        BY <2>0, PointsAre, Zenon DEF ControlInv, PcInv
      <4>q. QED
        BY <2>7, <3>2, <4>1, Zenon DEF Shutdown, ShutdownEnter, ShutdownLock, ShutdownDispose,
                                ShutdownRelease, CloseDone
    <3>3. CASE p = "handler"
      <4>1. pc["handler"] # "close_done"
        BY <2>0, PointsAre, Zenon DEF ControlInv, PcInv, Shut
      <4>2. Shutdown("handler")
        BY <2>7, <3>3, <4>1, Zenon DEF CloseDone
      <4>3. pc["handler"] \in Shut /\ "handler" # "callback"
        BY <4>2, Zenon DEF Shut, Shutdown, ShutdownEnter, ShutdownLock, ShutdownDispose, ShutdownRelease
      <4>4. pc = [q \in Procs |-> pc[q]] /\ call["handler"].then = "exited"
        BY <2>0, <4>3, ThensAre, Zenon DEF ControlInv, PcInv
      <4>5. UNCHANGED pc \/ \E b \in Shut \cup {"exited"} : Goto("handler", b)
        BY <4>2, <4>4, Zenon DEF Shut, Shutdown, ShutdownEnter, ShutdownLock, ShutdownDispose,
                          ShutdownRelease, ReturnShutdown
      <4>q. QED
        BY <2>0, <4>3, <4>4, <4>5, Zenon DEF Goto
    <3>q. QED
      BY <3>1, <3>2, <3>3, Zenon
  <2>q. QED
    BY <2>1, <2>2, <2>3, <2>4, <2>5, <2>6, <2>7, StepsAre, Zenon
(* The steps of the loop and of the user's handler, one by one.            *)
<1>HandlerSteps. ASSUME ControlInv, HandlerNext
                 PROVE  LET h == pc["handler"]
                            c == pc["callback"]
                            To(a, b) == pc'["handler"] = a /\ pc'["callback"] = b
                        IN  \/ h = "select" /\ To("recheck", c)
                            \/ h = "poll" /\ To(IF Cancelled THEN "exited" ELSE "select", c)
                            \/ h = "select" /\ To("exited", c)
                            \/ h = "recheck" /\ To(IF Cancelled THEN "exited" ELSE "call", c)
                            \/ h = "call" /\ To("calling", "spawned")
                            \/ h = "calling" /\ env.scenario.bounded /\ Cancelled /\ To("grace", c)
                            \/ h = "grace" /\ To("poll", c)
                            \/ h \in {"calling", "grace"} /\ c = "returned" /\ To("poll", "new")
                            \/ h \in {"calling", "grace"} /\ c = "failed" /\ To("shutdown", c)
                            \/ c = "spawned" /\ To(h, "running")
                            \/ c = "running" /\ \E o \in {"returned", "failed"} : To(h, o)
  <2> USE <1>HandlerSteps
  <2>0. pc = [q \in Procs |-> pc[q]] /\ "handler" \in Procs /\ "callback" \in Procs
        /\ "handler" # "callback"
    BY Names, Zenon DEF ControlInv, PcInv
  <2>1. ASSUME NEW b, Goto("handler", b)
        PROVE  pc'["handler"] = b /\ pc'["callback"] = pc["callback"]
    BY <2>0, <2>1, Zenon DEF Goto
  <2>2. ASSUME NEW b, Goto("callback", b)
        PROVE  pc'["callback"] = b /\ pc'["handler"] = pc["handler"]
    BY <2>0, <2>2, Zenon DEF Goto
  <2>3. ASSUME NEW a, NEW b, pc' = [pc EXCEPT !["handler"] = a, !["callback"] = b]
        PROVE  pc'["handler"] = a /\ pc'["callback"] = b
    BY <2>0, <2>3, Zenon
  <2>4. CASE HandlerTake
    BY <2>1, <2>4, Zenon DEF HandlerTake
  <2>5. CASE HandlerLoop
    BY <2>1, <2>3, <2>5, SMTT(30) DEF HandlerLoop, HandlerCall, HandlerGrace, HandlerDetach
  <2>6. CASE HandlerResult
    BY <2>1, <2>3, <2>6, SMTT(30) DEF HandlerResult, CallShutdown
  <2>7. CASE CallbackBegin
    BY <2>2, <2>7, Zenon DEF CallbackBegin
  <2>8. ASSUME NEW o \in {"returned", "failed"}, CallbackReturn(o)
        PROVE  pc["callback"] = "running" /\ pc'["handler"] = pc["handler"] /\ pc'["callback"] = o
    BY <2>2, <2>8, Zenon DEF CallbackReturn
  <2>q. QED
    BY <2>4, <2>5, <2>6, <2>7, <2>8, Zenon DEF HandlerNext, HandlerStep
(* The step as a whole.                                                   *)
<1>step. ASSUME ControlInv, DataType, HandlerInv, [Next]_vars
         PROVE  HandlerInv'
  <2> USE <1>step
  <2>1. env'.scenario = env.scenario
    BY <1>ScenarioStays, Zenon
  <2>2. Cancelled => Cancelled'
    BY CancelledStays, Zenon
  <2>3. queue'.control <= ControlQueue /\ queue'.handler <= HandlerQueue
    BY <1>BoundsStay, Zenon DEF Bounded, HandlerInv
  <2>4. CASE HandlerNext
    <3>1. life' = life \/ pc'["handler"] = "shutdown"
      <4>1. CASE HandlerResult
        <5>1. CASE CallShutdown(life, "handler", "handler", "exited")
          <6>1. pc = [q \in Procs |-> pc[q]] /\ "handler" \in Procs
            BY Names, Zenon DEF ControlInv, PcInv
          <6>q. QED
            BY <5>1, <6>1, Zenon DEF CallShutdown, Goto
        <5>q. QED
          BY <4>1, <5>1, Zenon DEF HandlerResult
      <4>q. QED
        BY <2>4, <4>1, Zenon DEF HandlerNext, HandlerStep, HandlerTake, HandlerLoop, CallbackBegin,
                          CallbackReturn
    <3>2. life' = life => (Cancelled' <=> Cancelled)
      BY Zenon DEF Cancelled
    <3>q. QED
      BY <2>1, <2>2, <2>3, <2>4, <3>1, <3>2, <1>HandlerSteps, Zenon DEF HandlerInv
  <2>5. CASE ~HandlerNext
    BY <2>1, <2>2, <2>3, <2>5, <1>HandlerElsewhere, Zenon DEF HandlerInv, Shut
  <2>q. QED
    BY <2>4, <2>5, Zenon
<1>q. QED
  BY <1>step, Zenon

(* What the data invariant is in every reachable state.                    *)
THEOREM DataInductive == Spec => []DataInv
<1>1. Init => DataInv
  BY InitData, Zenon
<1>2. ControlInv /\ DataInv /\ [Next]_vars => DataInv'
  BY NextData, Zenon
<1>q. QED
  BY <1>1, <1>2, ControlInductive, PTL DEF Spec

(* In every reachable state the handler loop and the user's handler agree. *)
THEOREM HandlerInductive == Spec => []HandlerInv
<1>1. Init => HandlerInv
  BY InitHandler, Zenon
<1>2. ControlInv /\ DataInv /\ HandlerInv /\ [Next]_vars => HandlerInv'
  BY NextHandler, Zenon DEF DataInv
<1>q. QED
  BY <1>1, <1>2, ControlInductive, DataInductive, PTL DEF Spec

(* When Done is closed the loop is gone, and an inline handler with it.    *)
LEMMA HandlerContains == ASSUME ControlInv, HandlerInv PROVE HandlersContained
<1>1. life.done > 0 => pc["handler"] \in {"new", "exited"}
  <2>1. life.done \in {0, 1} /\ DoneIsFinal
    BY ControlFinal, Zenon DEF ControlInv, StartInv
  <2>q. QED
    BY <2>1 DEF DoneIsFinal, Loops
<1>q. QED
  BY <1>1, Zenon DEF HandlerInv, HandlersContained

(* HandlersContained: handlers are called one after the other, an inline   *)
(* one does not outlive Done, and the queues of the loops stay within      *)
(* their capacities, in every reachable state.                             *)
THEOREM HandlersAreContained == Spec => []HandlersContained
<1>1. ControlInv /\ HandlerInv => HandlersContained
  BY HandlerContains, Zenon
<1>q. QED
  BY <1>1, ControlInductive, HandlerInductive, PTL

(* In every reachable state the leases of queueMu are as LeaseInv says.    *)
THEOREM LeaseInductive == Spec => []LeaseInv
<1>1. Init => LeaseInv
  BY InitLease, Zenon
<1>2. ControlInv /\ ControlInv' /\ DataInv /\ LeaseInv /\ [Next]_vars => LeaseInv'
  BY NextLease, Zenon DEF DataInv
<1>q. QED
  BY <1>1, <1>2, ControlInductive, DataInductive, PTL DEF Spec
=============================================================================
