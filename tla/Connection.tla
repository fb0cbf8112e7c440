----------------------------- MODULE Connection -----------------------------
(***************************************************************************)
(* The runtime of an established connection: connection.go,                *)
(* connection_send.go, connection_receive.go, connection_lifecycle.go and  *)
(* the maintenance loop of connection_keepalive.go as far as it enqueues   *)
(* pings and ends the connection (its timers may fire at any time here).   *)
(*                                                                         *)
(* Every goroutine is a process with a pc; a step is what it does between  *)
(* two points where another goroutine can interfere: a channel operation,  *)
(* a lock, a sync.Once, a call into the transport.  A select takes any of  *)
(* its ready cases.  A sync.Once is "free", "busy" or "done", and a caller *)
(* that finds it busy waits.  queueMu is the set of read leases; a pending *)
(* exclusive lock keeps new readers out, as Go's RWMutex does.             *)
(***************************************************************************)
EXTENDS Integers, Sequences, FiniteSets

(* e is an element of the sequence s.                                      *)
Contains(s, e) == \E i \in 1 .. Len(s) : s[i] = e

CONSTANTS
  Producers,      \* goroutines that each send one message
  Mode,           \* [Producers -> {"Send", "SendContext", "SendAndWait"}]
  Closers,        \* goroutines that each call Close once
  OutboundQueue, ControlQueue, HandlerQueue, \* capacities of the channels
  Inbound,        \* kinds of message the peer may send
  MaxRekeys,      \* bound: rekeys that become due
  Scenarios,      \* configurations, one for each behaviour: see Scenario
  MaxEvents       \* bound: how many events happen in one behaviour

(* What the environment may do of itself. *)
Events == {"start_cancel", "abort", "idle", "keepalive_timeout", "io",
           "handler_error", "caller_cancel", "timer"}

(* Is HandlerShutdownTimeout > 0; which callers there are; and, as bounds,  *)
(* how many messages the peer sends, how often the keepalive timer fires    *)
(* and which events may happen.                                             *)
Scenario == [ bounded : BOOLEAN, callers : SUBSET (Producers \cup Closers),
              inbound : Nat, pings : Nat, events : SUBSET Events ]

ASSUME ConnectionAssumption ==
  /\ Mode \in [Producers -> {"Send", "SendContext", "SendAndWait"}]
  /\ {OutboundQueue, ControlQueue, HandlerQueue} \subseteq Nat \ {0}
  /\ {MaxRekeys, MaxEvents} \subseteq Nat
  /\ Inbound \subseteq {"data", "ping", "other", "close", "bad"}
  /\ \A s \in Scenarios : s \in Scenario

(* Goroutines and the items of the queues have names of their own.         *)
ASSUME NamesAssumption ==
  /\ Producers \cap Closers = {}
  /\ (Producers \cup Closers) \cap
       {"reader", "writer", "maintenance", "handler", "starter", "aborter", "watcher",
        "waiter", "callback", "close", "control", "nothing"} = {}

VARIABLES
  pc,         \* control point of every goroutine
  call,       \* the cause a goroutine gave shutdown, and where it goes on
  life,       \* the connection's flags, causes and sync.Onces
  queue,      \* queueMu and the channels
  writing,    \* the item writeLoop took from a channel
  completion, \* the one-element result channels; "close" is the close request's
  result,     \* what a send or Close returned
  env,        \* configuration, Events so far, callers' contexts, use of the bounds
  history     \* messages accepted, messages sent, frames written

vars == <<pc, call, life, queue, writing, completion, result, env, history>>

Loops == {"reader", "writer", "maintenance", "handler"}
Graceful == Closers \cup {"watcher", "maintenance"} \* may call closeGracefully
Procs == Producers \cup Closers \cup Loops
           \cup {"starter", "aborter", "watcher", "waiter", "callback"}

None == "nil"
NoCall == [cause |-> None, then |-> "exited"]

Init ==
  /\ call = [p \in Procs |-> NoCall]
  /\ life = [started |-> FALSE, closing |-> FALSE, terminal |-> None,
             cancelled |-> None, startOnce |-> "free", closeOnce |-> "free",
             shutdownOnce |-> "free", released |-> FALSE, done |-> 0]
  /\ queue = [leases |-> {}, outbound |-> <<>>, control |-> 0, close |-> <<>>,
              handler |-> 0]
  /\ writing = "nothing"
  /\ completion = [p \in Producers \cup {"close"} |-> "empty"]
  /\ result = [p \in Producers \cup Closers |-> "none"]
  /\ \E s \in Scenarios :
       /\ pc = [p \in Procs |->
                  IF p \in s.callers \cup {"starter", "aborter"} THEN "idle"
                  ELSE IF p \in Producers \cup Closers THEN "exited" ELSE "new"]
       /\ env = [happened |-> {}, callerCtx |-> {}, inbound |-> 0, rekeys |-> 0,
                 pings |-> 0, scenario |-> s]
  /\ history = [accepted |-> <<>>, sent |-> <<>>, written |-> <<>>]

Goto(p, label) == pc' = [pc EXCEPT ![p] = label]

Return(p, r) ==
  result' = IF p \in DOMAIN result THEN [result EXCEPT ![p] = r] ELSE result

Cancelled == life.cancelled # None

MayHappen(event) ==
  /\ event \in env.scenario.events
  /\ event \in env.happened \/ Cardinality(env.happened) < MaxEvents

Happens(event) ==
  /\ MayHappen(event)
  /\ env' = [env EXCEPT !.happened = @ \cup {event}]

StartCtxDone == "start_cancel" \in env.happened

(* queueMu.RLock does not wait.                                            *)
CanLease == \A p \in Procs : pc[p] \notin {"lock", "dispose"}

Lease(p) == queue' = [queue EXCEPT !.leases = @ \cup {p}]

Unlease(p) == [queue EXCEPT !.leases = @ \ {p}]

(* Mutant: a later cause replaces the first.                               *)
recordLast(l, cause) == [l EXCEPT !.terminal = cause]

recordTerminal(l, cause) ==
  [l EXCEPT !.terminal = IF @ = None THEN cause ELSE @]

(* p calls shutdown(cause) in state l and goes on at `then'.               *)
CallShutdown(l, p, cause, then) ==
  /\ life' = recordTerminal(l, cause)
  /\ call' = [call EXCEPT ![p] = [cause |-> cause, then |-> then]]
  /\ Goto(p, "shutdown")

ReturnShutdown(p) ==
  /\ Goto(p, call[p].then)
  /\ call' = [call EXCEPT ![p] = NoCall]
-----------------------------------------------------------------------------
(* The body of shutdownOnce.  Its winner refuses producers and cancels     *)
(* c.ctx; the others wait until the body is done.                          *)
ShutdownEnter(p) ==
  /\ pc[p] = "shutdown"
  /\ \/ /\ life.shutdownOnce = "free"
        /\ life' = [life EXCEPT !.shutdownOnce = "busy", !.closing = TRUE,
                                !.cancelled = call[p].cause]
        /\ Goto(p, "lock")
        /\ UNCHANGED call
     \/ life.shutdownOnce = "done" /\ ReturnShutdown(p) /\ UNCHANGED life
  /\ UNCHANGED <<queue, writing, completion, result, env, history>>

(* queueMu.Lock waits for the leases.                                      *)
ShutdownLock(p) ==
  /\ pc[p] = "lock"
  /\ queue.leases = {}
  /\ Goto(p, "dispose")
  /\ UNCHANGED <<call, life, queue, writing, completion, result, env, history>>

Pending == queue.outbound # <<>> \/ queue.control > 0 \/ queue.close # <<>>

Completed(item, r) ==
  IF item = "close" \/ (item \in Producers /\ Mode[item] = "SendAndWait")
  THEN [completion EXCEPT ![item] = r] ELSE completion

(* Mutant: queued items are dropped without an answer.                     *)
dropPending ==
  /\ queue' = [queue EXCEPT !.control = 0, !.outbound = <<>>, !.close = <<>>]
  /\ UNCHANGED completion

(* One round of failPending: a queued item fails with the cause.           *)
failPending ==
  \/ /\ queue.control > 0
     /\ queue' = [queue EXCEPT !.control = @ - 1]
     /\ UNCHANGED completion
  \/ /\ queue.outbound # <<>>
     /\ queue' = [queue EXCEPT !.outbound = Tail(@)]
     /\ completion' = Completed(Head(queue.outbound), life.cancelled)
  \/ /\ queue.close # <<>>
     /\ queue' = [queue EXCEPT !.close = <<>>]
     /\ completion' = Completed("close", life.cancelled)

ShutdownDispose(p) ==
  /\ pc[p] = "dispose"
  /\ \/ Pending /\ failPending /\ UNCHANGED pc
     \/ /\ ~Pending
        /\ queue' = [queue EXCEPT !.handler = 0]
        /\ Goto(p, "release")
        /\ UNCHANGED completion
  /\ UNCHANGED <<call, life, writing, result, env, history>>

(* session.Close and transport.Close, after the lock was released.         *)
ShutdownRelease(p) ==
  /\ pc[p] = "release"
  /\ life' = [life EXCEPT !.released = TRUE, !.shutdownOnce = "done"]
  /\ ReturnShutdown(p)
  /\ UNCHANGED <<queue, writing, completion, result, env, history>>

Shutdown(p) ==
  ShutdownEnter(p) \/ ShutdownLock(p) \/ ShutdownDispose(p) \/ ShutdownRelease(p)
-----------------------------------------------------------------------------
Start ==
  /\ pc["starter"] = "idle"
  /\ \/ /\ life.startOnce = "free" /\ StartCtxDone
        /\ CallShutdown([life EXCEPT !.startOnce = "busy"], "starter",
                        "context", "close_done")
     \/ /\ life.startOnce = "free" /\ ~StartCtxDone
        /\ life' = [life EXCEPT !.startOnce = "done", !.started = TRUE]
        /\ pc' = [pc EXCEPT !["starter"] = "exited", !["reader"] = "read",
                            !["writer"] = "poll", !["handler"] = "poll",
                            !["maintenance"] = "select",
                            !["watcher"] = "watch", !["waiter"] = "wait"]
        /\ UNCHANGED call
     \/ /\ life.startOnce = "done"
        /\ Goto("starter", "exited")
        /\ UNCHANGED <<call, life>>
  /\ UNCHANGED <<queue, writing, completion, result, env, history>>

(* close(c.done), by the owner of startOnce or by the goroutine that       *)
(* joined the loops.                                                       *)
CloseDone(p) ==
  /\ pc[p] = "close_done"
  /\ life' = [life EXCEPT !.done = @ + 1, !.startOnce = "done"]
  /\ Goto(p, IF p \in Closers THEN "close_return" ELSE "exited")
  /\ Return(p, None)
  /\ UNCHANGED <<call, queue, writing, completion, env, history>>

(* The goroutine that turns the end of Start's context into a close.       *)
Watch ==
  /\ pc["watcher"] = "watch"
  /\ \/ /\ StartCtxDone
        /\ life' = recordTerminal(life, "context")
        /\ Goto("watcher", "close")
     \/ Cancelled /\ Goto("watcher", "exited") /\ UNCHANGED life
  /\ UNCHANGED <<call, queue, writing, completion, result, env, history>>

(* wg.Wait, then shutdown with the cause already there.                    *)
Join ==
  /\ pc["waiter"] = "wait"
  /\ \A p \in Loops : pc[p] = "exited"
  /\ CallShutdown(life, "waiter", IF Cancelled THEN life.cancelled ELSE "closed",
                  "close_done")
  /\ UNCHANGED <<queue, writing, completion, result, env, history>>

Abort ==
  /\ pc["aborter"] = "idle"
  /\ Happens("abort")
  /\ CallShutdown(life, "aborter", "abort", "exited")
  /\ UNCHANGED <<queue, writing, completion, result, history>>
-----------------------------------------------------------------------------
(* closeGracefully.                                                        *)

CloseCause(p) ==
  CASE p = "watcher" -> "context"
    [] p = "maintenance" -> "idle_timeout"
    [] OTHER -> "closed"

CloseCall(p) ==
  /\ p \in Closers /\ pc[p] = "idle"
  /\ Goto(p, "close")
  /\ UNCHANGED <<call, life, queue, writing, completion, result, env, history>>

CloseEnter(p) ==
  /\ pc[p] = "close"
  /\ \/ /\ life.closeOnce = "free"
        /\ life' = [recordTerminal(life, CloseCause(p)) EXCEPT
                      !.closeOnce = "busy", !.closing = TRUE]
        /\ Goto(p, "close_claim")
        /\ UNCHANGED result
     \/ /\ life.closeOnce = "done"
        /\ Goto(p, "exited")
        /\ Return(p, "repeated") \* nil, from a call that did nothing
        /\ UNCHANGED life
  /\ UNCHANGED <<call, queue, writing, completion, env, history>>

(* Mutant: an unstarted runtime is shut down without claiming startOnce.   *)
CloseUnclaimed(p) ==
  /\ pc[p] = "close_claim"
  /\ IF life.started
     THEN Goto(p, "close_lease") /\ UNCHANGED <<life, call>>
     ELSE CallShutdown(life, p, CloseCause(p), "close_done")
  /\ UNCHANGED <<queue, writing, completion, result, env, history>>

(* Claim an unstarted runtime, or find out whether it was started.         *)
CloseClaim(p) ==
  /\ pc[p] = "close_claim"
  /\ \/ /\ life.startOnce = "free"
        /\ CallShutdown([life EXCEPT !.startOnce = "busy"], p, CloseCause(p),
                        "close_done")
        /\ UNCHANGED result
     \/ /\ life.startOnce = "done" /\ life.started
        /\ Goto(p, "close_lease")
        /\ UNCHANGED <<life, call, result>>
     \/ /\ life.startOnce = "done" /\ ~life.started
        /\ Goto(p, "close_return")
        /\ Return(p, None)
        /\ UNCHANGED <<life, call>>
  /\ UNCHANGED <<queue, writing, completion, env, history>>

CloseLease(p) ==
  /\ pc[p] = "close_lease"
  /\ CanLease
  /\ IF Cancelled
     THEN Return(p, life.cancelled) /\ Goto(p, "close_return") /\ UNCHANGED queue
     ELSE Lease(p) /\ Goto(p, "close_request") /\ UNCHANGED result
  /\ UNCHANGED <<call, life, writing, completion, env, history>>

(* Mutant: a close that the end of the runtime overtook reports success.   *)
CloseOvertaken(p) ==
  /\ Cancelled
  /\ Return(p, None)
  /\ CallShutdown(life, p, CloseCause(p), "close_return")
  /\ UNCHANGED env

(* The runtime ended first, or the grace period did.                       *)
CloseCancelled(p) ==
  /\ Cancelled
  /\ Return(p, life.cancelled)
  /\ CallShutdown(life, p, CloseCause(p), "close_return")
  /\ UNCHANGED env

CloseTimer(p) ==
  /\ Happens("timer")
  /\ Return(p, "deadline")
  /\ CallShutdown(life, p, CloseCause(p), "close_return")

CloseRequest(p) ==
  /\ pc[p] = "close_request"
  /\ \/ /\ queue.close = <<>>
        /\ queue' = [Unlease(p) EXCEPT !.close = <<p>>]
        /\ Goto(p, "close_wait")
        /\ UNCHANGED <<call, life, result, env>>
     \/ CloseCancelled(p) /\ queue' = Unlease(p)
     \/ CloseTimer(p) /\ queue' = Unlease(p)
  /\ UNCHANGED <<writing, completion, history>>

(* An answer that is there is preferred over a cancelled context.          *)
CloseWait(p) ==
  /\ pc[p] = "close_wait"
  /\ \/ /\ completion["close"] # "empty"
        /\ Return(p, completion["close"])
        /\ CallShutdown(life, p, CloseCause(p), "close_return")
        /\ UNCHANGED env
     \/ completion["close"] = "empty" /\ CloseCancelled(p)
     \/ CloseTimer(p)
  /\ UNCHANGED <<queue, writing, completion, history>>

CloseReturn(p) ==
  /\ pc[p] = "close_return"
  /\ life' = [life EXCEPT !.closeOnce = "done"]
  /\ Goto(p, "exited")
  /\ UNCHANGED <<call, queue, writing, completion, result, env, history>>

closeGracefully(p) ==
  \/ CloseEnter(p) \/ CloseClaim(p) \/ CloseLease(p) \/ CloseRequest(p)
  \/ CloseWait(p) \/ CloseReturn(p)
-----------------------------------------------------------------------------
(* enqueueChannel for the three ways to send, and the wait for completion. *)

Accept(p) ==
  /\ Len(queue.outbound) < OutboundQueue
  /\ queue' = [Unlease(p) EXCEPT !.outbound = Append(@, p)]
  /\ history' = [history EXCEPT !.accepted = Append(@, p)]
  /\ IF Mode[p] = "SendAndWait"
     THEN Goto(p, "await") /\ UNCHANGED result
     ELSE Goto(p, "exited") /\ Return(p, None)

Refuse(p, err) ==
  /\ queue' = Unlease(p)
  /\ Return(p, err)
  /\ Goto(p, "exited")
  /\ UNCHANGED history

SendEnter(p) ==
  /\ pc[p] = "idle"
  /\ CanLease
  /\ CASE p \in env.callerCtx -> Refuse(p, "context")
       [] p \notin env.callerCtx /\ life.closing -> Refuse(p, "closed")
       [] OTHER ->
            \/ /\ Mode[p] # "Send"
               /\ Lease(p)
               /\ Goto(p, "capacity")
               /\ UNCHANGED <<result, history>>
            \/ Mode[p] = "Send" /\ Accept(p)
            \/ /\ Mode[p] = "Send" /\ Len(queue.outbound) = OutboundQueue
               /\ Refuse(p, "full")
  /\ UNCHANGED <<call, life, writing, completion, env>>

(* Mutant: a waiting sender polls again when the connection has ended.     *)
SendRetry(p) ==
  /\ pc[p] = "capacity"
  /\ \/ p \in env.callerCtx /\ Refuse(p, "context")
     \/ Cancelled /\ UNCHANGED <<pc, queue, result, history>>
     \/ Accept(p)
  /\ UNCHANGED <<call, life, writing, completion, env>>

SendCapacity(p) ==
  /\ pc[p] = "capacity"
  /\ \/ p \in env.callerCtx /\ Refuse(p, "context")
     \/ Cancelled /\ Refuse(p, "closed")
     \/ Accept(p)
  /\ UNCHANGED <<call, life, writing, completion, env>>

SendAwait(p) ==
  /\ pc[p] = "await"
  /\ \/ completion[p] # "empty" /\ Return(p, completion[p])
     \/ p \in env.callerCtx /\ Return(p, "context")
     \/ Cancelled /\ completion[p] = "empty" /\ Return(p, life.cancelled)
  /\ Goto(p, "exited")
  /\ UNCHANGED <<call, life, queue, writing, completion, env, history>>

CallerCancel(p) ==
  /\ MayHappen("caller_cancel")
  /\ Mode[p] # "Send" /\ pc[p] # "exited"
  /\ p \notin env.callerCtx
  /\ env' = [env EXCEPT !.callerCtx = @ \cup {p},
                        !.happened = @ \cup {"caller_cancel"}]
  /\ UNCHANGED <<pc, call, life, queue, writing, completion, result, history>>

StartCancel ==
  /\ ~StartCtxDone
  /\ Happens("start_cancel")
  /\ UNCHANGED <<pc, call, life, queue, writing, completion, result, history>>
-----------------------------------------------------------------------------
(* writeLoop and writeMessage.                                             *)

Take(item, rest) ==
  /\ writing' = item
  /\ queue' = rest
  /\ Goto("writer", "encrypt")

TakeClose ==
  /\ queue.close # <<>>
  /\ Take(Head(queue.close), [queue EXCEPT !.close = <<>>])

(* The poll that gives a close request precedence.                         *)
WriterPoll ==
  /\ pc["writer"] = "poll"
  /\ IF queue.close # <<>> THEN TakeClose
     ELSE Goto("writer", "select") /\ UNCHANGED <<writing, queue>>
  /\ UNCHANGED <<call, life, completion, result, env, history>>

WriterSelect ==
  /\ pc["writer"] = "select"
  /\ \/ Cancelled /\ Goto("writer", "fail_pending") /\ UNCHANGED <<writing, queue>>
     \/ TakeClose
     \/ queue.control > 0 /\ Take("control", [queue EXCEPT !.control = @ - 1])
     \/ /\ queue.outbound # <<>>
        /\ Take(Head(queue.outbound), [queue EXCEPT !.outbound = Tail(@)])
  /\ UNCHANGED <<call, life, completion, result, env, history>>

(* The result of writeMessage goes to the item's channel; after an error   *)
(* or a SessionClose the writer shuts the connection down.                 *)
WriteResult(err) ==
  /\ completion' = Completed(IF writing \in Graceful THEN "close" ELSE writing, err)
  /\ CASE writing \in Graceful ->
            CallShutdown(life, "writer", CloseCause(writing), "fail_pending")
       [] writing \notin Graceful /\ err # None ->
            CallShutdown(life, "writer", err, "fail_pending")
       [] OTHER -> Goto("writer", "poll") /\ UNCHANGED <<call, life>>
  /\ writing' = "nothing"

(* session.Send: the message's frame, or a RekeyInit frame first.  A write *)
(* that begins after the cancellation fails at once (acquireLane).         *)
Encrypt ==
  /\ pc["writer"] = "encrypt"
  /\ \/ Cancelled /\ WriteResult("context") /\ UNCHANGED env
     \/ /\ ~Cancelled /\ env.rekeys < MaxRekeys
        /\ env' = [env EXCEPT !.rekeys = @ + 1]
        /\ Goto("writer", "write_rekey")
        /\ UNCHANGED <<call, life, writing, completion>>
     \/ /\ ~Cancelled
        /\ Goto("writer", "write")
        /\ UNCHANGED <<call, life, writing, completion, env>>
  /\ UNCHANGED <<queue, result, history>>

(* The frame of the writer's item is on the wire.                          *)
Recorded ==
  [history EXCEPT !.written = Append(@, writing),
                  !.sent = IF writing \in Producers THEN Append(@, writing) ELSE @]

(* Mutant: the message is not retried after the RekeyInit frame.           *)
WriteNoRetry ==
  /\ ~life.released
  /\ pc["writer"] \in {"write", "write_rekey"}
  /\ history' = IF pc["writer"] = "write"
                THEN Recorded ELSE history
  /\ WriteResult(None)
  /\ UNCHANGED <<queue, result, env>>

(* WriteFrame succeeds; MarkRekeySent and the retry follow a RekeyInit.    *)
WriteDone ==
  /\ ~life.released
  /\ \/ /\ pc["writer"] = "write_rekey"
        /\ Goto("writer", "encrypt")
        /\ UNCHANGED <<call, life, writing, completion, history>>
     \/ /\ pc["writer"] = "write"
        /\ history' = Recorded
        /\ WriteResult(None)
  /\ UNCHANGED <<queue, result, env>>

(* Mutant: an interrupted write counts as done.                            *)
WriteInterruptedDone ==
  /\ pc["writer"] \in {"write", "write_rekey"}
  /\ Cancelled
  /\ WriteResult(None)
  /\ UNCHANGED <<queue, result, env, history>>

(* WriteFrame is interrupted by the cancellation, or fails by itself.      *)
WriteInterrupted ==
  /\ pc["writer"] \in {"write", "write_rekey"}
  /\ Cancelled
  /\ WriteResult("context")
  /\ UNCHANGED <<queue, result, env, history>>

WriteFails ==
  /\ pc["writer"] \in {"write", "write_rekey"}
  /\ Happens("io")
  /\ WriteResult("io")
  /\ UNCHANGED <<queue, result, history>>

WriterExit ==
  /\ pc["writer"] = "fail_pending"
  /\ \/ Pending /\ failPending /\ UNCHANGED pc
     \/ ~Pending /\ Goto("writer", "exited") /\ UNCHANGED <<queue, completion>>
  /\ UNCHANGED <<call, life, writing, result, env, history>>
-----------------------------------------------------------------------------
(* readLoop: ReadFrame, session.Receive and the switch on the message.     *)

Read(kind) ==
  /\ pc["reader"] = "read"
  /\ env.inbound < env.scenario.inbound /\ ~life.released
  /\ env' = [env EXCEPT !.inbound = @ + 1]
  /\ CASE kind = "data" -> Goto("reader", "dispatch") /\ UNCHANGED <<call, life>>
       [] kind = "ping" -> Goto("reader", "pong") /\ UNCHANGED <<call, life>>
       [] kind = "other" -> UNCHANGED <<pc, call, life>>
       [] kind = "close" -> CallShutdown(life, "reader", "closed", "exited")
       [] kind = "bad" -> CallShutdown(life, "reader", "protocol", "exited")
  /\ UNCHANGED <<queue, writing, completion, result, history>>

ReadInterrupted ==
  /\ pc["reader"] = "read"
  /\ Cancelled
  /\ CallShutdown(life, "reader", "context", "exited")
  /\ UNCHANGED <<queue, writing, completion, result, env, history>>

ReadFails ==
  /\ pc["reader"] = "read"
  /\ Happens("io")
  /\ CallShutdown(life, "reader", "io", "exited")
  /\ UNCHANGED <<queue, writing, completion, result, history>>

(* A pong is enqueued with c.ctx as the caller's context.                  *)
PongEnter ==
  /\ pc["reader"] = "pong"
  /\ CanLease
  /\ IF Cancelled \/ life.closing
     THEN /\ CallShutdown(life, "reader", IF Cancelled THEN "context" ELSE "closed",
                          "exited")
          /\ UNCHANGED queue
     ELSE Lease("reader") /\ Goto("reader", "pong_capacity") /\ UNCHANGED <<call, life>>
  /\ UNCHANGED <<writing, completion, result, env, history>>

PongCapacity ==
  /\ pc["reader"] = "pong_capacity"
  /\ \/ /\ Cancelled
        /\ queue' = Unlease("reader")
        /\ CallShutdown(life, "reader", "context", "exited")
     \/ /\ queue.control < ControlQueue
        /\ queue' = [Unlease("reader") EXCEPT !.control = @ + 1]
        /\ Goto("reader", "read")
        /\ UNCHANGED <<call, life>>
  /\ UNCHANGED <<writing, completion, result, env, history>>

Dispatch ==
  /\ pc["reader"] = "dispatch"
  /\ CanLease
  /\ \/ Cancelled /\ Goto("reader", "exited") /\ UNCHANGED <<queue, call, life>>
     \/ /\ ~Cancelled /\ queue.handler < HandlerQueue
        /\ queue' = [queue EXCEPT !.handler = @ + 1]
        /\ Goto("reader", "read")
        /\ UNCHANGED <<call, life>>
     \/ /\ ~Cancelled /\ queue.handler = HandlerQueue
        /\ CallShutdown(life, "reader", "handler_queue_full", "exited")
        /\ UNCHANGED queue
  /\ UNCHANGED <<writing, completion, result, env, history>>
-----------------------------------------------------------------------------
(* handlerLoop and callHandlerBounded.  "callback" is the user's handler:  *)
(* a goroutine of its own when bounded, the loop itself otherwise.         *)

HandlerTake ==
  /\ pc["handler"] = "select" /\ queue.handler > 0
  /\ queue' = [queue EXCEPT !.handler = @ - 1]
  /\ Goto("handler", "recheck")
  /\ UNCHANGED <<call, life, writing, completion, result, env, history>>

HandlerCall ==
  /\ pc["handler"] = "call"
  /\ pc' = [pc EXCEPT !["handler"] = "calling", !["callback"] = "spawned"]

(* Mutant: the detach timer starts with the call.                          *)
HandlerGraceEarly ==
  /\ pc["handler"] = "calling" /\ env.scenario.bounded
  /\ Goto("handler", "grace")

(* The timer that detaches a handler starts with the cancellation.         *)
HandlerGrace ==
  /\ pc["handler"] = "calling" /\ env.scenario.bounded /\ Cancelled
  /\ Goto("handler", "grace")

(* Mutant: the timer is not raced against the handler.                     *)
HandlerAwaited ==
  /\ pc["handler"] = "grace" /\ pc["callback"] = "returned"
  /\ Goto("handler", "poll")

HandlerDetach ==
  /\ pc["handler"] = "grace"
  /\ Goto("handler", "poll")

HandlerLoop ==
  /\ \/ pc["handler"] = "poll" /\ Goto("handler", IF Cancelled THEN "exited" ELSE "select")
     \/ pc["handler"] = "select" /\ Cancelled /\ Goto("handler", "exited")
     \/ pc["handler"] = "recheck" /\ Goto("handler", IF Cancelled THEN "exited" ELSE "call")
     \/ HandlerCall \/ HandlerGrace \/ HandlerDetach
  /\ UNCHANGED <<call, life, queue, writing, completion, result, env, history>>

CallbackBegin ==
  /\ pc["callback"] = "spawned"
  /\ Goto("callback", "running")
  /\ UNCHANGED <<call, life, queue, writing, completion, result, env, history>>

(* The handler returns nil, or an error (a panic is recovered as one).     *)
CallbackReturn(outcome) ==
  /\ pc["callback"] = "running"
  /\ IF outcome = "failed" THEN Happens("handler_error") ELSE UNCHANGED env
  /\ Goto("callback", outcome)
  /\ UNCHANGED <<call, life, queue, writing, completion, result, history>>

HandlerResult ==
  /\ pc["handler"] \in {"calling", "grace"}
  /\ \/ /\ pc["callback"] = "returned"
        /\ pc' = [pc EXCEPT !["handler"] = "poll", !["callback"] = "new"]
        /\ UNCHANGED <<call, life>>
     \/ /\ pc["callback"] = "failed"
        /\ CallShutdown(life, "handler", "handler", "exited")
  /\ UNCHANGED <<queue, writing, completion, result, env, history>>
-----------------------------------------------------------------------------
(* maintenanceLoop.  A ping is enqueued without waiting; when the queue    *)
(* refuses it the loop just goes on.                                       *)

MaintenanceExit ==
  /\ pc["maintenance"] = "select"
  /\ Cancelled
  /\ Goto("maintenance", "exited")
  /\ UNCHANGED <<call, life, queue, writing, completion, result, env, history>>

Ping ==
  /\ pc["maintenance"] = "select"
  /\ env.pings < env.scenario.pings /\ ~Cancelled /\ CanLease
  /\ ~life.closing /\ queue.control < ControlQueue
  /\ env' = [env EXCEPT !.pings = @ + 1]
  /\ queue' = [queue EXCEPT !.control = @ + 1]
  /\ UNCHANGED <<pc, call, life, writing, completion, result, history>>

IdleTimeout ==
  /\ pc["maintenance"] = "select"
  /\ Happens("idle")
  /\ Goto("maintenance", "close")
  /\ UNCHANGED <<call, life, queue, writing, completion, result, history>>

KeepaliveTimeout ==
  /\ pc["maintenance"] = "select" /\ env.pings > 0
  /\ Happens("keepalive_timeout")
  /\ CallShutdown(life, "maintenance", "keepalive_timeout", "exited")
  /\ UNCHANGED <<queue, writing, completion, result, history>>
-----------------------------------------------------------------------------
(* What goroutines do by themselves, and what they have to wait for: the   *)
(* peer, timers, contexts and callers.                                     *)

WriterStep ==
  WriterPoll \/ WriterSelect \/ Encrypt \/ WriteInterrupted \/ WriterExit

ReaderStep == ReadInterrupted \/ PongEnter \/ PongCapacity \/ Dispatch

HandlerStep == HandlerTake \/ HandlerLoop \/ HandlerResult

Environment ==
  \/ Start \/ StartCancel \/ Abort
  \/ Ping \/ IdleTimeout \/ KeepaliveTimeout
  \/ WriteDone \/ WriteFails \/ ReadFails
  \/ \E kind \in Inbound : Read(kind)
  \/ \E p \in Closers : CloseCall(p)
  \/ \E p \in Producers : SendEnter(p) \/ CallerCancel(p)
  \/ CallbackBegin
  \/ \E outcome \in {"returned", "failed"} : CallbackReturn(outcome)

(* Everybody has returned: the connection is over.                         *)
Finished ==
  /\ life.done > 0
  /\ \A p \in Procs \ {"aborter"} : pc[p] \in {"exited", "new", "returned", "failed"}
  /\ UNCHANGED vars

System ==
  \/ WriterStep \/ ReaderStep \/ HandlerStep \/ MaintenanceExit
  \/ Watch \/ Join
  \/ \E p \in Procs : Shutdown(p) \/ CloseDone(p)
  \/ \E p \in Graceful : closeGracefully(p)
  \/ \E p \in Producers : SendCapacity(p) \/ SendAwait(p)

Next == Environment \/ System \/ Finished

Spec == Init /\ [][Next]_vars

(* While some goroutine can run, one does: less than what the scheduler    *)
(* guarantees, and enough because the environment's work is bounded.  A    *)
(* started timer fires and a cancelled operation returns.  Nothing is      *)
(* assumed of the peer, the network or the callers, except that a handler  *)
(* that runs inline returns.                                               *)
Fairness ==
  /\ WF_vars(System)
  /\ WF_vars(~env.scenario.bounded /\ CallbackBegin)
  /\ WF_vars(~env.scenario.bounded /\ CallbackReturn("returned"))

FairSpec == Spec /\ Fairness
-----------------------------------------------------------------------------
(* Done is closed once; by then every loop has exited, the queues are      *)
(* disposed, session and transport are closed and Err has a cause.         *)
DoneIsFinal ==
  /\ life.done <= 1
  /\ life.done = 1 =>
       /\ \A p \in Loops : pc[p] \in {"new", "exited"}
       /\ life.released /\ life.terminal # None /\ Cancelled

(* Where the message of p is.                                              *)
Places(p) ==
  {place \in {"queued", "writing", "answered"} :
     \/ place = "queued" /\ Contains(queue.outbound, p)
     \/ place = "writing" /\ writing = p
     \/ place = "answered" /\ completion[p] # "empty"}

(* A message SendAndWait waits for is in exactly one place: queued, with   *)
(* the writer, or answered.  And no producer appends after the terminal    *)
(* disposal: once shutdown lets go of the exclusive lease the queues stay  *)
(* empty, so nothing is stranded in them.                                  *)
AwaitedOnce ==
  /\ \A p \in Producers : pc[p] = "await" => \E place \in Places(p) : Places(p) = {place}
  /\ (life.released \/ \E p \in Procs : pc[p] = "release") =>
       ~Pending /\ queue.handler = 0

(* Messages are written at most once and in the order of their acceptance, *)
(* whatever rekeys the writer performs in between: what is sent is what    *)
(* was accepted first.  SessionClose is the last frame of a connection.    *)
WrittenInOrder ==
  /\ Len(history.sent) <= Len(history.accepted)
  /\ \A k \in DOMAIN history.sent : history.sent[k] = history.accepted[k]
  /\ \A i \in DOMAIN history.written :
       history.written[i] \in Graceful => i = Len(history.written)

(* SendAndWait reports success only for a message whose frame was written, *)
(* and a message that was refused is never written.                        *)
ResultsHonest ==
  \A p \in Producers :
    /\ Mode[p] = "SendAndWait" /\ result[p] = None => Contains(history.written, p)
    /\ result[p] = "full" \/ (Mode[p] # "SendAndWait" /\ result[p] \in {"context", "closed"}) =>
         ~Contains(history.accepted, p)

(* A Close that did the closing of a started connection returns nil only   *)
(* when its SessionClose was written.                                      *)
CloseHonest ==
  \A c \in Closers :
    life.started /\ result[c] = None => Contains(history.written, c)

(* Handlers are called serially: the previous call has returned when the   *)
(* loop starts the next one.  Without a handler bound no call outlives     *)
(* Done.  And what pings, pongs and data are queued for the loops stays    *)
(* within the capacities that NewConnection gave the channels.             *)
HandlersContained ==
  /\ pc["handler"] = "call" => pc["callback"] = "new"
  /\ life.done > 0 /\ ~env.scenario.bounded => pc["callback"] \notin {"spawned", "running"}
  /\ queue.control <= ControlQueue /\ queue.handler <= HandlerQueue

(* The first terminal cause is the one Err reports for ever.               *)
CauseStable == [][life.terminal # None => life'.terminal = life.terminal]_vars

(* A cancelled runtime that was started comes to an end: Done is closed.   *)
ShutdownCompletes == life.started /\ Cancelled ~> life.done = 1

(* Every caller gets away: a call of Close returns, and senders that wait  *)
(* for capacity or completion are released by shutdown.                    *)
CallersReturn ==
  /\ \A c \in Closers : pc[c] = "close" ~> pc[c] = "exited"
  /\ \A p \in Producers : pc[p] \in {"capacity", "await"} /\ Cancelled ~> pc[p] = "exited"

(* "Close sends a normal SessionClose when the runtime is active, then     *)
(* stops it": unless I/O or the grace period failed, a Close that found    *)
(* the runtime active has written one when it returns.                     *)
CloseSendsSessionClose ==
  \A c \in Closers :
    life.started /\ result[c] \notin {"none", "repeated"} /\ env.happened = {} =>
      Contains(history.written, c)
=============================================================================
