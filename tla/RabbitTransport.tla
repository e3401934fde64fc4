--------------------------- MODULE RabbitTransport ---------------------------
(***************************************************************************)
(* One worker process of packages/projection-transport: the Rabbit         *)
(* consumer (rabbitWorker.ts), the poller of the source tails it may not   *)
(* run without (sourceTailPoller.ts), and the broker queue they feed from. *)
(*                                                                         *)
(* The host starts and stops the worker at any moment; the broker cancels  *)
(* the consumer, loses the channel, redelivers; the process dies.  start() *)
(* and stop() are sequences of awaited calls here, so each may run between *)
(* any two steps of the other, of the deliveries in flight and of the      *)
(* poller.  The coordinator is taken for its outcome: a `completed` commit *)
(* is durably folded (CommitCoordinator!AckedIsDurable).                   *)
(***************************************************************************)
EXTENDS Integers

CONSTANTS
  Notes,       \* notifications, one per commit
  Malformed,   \* notifications that do not decode
  Contradicted,\* notifications of an accepted past that the log contradicts
  Terminal,    \* commits a definition can never fold
  Prefetch,    \* unsettled deliveries the broker allows
  MaxPasses,   \* maxBootstrapPasses
  MaxFaults    \* bound: cancellations, lost channels, failed calls, crashes

ASSUME TransportAssumption ==
  /\ Malformed \subseteq Notes /\ Contradicted \subseteq Notes /\ Terminal \subseteq Notes
  /\ Prefetch \in Nat \ {0} /\ MaxPasses \in Nat \ {0} /\ MaxFaults \in Nat

Slots == 1 .. Prefetch

\* Bound: copies of one notification are counted this far.
ManyCopies == 2

VARIABLES
  queue,      \* queue[n]: copies in the queue
  delayed,    \* delayed[n]: copies waiting for their delayed redelivery
  dead,       \* notifications rejected for good, in the dead-letter queue
  acked,      \* notifications acknowledged
  published, folded,
  consumers,  \* consumers the broker delivers to
  handler,    \* the delivery in each prefetch slot
  worker,     \* fields of ProjectionRabbitWorker, and where start/stop are
  poller,     \* fields of SourceTailPoller
  faults

broker == <<queue, delayed, dead, acked, published, folded>>
vars == <<broker, consumers, handler, worker, poller, faults>>

StartPCs == {"none", "setup", "bootstrap", "prefetch", "consume", "consumed",
             "cancel", "drain", "drainTail", "tail"}
StopPCs == {"none", "entered", "tail1", "starting", "cancel", "drain", "tail2"}
HandlerPCs == {"free", "resolve", "process", "folded", "retry", "nack", "stuck"}

\* live: the channel of the delivery is open, so that it can be settled.
Handlers == [pc : HandlerPCs, n : Notes, live : BOOLEAN]
Free == [pc |-> "free", n |-> CHOOSE n \in Notes : TRUE, live |-> FALSE]

\* current: this.epoch is still the one start() drew.  channel: this.channel
\* and this.consumerTag are set.  cancels: stop() took them over.
Unstarted == [accepting |-> FALSE, channel |-> FALSE, current |-> FALSE,
              start |-> "none", stop |-> "none", cancels |-> FALSE,
              startAwaits |-> {}, stopAwaits |-> {}]
Unbooted == [running |-> FALSE, healthy |-> FALSE, stopping |-> FALSE,
             timer |-> FALSE, active |-> FALSE, boot |-> "none", passes |-> 0]

Init ==
  /\ queue = [n \in Notes |-> 0] /\ delayed = [n \in Notes |-> 0]
  /\ dead = {} /\ acked = {} /\ published = {} /\ folded = {}
  /\ consumers = 0
  /\ handler = [i \in Slots |-> Free]
  /\ worker = Unstarted /\ poller = Unbooted
  /\ faults = 0

-----------------------------------------------------------------------------
Fault == faults < MaxFaults /\ faults' = faults + 1

More(k) == IF k < ManyCopies THEN k + 1 ELSE k

\* Mutant of InFlight: a delivery left unsettled stays in flight.
AllDeliveries == {i \in Slots : handler[i].pc # "free"}

\* The tasks of this.inFlight.
InFlight == {i \in Slots : handler[i].pc \notin {"free", "stuck"}}

IsHealthy == poller.healthy /\ ~poller.stopping

(* SourceTailPoller.                                                       *)

\* The synchronous part of stop().
TailStopped(p) == [p EXCEPT !.stopping = TRUE, !.running = FALSE, !.timer = FALSE,
                            !.boot = IF @ = "pause" THEN "poll" ELSE @]

\* stop() waits for the pass in progress.
TailSettled == ~poller.active /\ poller.boot \notin {"poll", "pause"}

Unhealthy(p) == [p EXCEPT !.healthy = FALSE]

\* fail().
Failed(p) == Unhealthy(p)

\* The commits a pass over the indexed tails may fold; it may be cut short.
Foldable == published \ (Malformed \cup Contradicted \cup Terminal)
FoldsSome == \E some \in SUBSET Foldable : folded' = folded \cup some
FoldsAll == published \cap Terminal = {} /\ folded' = folded \cup Foldable

\* One bounded pass of bootstrap() over the source tails: it finds the poller
\* stopped, catches up, leaves the rest to the next pass, or fails.
BootPass ==
  /\ poller.boot = "poll"
  /\ \/ /\ poller.stopping
        /\ poller' = [poller EXCEPT !.boot = "failed"]
        /\ FoldsSome
     \/ /\ ~poller.stopping
        /\ poller' = [poller EXCEPT !.boot = "ok", !.healthy = TRUE]
        /\ FoldsAll
     \/ /\ ~poller.stopping
        /\ poller' = [poller EXCEPT !.boot = "pause", !.passes = @ + 1]
        /\ FoldsSome
     \/ /\ ~poller.stopping
        /\ poller' = [Failed(poller) EXCEPT !.boot = "failed"]
        /\ FoldsSome
  /\ UNCHANGED <<queue, delayed, dead, acked, published, consumers, handler,
                 worker, faults>>

\* The pause between two passes ends; the number of passes is bounded.
BootResumes ==
  /\ poller.boot = "pause"
  /\ poller' = IF poller.passes < MaxPasses THEN [poller EXCEPT !.boot = "poll"]
               ELSE [Failed(poller) EXCEPT !.boot = "failed"]
  /\ UNCHANGED <<broker, consumers, handler, worker, faults>>

TimerFires ==
  /\ poller.timer
  /\ poller' = [poller EXCEPT !.timer = FALSE, !.active = TRUE]
  /\ UNCHANGED <<broker, consumers, handler, worker, faults>>

\* schedule() in the finally of a pass.
PollEnded(p) == [p EXCEPT !.active = FALSE, !.timer = p.running]

\* A timed pass succeeds, or fails on a source whose log does not reach back
\* to the coverage, on a commit that cannot be folded, or on a failed call.
Poll ==
  /\ poller.active
  /\ \/ /\ poller' = PollEnded([poller EXCEPT !.healthy = ~poller.stopping])
        /\ FoldsAll \/ (poller.stopping /\ FoldsSome)
     \/ /\ poller' = PollEnded(IF poller.stopping THEN poller ELSE Failed(poller))
        /\ FoldsSome
  /\ UNCHANGED <<queue, delayed, dead, acked, published, consumers, handler,
                 worker, faults>>

-----------------------------------------------------------------------------
(* start().                                                                *)

SetStart(pc) == worker' = [worker EXCEPT !.start = pc]

Start ==
  /\ ~worker.channel /\ worker.start = "none" /\ worker.stop = "none"
  /\ worker' = [worker EXCEPT !.start = "setup", !.current = TRUE]
  /\ UNCHANGED <<broker, consumers, handler, poller, faults>>

\* begin() throws; start() stops the poller before it rethrows.
BeginThrows ==
  /\ SetStart("tail")
  /\ poller' = TailStopped(poller)

\* initialize, verifyCutover, checkQueue, assertExchange and assertQueue: the
\* epoch is compared after each of them, and bootstrap() begins.
SetupReturns ==
  /\ worker.start = "setup"
  /\ IF worker.current /\ ~poller.running /\ poller.boot = "none"
     THEN /\ SetStart("bootstrap")
          /\ poller' = [poller EXCEPT !.stopping = FALSE, !.boot = "poll",
                                    !.passes = 0]
     ELSE BeginThrows
  /\ UNCHANGED <<broker, consumers, handler, faults>>

BootstrapReturns ==
  /\ worker.start = "bootstrap"
  /\ \/ /\ poller.boot = "ok" /\ worker.current
        /\ SetStart("prefetch")
        /\ poller' = [poller EXCEPT !.boot = "none"]
     \/ /\ poller.boot = "failed" \/ (poller.boot = "ok" /\ ~worker.current)
        /\ SetStart("tail")
        /\ poller' = TailStopped([poller EXCEPT !.boot = "none"])
  /\ UNCHANGED <<broker, consumers, handler, faults>>

\* The poller's timer starts, deliveries are admitted, and consume() is sent.
PrefetchReturns ==
  /\ worker.start = "prefetch"
  /\ IF worker.current /\ ~poller.running /\ poller.healthy
     THEN /\ worker' = [worker EXCEPT !.start = "consume", !.accepting = TRUE]
          /\ poller' = [poller EXCEPT !.running = TRUE, !.timer = TRUE]
     ELSE BeginThrows
  /\ UNCHANGED <<broker, consumers, handler, faults>>

\* The broker takes up the consumer; it may deliver, and even cancel it,
\* before start() has seen the reply.
ConsumerRegistered ==
  /\ worker.start = "consume"
  /\ consumers' = 1
  /\ SetStart("consumed")
  /\ UNCHANGED <<broker, handler, poller, faults>>

ConsumeReturns ==
  /\ worker.start = "consumed"
  /\ worker' = IF worker.current
               THEN [worker EXCEPT !.start = "none", !.channel = TRUE]
               ELSE [worker EXCEPT !.start = "cancel"]
  /\ UNCHANGED <<broker, consumers, handler, poller, faults>>

\* The catch of begin(): wait for the deliveries in flight.
Drain(w) == [w EXCEPT !.start = "drain", !.accepting = FALSE, !.startAwaits = InFlight]

\* An awaited broker or database call of start() fails.
StartFails ==
  /\ Fault
  /\ \/ worker.start \in {"setup", "prefetch"} /\ BeginThrows
     \/ worker.start = "consume" /\ worker' = Drain(worker) /\ UNCHANGED poller
  /\ UNCHANGED <<broker, consumers, handler>>

StartCancelReturns ==
  /\ worker.start = "cancel"
  /\ consumers' = 0
  /\ worker' = Drain(worker)
  /\ UNCHANGED <<broker, handler, poller, faults>>

StartDrained ==
  /\ worker.start = "drain" /\ worker.startAwaits = {}
  /\ SetStart("drainTail")
  /\ poller' = TailStopped(poller)
  /\ UNCHANGED <<broker, consumers, handler, faults>>

\* The poller has stopped: first in begin(), then once more in start().
StartTailStopped ==
  /\ worker.start \in {"drainTail", "tail"} /\ TailSettled
  /\ IF worker.start = "drainTail"
     THEN SetStart("tail") /\ poller' = TailStopped(Unhealthy(poller))
     ELSE SetStart("none") /\ poller' = Unhealthy(poller)
  /\ UNCHANGED <<broker, consumers, handler, faults>>

-----------------------------------------------------------------------------
(* stop().                                                                 *)

\* The synchronous part: the epoch moves, admission closes, and the channel
\* is taken over.
Stopped(w) ==
  IF w.stop # "none" THEN w
  ELSE [w EXCEPT !.stop = "entered", !.current = FALSE, !.accepting = FALSE,
                 !.cancels = w.channel, !.channel = FALSE]

Stop ==
  /\ worker.stop = "none"
  /\ worker' = Stopped(worker)
  /\ UNCHANGED <<broker, consumers, handler, poller, faults>>

\* After a start() in progress is out of the way, the consumer is cancelled.
StopCancels(w) ==
  IF w.cancels THEN [w EXCEPT !.stop = "cancel"]
  ELSE [w EXCEPT !.stop = "drain", !.stopAwaits = InFlight]

StopEnters ==
  /\ worker.stop = "entered"
  /\ IF worker.start # "none"
     THEN /\ worker' = [worker EXCEPT !.stop = "tail1"]
          /\ poller' = TailStopped(poller)
     ELSE /\ worker' = StopCancels(worker)
          /\ UNCHANGED poller
  /\ UNCHANGED <<broker, consumers, handler, faults>>

StopTailStopped ==
  /\ worker.stop = "tail1" /\ TailSettled
  /\ worker' = [worker EXCEPT !.stop = "starting"]
  /\ poller' = Unhealthy(poller)
  /\ UNCHANGED <<broker, consumers, handler, faults>>

\* The promise of begin(), which this.starting holds, has settled.
BeginSettled == worker.start \in {"none", "tail"}

StopSeesStartOver ==
  /\ worker.stop = "starting" /\ BeginSettled
  /\ worker' = StopCancels(worker)
  /\ UNCHANGED <<broker, consumers, handler, poller, faults>>

StopCancelReturns ==
  /\ worker.stop = "cancel"
  /\ consumers' = 0
  /\ worker' = [worker EXCEPT !.stop = "drain", !.stopAwaits = InFlight]
  /\ UNCHANGED <<broker, handler, poller, faults>>

\* Mutant of StopDrained: the deliveries in flight are not waited for.
StopDrainedAtOnce ==
  /\ worker.stop = "drain"
  /\ worker' = [worker EXCEPT !.stop = "tail2"]
  /\ poller' = TailStopped(poller)
  /\ UNCHANGED <<broker, consumers, handler, faults>>

StopDrained ==
  /\ worker.stop = "drain" /\ worker.stopAwaits = {}
  /\ worker' = [worker EXCEPT !.stop = "tail2"]
  /\ poller' = TailStopped(poller)
  /\ UNCHANGED <<broker, consumers, handler, faults>>

StopReturns ==
  /\ worker.stop = "tail2" /\ TailSettled
  /\ worker' = [worker EXCEPT !.stop = "none", !.cancels = FALSE]
  /\ poller' = Unhealthy(poller)
  /\ UNCHANGED <<broker, consumers, handler, faults>>

-----------------------------------------------------------------------------
(* Deliveries.                                                             *)

\* The task of the slot leaves the set of those in flight.
Leave(w, i) == [w EXCEPT !.startAwaits = @ \ {i}, !.stopAwaits = @ \ {i}]

\* The delivery has been settled, or its channel is gone.
Settled(i) ==
  /\ handler' = [handler EXCEPT ![i] = Free]
  /\ worker' = Leave(worker, i)

Continue(i, pc) ==
  /\ handler' = [handler EXCEPT ![i].pc = pc]
  /\ UNCHANGED worker

\* requeueStopped: nack with requeue; nothing happens on a closed channel.
Requeue(i) ==
  LET n == handler[i].n IN
  /\ queue' = IF handler[i].live THEN [queue EXCEPT ![n] = More(@)] ELSE queue
  /\ Settled(i)
  /\ UNCHANGED <<dead, acked>>

\* nack without requeue sends the delivery to the dead-letter exchange.
NackPermanent(i) ==
  /\ dead' = IF handler[i].live THEN dead \cup {handler[i].n} ELSE dead
  /\ Settled(i)
  /\ UNCHANGED <<queue, acked>>

\* The broker hands a copy to the consumer; onDelivery and handle run up to
\* the first await.  A worker that has stopped accepting gives it straight
\* back.
Deliver(i, n) ==
  /\ consumers > 0 /\ queue[n] > 0 /\ handler[i].pc = "free"
  /\ IF ~worker.accepting
     THEN UNCHANGED <<queue, dead, handler>>
     ELSE /\ queue' = [queue EXCEPT ![n] = @ - 1]
          /\ IF ~IsHealthy
             THEN /\ handler' = [handler EXCEPT ![i] = [pc |-> "retry", n |-> n, live |-> TRUE]]
                  /\ UNCHANGED dead
             ELSE IF n \in Malformed
             THEN dead' = dead \cup {n} /\ UNCHANGED handler
             ELSE /\ handler' = [handler EXCEPT ![i] = [pc |-> "resolve", n |-> n, live |-> TRUE]]
                  /\ UNCHANGED dead
  /\ UNCHANGED <<delayed, acked, published, folded, consumers, worker, poller, faults>>

\* resolveNotification finds the commit in the indexed tail; the coordinator
\* is called unless the worker has been stopped meanwhile.
NotificationResolved(i) ==
  /\ handler[i].pc = "resolve" /\ handler[i].n \notin Contradicted
  /\ IF worker.accepting
     THEN Continue(i, "process") /\ UNCHANGED <<queue, dead, acked>>
     ELSE Requeue(i)
  /\ UNCHANGED <<delayed, published, folded, consumers, poller, faults>>

\* HistoricalNotificationRejectedError: rejected for good, and the poller
\* turns unhealthy until its next pass.
NotificationRejected(i) ==
  /\ handler[i].pc = "resolve" /\ handler[i].n \in Contradicted
  /\ IF worker.accepting THEN NackPermanent(i) ELSE Requeue(i)
  /\ poller' = Failed(poller)
  /\ UNCHANGED <<delayed, published, folded, consumers, faults>>

\* resolveNotification fails for now, and the poller turns unhealthy; or the
\* coordinator throws.
CallThrows(i) ==
  /\ handler[i].pc \in {"resolve", "process"}
  /\ Fault
  /\ IF worker.accepting
     THEN Continue(i, "retry") /\ UNCHANGED <<queue, dead, acked>>
     ELSE Requeue(i)
  /\ poller' = IF handler[i].pc = "resolve" THEN Failed(poller) ELSE poller
  /\ UNCHANGED <<delayed, published, folded, consumers>>

\* Mutant of Processed: a commit given up on is rejected like a terminal one.
ProcessedNeverRetried(i) ==
  /\ handler[i].pc = "process"
  /\ \/ /\ handler[i].n \notin Terminal
        /\ folded' = folded \cup {handler[i].n}
        /\ Continue(i, "folded")
        /\ UNCHANGED <<queue, dead, acked>>
     \/ /\ NackPermanent(i)
        /\ UNCHANGED folded
  /\ UNCHANGED <<delayed, published, consumers, poller, faults>>

\* The coordinator folds the commit, finds it terminal or gives up.
Processed(i) ==
  /\ handler[i].pc = "process"
  /\ \/ /\ handler[i].n \notin Terminal
        /\ folded' = folded \cup {handler[i].n}
        /\ Continue(i, "folded")
        /\ UNCHANGED <<queue, dead, acked>>
     \/ /\ handler[i].n \in Terminal
        /\ NackPermanent(i)
        /\ UNCHANGED folded
     \/ /\ Continue(i, "retry")
        /\ UNCHANGED <<queue, dead, acked, folded>>
  /\ UNCHANGED <<delayed, published, consumers, poller, faults>>

\* The outcome `completed` arrives: acknowledged if the poller is healthy.
Completed(i) ==
  /\ handler[i].pc = "folded"
  /\ IF IsHealthy
     THEN /\ acked' = IF handler[i].live THEN acked \cup {handler[i].n} ELSE acked
          /\ Settled(i)
     ELSE Continue(i, "retry") /\ UNCHANGED acked
  /\ UNCHANGED <<queue, delayed, dead, published, folded, consumers, poller, faults>>

\* scheduleRetry confirms a durable copy for later.
RetryScheduled(i) ==
  /\ handler[i].pc = "retry"
  /\ delayed' = [delayed EXCEPT ![handler[i].n] = More(@)]
  /\ Continue(i, "nack")
  /\ UNCHANGED <<queue, dead, acked, published, folded, consumers, poller, faults>>

\* It does not: the delivery stays unsettled until its channel closes.
RetryUnconfirmed(i) ==
  /\ handler[i].pc = "retry"
  /\ Fault
  /\ handler' = [handler EXCEPT ![i] = IF @.live THEN [@ EXCEPT !.pc = "stuck"] ELSE Free]
  /\ worker' = Leave(worker, i)
  /\ UNCHANGED <<broker, consumers, poller>>

\* The original follows its copy: nack without requeue (`dead` does not count
\* these, only the permanent rejections).
RetryNacked(i) ==
  /\ handler[i].pc = "nack"
  /\ Settled(i)
  /\ UNCHANGED <<broker, consumers, poller, faults>>

-----------------------------------------------------------------------------
(* The broker and the world.                                               *)

Publish(n) ==
  /\ n \notin published
  /\ published' = published \cup {n}
  /\ queue' = [queue EXCEPT ![n] = More(@)]
  /\ UNCHANGED <<delayed, dead, acked, folded, consumers, handler, worker, poller, faults>>

DelayEnds(n) ==
  /\ delayed[n] > 0
  /\ delayed' = [delayed EXCEPT ![n] = @ - 1]
  /\ queue' = [queue EXCEPT ![n] = More(@)]
  /\ UNCHANGED <<dead, acked, published, folded, consumers, handler, worker, poller, faults>>

\* The copies the broker takes back when the channel closes.
Returned == [n \in Notes |->
  IF \E i \in Slots : handler[i].live /\ handler[i].n = n
  THEN More(queue[n]) ELSE queue[n]]

\* The broker cancels the consumer: onDelivery(null) stops the worker.
ConsumerCancelled ==
  /\ consumers > 0
  /\ Fault
  /\ consumers' = 0
  /\ worker' = Stopped([worker EXCEPT !.channel = FALSE, !.accepting = FALSE])
  /\ UNCHANGED <<broker, handler, poller>>

\* The channel closes under the worker, which is not told.
ChannelCloses ==
  /\ consumers > 0 \/ \E i \in Slots : handler[i].live
  /\ Fault
  /\ consumers' = 0
  /\ queue' = Returned
  /\ handler' = [i \in Slots |-> IF handler[i].pc = "stuck" THEN Free
                                 ELSE [handler[i] EXCEPT !.live = FALSE]]
  /\ worker' = IF worker.start = "consume" THEN Drain(worker) ELSE worker
  /\ UNCHANGED <<delayed, dead, acked, published, folded, poller>>

\* The process dies.
Crash ==
  /\ Fault
  /\ consumers' = 0
  /\ queue' = Returned
  /\ handler' = [i \in Slots |-> Free]
  /\ worker' = Unstarted /\ poller' = Unbooted
  /\ UNCHANGED <<delayed, dead, acked, published, folded>>

-----------------------------------------------------------------------------
PollerStep == BootPass \/ BootResumes \/ TimerFires \/ Poll

StartStep ==
  \/ SetupReturns \/ BootstrapReturns \/ PrefetchReturns \/ ConsumerRegistered
  \/ ConsumeReturns \/ StartCancelReturns \/ StartDrained \/ StartTailStopped

StopStep ==
  \/ StopEnters \/ StopTailStopped \/ StopSeesStartOver \/ StopCancelReturns
  \/ StopDrained \/ StopReturns

HandlerStep(i) ==
  \/ NotificationResolved(i) \/ NotificationRejected(i) \/ Processed(i) \/ Completed(i)
  \/ RetryScheduled(i) \/ RetryNacked(i)

Next ==
  \/ PollerStep \/ StartStep \/ StopStep
  \/ Start \/ Stop \/ StartFails
  \/ \E i \in Slots :
       \/ HandlerStep(i) \/ CallThrows(i) \/ RetryUnconfirmed(i)
       \/ \E n \in Notes : Deliver(i, n)
  \/ \E n \in Notes : Publish(n) \/ DelayEnds(n)
  \/ ConsumerCancelled \/ ChannelCloses \/ Crash

Spec == Init /\ [][Next]_vars

\* Awaited calls return, timers fire and resolved promises are noticed.
FairSpec == Spec
  /\ WF_vars(BootPass) /\ WF_vars(BootResumes) /\ WF_vars(TimerFires) /\ WF_vars(Poll)
  /\ WF_vars(StartStep) /\ WF_vars(StopStep)
  /\ \A i \in Slots : WF_vars(HandlerStep(i))

-----------------------------------------------------------------------------
(* A notification is acknowledged only when its commit is durably folded,   *)
(* and until it is folded or rejected for good there is a copy of it that   *)
(* will be delivered again, across retries, stops, lost channels and        *)
(* crashes (rabbitWorker.ts:191-296).                                       *)
NothingLost ==
  /\ acked \subseteq folded
  /\ \A n \in published :
       \/ n \in folded
       \/ n \in dead /\ n \in Malformed \cup Contradicted \cup Terminal
       \/ queue[n] > 0 \/ delayed[n] > 0
       \/ \E i \in Slots : handler[i].n = n /\ handler[i].live

(* Whenever neither start() nor stop() is under way, the worker and its      *)
(* poller agree.  A worker that is not started really is at rest, with no    *)
(* consumer at the broker, no timer, no poll and no delivery being           *)
(* dispatched, so that it may be started again, whichever of the two gave up *)
(* on the other; a started one has a pass running or set up for later,       *)
(* whatever the earlier passes did.  There are never two passes at a time,   *)
(* not even across a restart (rabbitWorker.ts:96-175,                        *)
(* sourceTailPoller.ts:93-144, 187-195).                                     *)
WorkerAndPollerAgree ==
  /\ worker.start = "none" /\ worker.stop = "none" /\ ~worker.channel =>
       /\ consumers = 0 /\ InFlight = {} /\ ~worker.accepting
       /\ ~poller.running /\ ~poller.timer /\ ~poller.active /\ ~IsHealthy
       /\ poller.boot = "none"
  /\ worker.channel => poller.running /\ (poller.timer \/ poller.active)
  /\ ~(poller.active /\ (poller.timer \/ poller.boot \in {"poll", "pause"}))

(* start() and stop() settle, although each waits for the other, both for   *)
(* the deliveries in flight and both for the poller.                        *)
CallsSettle ==
  /\ worker.stop # "none" ~> worker.stop = "none"
  /\ worker.start # "none" ~> worker.start = "none"
=============================================================================
