----------------------- MODULE RabbitTransportProofs -----------------------
(***************************************************************************)
(* Proofs about RabbitTransport, for any notifications, prefetch, passes   *)
(* and any number of faults.                                               *)
(***************************************************************************)
EXTENDS RabbitTransport, TLAPS

-----------------------------------------------------------------------------
(* The inductive invariants.                                               *)

Counts == [Notes -> Nat]
Held == [pc : HandlerPCs, n : Notes \cup {Free.n}, live : BOOLEAN]
Workers ==
  [accepting : BOOLEAN, channel : BOOLEAN, current : BOOLEAN, start : StartPCs, stop : StopPCs,
   cancels : BOOLEAN, startAwaits : SUBSET Slots, stopAwaits : SUBSET Slots]
Pollers ==
  [running : BOOLEAN, healthy : BOOLEAN, stopping : BOOLEAN, timer : BOOLEAN, active : BOOLEAN,
   boot : {"none", "poll", "pause", "ok", "failed"}, passes : Nat]

BrokerTypeOK ==
  /\ queue \in Counts /\ delayed \in Counts
  /\ dead \subseteq Notes /\ acked \subseteq Notes
  /\ published \subseteq Notes /\ folded \subseteq Notes
  /\ handler \in [Slots -> Held]
  /\ \A i \in Slots : handler[i].pc # "free" => handler[i].n \in Notes

RejectedForGood(n) == n \in dead /\ n \in Malformed \cup Contradicted \cup Terminal

\* Of the copies in flight, one that has its delayed copy does not count.
CopyRemains(n) ==
  \/ queue[n] > 0 \/ delayed[n] > 0
  \/ \E i \in Slots : handler[i].n = n /\ handler[i].live /\ handler[i].pc # "nack"

KeptInv ==
  /\ BrokerTypeOK
  /\ acked \subseteq folded
  /\ \A i \in Slots : /\ handler[i].live => handler[i].pc # "free"
                      /\ handler[i].pc = "stuck" => handler[i].live
                      /\ handler[i].pc = "folded" => handler[i].n \in folded
  /\ \A n \in published : n \in folded \/ RejectedForGood(n) \/ CopyRemains(n)

PhaseTypeOK == worker \in Workers /\ poller \in Pollers /\ consumers \in {0, 1}

\* start() and stop() against each other.
WorkerPhases ==
  /\ worker.start # "none" => ~worker.channel
  /\ worker.stop # "none" => ~worker.current /\ ~worker.channel /\ ~worker.accepting
  /\ worker.accepting => worker.current
  /\ worker.accepting => worker.channel \/ worker.start \in {"consume", "consumed"}
  /\ worker.cancels => worker.start = "none" /\ worker.stop \in {"entered", "cancel", "drain", "tail2"}
  /\ worker.stop = "cancel" => worker.cancels
  /\ worker.stop \in {"drain", "tail2"} => worker.start \in {"none", "tail"}

\* Who will cancel the consumer, and who waits for the deliveries in flight.
FlightPhases ==
  /\ consumers > 0 => \/ worker.channel \/ worker.start \in {"consumed", "cancel"}
                      \/ worker.cancels /\ worker.stop \in {"entered", "cancel"}
  /\ InFlight # {} => \/ worker.channel \/ worker.start \in {"consumed", "cancel"}
                      \/ worker.start = "drain" /\ InFlight \subseteq worker.startAwaits
                      \/ worker.start = "none" /\ worker.stop = "entered"
                      \/ worker.stop = "cancel"
                      \/ worker.stop = "drain" /\ InFlight \subseteq worker.stopAwaits

\* The poller in the phases of the two calls.
PollerPhases ==
  /\ poller.timer => poller.running
  /\ poller.running => poller.timer \/ poller.active
  /\ poller.active => ~poller.timer
  /\ poller.boot # "none" <=> worker.start = "bootstrap"
  /\ worker.start \in {"setup", "bootstrap", "prefetch"} => ~poller.running /\ ~poller.active
  /\ worker.start \in {"drainTail", "tail"} => ~poller.running
  /\ worker.start \in {"consume", "consumed"} /\ worker.current => poller.running
  /\ worker.channel => poller.running
  /\ worker.stop \in {"tail1", "starting", "tail2"} => ~poller.running
  /\ worker.start = "none" /\ worker.stop = "none" /\ ~worker.channel =>
       ~poller.running /\ ~poller.active /\ ~IsHealthy

AgreeInv == PhaseTypeOK /\ WorkerPhases /\ FlightPhases /\ PollerPhases








-----------------------------------------------------------------------------
(* No notification is lost.                                                *)

LEMMA MoreIsMore == ASSUME NEW k \in Nat PROVE More(k) \in Nat /\ More(k) > 0 /\ More(k) >= k
BY DEF More, ManyCopies

(* A copy put into a queue, or into the wait for its redelivery.           *)
LEMMA CopyAdded ==
  ASSUME NEW q \in Counts, NEW n \in Notes
  PROVE  /\ [q EXCEPT ![n] = More(q[n])] \in Counts
         /\ [q EXCEPT ![n] = More(q[n])][n] > 0
         /\ \A m \in Notes : q[m] > 0 => [q EXCEPT ![n] = More(q[n])][m] > 0
<1>1. q[n] \in Nat  BY DEF Counts
<1>2. More(q[n]) \in Nat /\ More(q[n]) > 0  BY <1>1, MoreIsMore
<1> QED  BY <1>2 DEF Counts

(* The pollers, and the calls of start() and stop(), only fold commits.    *)
LEMMA FoldsKeep ==
  ASSUME KeptInv, UNCHANGED <<queue, delayed, dead, acked, published, handler>>,
         folded \subseteq folded', folded' \subseteq Notes
  PROVE  KeptInv'
<1>1. BrokerTypeOK'  BY DEF KeptInv, BrokerTypeOK
<1>2. acked' \subseteq folded'  BY DEF KeptInv
<1>3. \A n : RejectedForGood(n)' <=> RejectedForGood(n)  BY DEF RejectedForGood
<1>4. \A n : CopyRemains(n)' <=> CopyRemains(n)  BY DEF CopyRemains
<1> QED  BY <1>1, <1>2, <1>3, <1>4 DEF KeptInv

(* A delivery has changed hands: what it stood for is still in good hands. *)
LEMMA HandsKeep ==
  ASSUME KeptInv, NEW i \in Slots, NEW e \in Held, NEW k, handler[i].n = k,
         UNCHANGED published, handler' = [handler EXCEPT ![i] = e],
         queue' \in Counts, delayed' \in Counts, dead' \subseteq Notes, folded' \subseteq Notes,
         dead \subseteq dead', folded \subseteq folded', acked' \subseteq folded',
         \A m \in Notes : /\ queue[m] > 0 => queue'[m] > 0
                          /\ delayed[m] > 0 => delayed'[m] > 0,
         e.pc # "free" => e.n \in Notes,
         e.live => e.pc # "free", e.pc = "stuck" => e.live, e.pc = "folded" => e.n \in folded',
         handler[i].live /\ handler[i].pc # "nack" =>
           \/ k \in folded' \/ RejectedForGood(k)' \/ queue'[k] > 0 \/ delayed'[k] > 0
           \/ e.n = k /\ e.live /\ e.pc # "nack"
  PROVE  KeptInv'
<1>1. \A j \in Slots : handler'[j] = IF j = i THEN e ELSE handler[j]
  BY DEF KeptInv, BrokerTypeOK
<1>2. BrokerTypeOK'
  <2>1. handler' \in [Slots -> Held]  BY DEF KeptInv, BrokerTypeOK
  <2>2. acked' \subseteq Notes /\ published' \subseteq Notes  BY DEF KeptInv, BrokerTypeOK
  <2>3. \A j \in Slots : handler'[j].pc # "free" => handler'[j].n \in Notes
    BY <1>1 DEF KeptInv, BrokerTypeOK
  <2> QED  BY <2>1, <2>2, <2>3 DEF BrokerTypeOK
<1>3. \A j \in Slots : /\ handler'[j].live => handler'[j].pc # "free"
                       /\ handler'[j].pc = "stuck" => handler'[j].live
                       /\ handler'[j].pc = "folded" => handler'[j].n \in folded'
  BY <1>1 DEF KeptInv
<1>4. ASSUME NEW n \in published
      PROVE  n \in folded' \/ RejectedForGood(n)' \/ CopyRemains(n)'
  <2>1. n \in Notes  BY DEF KeptInv, BrokerTypeOK
  <2>2. CASE n \in folded  BY <2>2
  <2>3. CASE RejectedForGood(n)  BY <2>3 DEF RejectedForGood
  <2>4. CASE queue[n] > 0 \/ delayed[n] > 0  BY <2>1, <2>4 DEF CopyRemains
  <2>5. ASSUME NEW j \in Slots, handler[j].n = n, handler[j].live, handler[j].pc # "nack"
        PROVE  n \in folded' \/ RejectedForGood(n)' \/ CopyRemains(n)'
    <3>1. CASE j # i
      <4>1. handler'[j] = handler[j]  BY <1>1, <3>1
      <4> QED  BY <2>5, <4>1 DEF CopyRemains
    <3>2. CASE j = i
      <4>1. handler'[i] = e  BY <1>1
      <4>2. k = n  BY <2>5, <3>2
      <4>3. \/ n \in folded' \/ RejectedForGood(n)' \/ queue'[n] > 0 \/ delayed'[n] > 0
            \/ e.n = n /\ e.live /\ e.pc # "nack"
        BY <2>5, <3>2, <4>2
      <4> QED  BY <4>1, <4>3 DEF CopyRemains
    <3> QED  BY <3>1, <3>2
  <2> QED  BY <2>2, <2>3, <2>4, <2>5 DEF KeptInv, CopyRemains
<1> QED  BY <1>2, <1>3, <1>4 DEF KeptInv

(* The parts of a delivery, and what Settled and Continue make of it.      *)
LEMMA FreeIsHeld == Free \in Held /\ Free.pc = "free" /\ ~Free.live
BY DEF Free, Held, HandlerPCs

LEMMA HeldParts ==
  ASSUME KeptInv, NEW i \in Slots
  PROVE  /\ handler[i] \in Held /\ handler[i].live \in BOOLEAN
         /\ handler[i].pc # "free" => handler[i].n \in Notes
         /\ handler[i].live => handler[i].pc # "free"
BY DEF KeptInv, BrokerTypeOK, Held

LEMMA ContinueKeeps ==
  ASSUME KeptInv, NEW i \in Slots, NEW pc \in HandlerPCs \ {"free", "stuck"},
         handler[i].pc # "free", Continue(i, pc),
         UNCHANGED <<queue, dead, acked, published>>,
         folded \subseteq folded', folded' \subseteq Notes, delayed' \in Counts,
         \A m \in Notes : delayed[m] > 0 => delayed'[m] > 0,
         pc = "folded" => handler[i].n \in folded',
         pc = "nack" => delayed'[handler[i].n] > 0
  PROVE  KeptInv'
<1>1. PICK e : e = [handler[i] EXCEPT !.pc = pc]  OBVIOUS
<1>2. e \in Held /\ e.pc = pc /\ e.n = handler[i].n /\ e.live = handler[i].live
  BY <1>1, HeldParts DEF Held
<1>3. handler' = [handler EXCEPT ![i] = e]  BY <1>1 DEF Continue, KeptInv, BrokerTypeOK
<1>4. PICK k : k = handler[i].n  OBVIOUS
<1>5. /\ queue' = queue /\ queue' \in Counts /\ dead' = dead /\ dead' \subseteq Notes
      /\ acked' \subseteq folded' /\ published' = published
  BY DEF KeptInv, BrokerTypeOK
<1>6. handler[i].live => delayed'[k] > 0 \/ (e.n = k /\ e.live /\ e.pc # "nack")
  <2>1. CASE pc = "nack"  BY <1>4, <2>1
  <2>2. CASE pc # "nack"
    <3>1. handler[i].live => e.live  BY <1>2
    <3> QED  BY <1>2, <1>4, <2>2, <3>1
  <2> QED  BY <2>1, <2>2
<1>7. k \in Notes  BY <1>4, HeldParts
<1> QED  BY <1>2, <1>3, <1>4, <1>5, <1>6, <1>7, HandsKeep

LEMMA SettledKeeps ==
  ASSUME KeptInv, NEW i \in Slots, Settled(i), UNCHANGED <<published, folded, delayed>>,
         queue' \in Counts, dead' \subseteq Notes, dead \subseteq dead', acked' \subseteq folded,
         \A m \in Notes : queue[m] > 0 => queue'[m] > 0,
         NEW k, handler[i].n = k,
         handler[i].live /\ handler[i].pc # "nack" =>
           k \in folded \/ RejectedForGood(k)' \/ queue'[k] > 0 \/ delayed[k] > 0
  PROVE  KeptInv'
<1>1. handler' = [handler EXCEPT ![i] = Free]  BY DEF Settled
<1>2. delayed' \in Counts /\ folded' \subseteq Notes /\ folded' = folded /\ delayed' = delayed
      /\ published' = published
  BY DEF KeptInv, BrokerTypeOK
<1> QED  BY <1>1, <1>2, FreeIsHeld, HandsKeep

LEMMA RequeueKeeps ==
  ASSUME KeptInv, NEW i \in Slots, handler[i].pc # "free", Requeue(i),
         UNCHANGED <<published, folded, delayed>>
  PROVE  KeptInv'
<1>1. PICK k : k = handler[i].n  OBVIOUS
<1>2. k \in Notes /\ handler[i].live \in BOOLEAN  BY <1>1, HeldParts
<1>3. Settled(i) /\ dead' = dead /\ acked' = acked  BY DEF Requeue
<1>4. dead' \subseteq Notes /\ acked' \subseteq folded /\ queue \in Counts
  BY <1>3 DEF KeptInv, BrokerTypeOK
<1>5. CASE handler[i].live
  <2>1. queue' = [queue EXCEPT ![k] = More(queue[k])]  BY <1>1, <1>5 DEF Requeue
  <2>2. queue' \in Counts /\ queue'[k] > 0 /\ \A m \in Notes : queue[m] > 0 => queue'[m] > 0
    BY <1>2, <1>4, <2>1, CopyAdded
  <2> QED  BY <1>1, <1>3, <1>4, <2>2, SettledKeeps
<1>6. CASE ~handler[i].live
  <2>1. queue' = queue  BY <1>6 DEF Requeue
  <2> QED  BY <1>1, <1>3, <1>4, <1>6, <2>1, SettledKeeps
<1> QED  BY <1>2, <1>5, <1>6

LEMMA NackPermanentKeeps ==
  ASSUME KeptInv, NEW i \in Slots, handler[i].pc # "free", NackPermanent(i),
         handler[i].n \in Malformed \cup Contradicted \cup Terminal,
         UNCHANGED <<published, folded, delayed>>
  PROVE  KeptInv'
<1>1. PICK k : k = handler[i].n  OBVIOUS
<1>2. k \in Notes /\ handler[i].live \in BOOLEAN  BY <1>1, HeldParts
<1>3. Settled(i) /\ queue' = queue /\ acked' = acked  BY DEF NackPermanent
<1>4. dead \subseteq Notes /\ acked' \subseteq folded /\ queue' \in Counts
  BY <1>3 DEF KeptInv, BrokerTypeOK
<1>5. dead \subseteq dead' /\ dead' \subseteq Notes  BY <1>1, <1>2, <1>4 DEF NackPermanent
<1>6. handler[i].live => RejectedForGood(k)'  BY <1>1 DEF NackPermanent, RejectedForGood
<1> QED  BY <1>1, <1>3, <1>4, <1>5, <1>6, SettledKeeps

LEMMA DeliverKeeps ==
  ASSUME KeptInv, NEW i \in Slots, NEW n \in Notes, Deliver(i, n)
  PROVE  KeptInv'
<1>1. CASE ~worker.accepting
  <2>1. folded \subseteq Notes  BY DEF KeptInv, BrokerTypeOK
  <2> QED  BY <1>1, <2>1, FoldsKeep DEF Deliver
<1>2. CASE worker.accepting
  <2>1. PICK e \in Held :
          /\ handler' = [handler EXCEPT ![i] = e] /\ e.pc \notin {"stuck", "folded", "nack"}
          /\ (e.live => e.pc # "free") /\ (e.pc # "free" => e.n \in Notes)
          /\ \/ dead' = dead /\ e.n = n /\ e.live
             \/ dead' = dead \cup {n} /\ n \in Malformed
    <3>1. /\ [pc |-> "retry", n |-> n, live |-> TRUE] \in Held
          /\ [pc |-> "resolve", n |-> n, live |-> TRUE] \in Held
      BY DEF Held, HandlerPCs
    <3>2. handler[i] \in Held /\ handler[i].pc = "free" /\ (handler[i].live => handler[i].pc # "free")
      BY HeldParts DEF Deliver
    <3>3. handler = [handler EXCEPT ![i] = handler[i]]  BY DEF KeptInv, BrokerTypeOK
    <3>4. CASE handler' = [handler EXCEPT ![i] = [pc |-> "retry", n |-> n, live |-> TRUE]]
               /\ dead' = dead
      BY <3>1, <3>4
    <3>5. CASE handler' = [handler EXCEPT ![i] = [pc |-> "resolve", n |-> n, live |-> TRUE]]
               /\ dead' = dead
      BY <3>1, <3>5
    <3>6. CASE n \in Malformed /\ dead' = dead \cup {n} /\ handler' = handler
      BY <3>2, <3>3, <3>6
    <3> QED  BY <1>2, <3>4, <3>5, <3>6 DEF Deliver
  <2>2. /\ queue' = [queue EXCEPT ![n] = queue[n] - 1] /\ queue \in Counts /\ queue[n] > 0
        /\ UNCHANGED <<delayed, acked, published, folded>>
    BY <1>2 DEF Deliver, KeptInv, BrokerTypeOK
  <2>3. queue' \in Counts /\ \A m \in Notes : m # n => queue'[m] = queue[m]
    BY <2>2 DEF Counts
  <2>4. \A j \in Slots : handler'[j] = IF j = i THEN e ELSE handler[j]
    BY <2>1 DEF KeptInv, BrokerTypeOK
  <2>5. BrokerTypeOK'
    <3>1. handler' \in [Slots -> Held]  BY <2>1 DEF KeptInv, BrokerTypeOK
    <3>2. dead' \subseteq Notes  BY <2>1 DEF KeptInv, BrokerTypeOK
    <3> QED  BY <2>1, <2>2, <2>3, <2>4, <3>1, <3>2 DEF KeptInv, BrokerTypeOK
  <2>6. \A j \in Slots : /\ handler'[j].live => handler'[j].pc # "free"
                         /\ handler'[j].pc = "stuck" => handler'[j].live
                         /\ handler'[j].pc = "folded" => handler'[j].n \in folded'
    BY <2>1, <2>2, <2>4 DEF KeptInv
  <2>7. ASSUME NEW m \in published
        PROVE  m \in folded' \/ RejectedForGood(m)' \/ CopyRemains(m)'
    <3>1. CASE m = n
      <4>1. handler'[i] = e  BY <2>4
      <4> QED  BY <2>1, <3>1, <4>1 DEF RejectedForGood, CopyRemains
    <3>2. CASE m # n
      <4>1. m \in Notes  BY DEF KeptInv, BrokerTypeOK
      <4>2. RejectedForGood(m) => RejectedForGood(m)'  BY <2>1 DEF RejectedForGood
      <4>3. CopyRemains(m) => CopyRemains(m)'
        <5>1. \A j \in Slots : handler[j].live => handler'[j] = handler[j]
          <6>1. ~handler[i].live  BY HeldParts DEF Deliver
          <6> QED  BY <2>4, <6>1
        <5> QED  BY <2>2, <2>3, <3>2, <4>1, <5>1 DEF CopyRemains
      <4> QED  BY <2>2, <4>2, <4>3 DEF KeptInv
    <3> QED  BY <3>1, <3>2
  <2> QED  BY <2>2, <2>5, <2>6, <2>7 DEF KeptInv
<1> QED  BY <1>1, <1>2

(* Handlers that go on, one call at a time.                                *)
LEMMA HandlersKeep ==
  ASSUME KeptInv, TransportAssumption, NEW i \in Slots,
         HandlerStep(i) \/ CallThrows(i) \/ RetryUnconfirmed(i)
  PROVE  KeptInv'
<1>1. /\ folded \subseteq Notes /\ delayed \in Counts /\ queue \in Counts /\ dead \subseteq Notes
      /\ acked \subseteq folded /\ handler[i].live \in BOOLEAN
  BY HeldParts DEF KeptInv, BrokerTypeOK
<1>2. CASE NotificationResolved(i)
  <2>1. handler[i].pc # "free" /\ UNCHANGED <<delayed, published, folded>>
    BY <1>2 DEF NotificationResolved
  <2>2. CASE Requeue(i)  BY <2>1, <2>2, RequeueKeeps
  <2>3. CASE Continue(i, "process") /\ UNCHANGED <<queue, dead, acked>>
    BY <1>1, <2>1, <2>3, ContinueKeeps DEF HandlerPCs
  <2> QED  BY <1>2, <2>2, <2>3 DEF NotificationResolved
<1>3. CASE NotificationRejected(i)
  <2>1. /\ handler[i].pc # "free" /\ UNCHANGED <<delayed, published, folded>>
        /\ handler[i].n \in Malformed \cup Contradicted \cup Terminal
    BY <1>3 DEF NotificationRejected
  <2> QED  BY <1>3, <2>1, RequeueKeeps, NackPermanentKeeps DEF NotificationRejected
<1>4. CASE CallThrows(i)
  <2>1. handler[i].pc # "free" /\ UNCHANGED <<delayed, published, folded>>
    BY <1>4 DEF CallThrows
  <2>2. CASE Requeue(i)  BY <2>1, <2>2, RequeueKeeps
  <2>3. CASE Continue(i, "retry") /\ UNCHANGED <<queue, dead, acked>>
    BY <1>1, <2>1, <2>3, ContinueKeeps DEF HandlerPCs
  <2> QED  BY <1>4, <2>2, <2>3 DEF CallThrows
<1>5. CASE Processed(i)
  <2>1. handler[i].pc # "free" /\ UNCHANGED <<delayed, published>>  BY <1>5 DEF Processed
  <2>2. handler[i].n \in Notes  BY <2>1, HeldParts
  <2>3. CASE /\ folded' = folded \cup {handler[i].n} /\ Continue(i, "folded")
             /\ UNCHANGED <<queue, dead, acked>>
    BY <1>1, <2>1, <2>2, <2>3, ContinueKeeps DEF HandlerPCs
  <2>4. CASE handler[i].n \in Terminal /\ NackPermanent(i) /\ UNCHANGED folded
    BY <2>1, <2>4, NackPermanentKeeps
  <2>5. CASE Continue(i, "retry") /\ UNCHANGED <<queue, dead, acked, folded>>
    BY <1>1, <2>1, <2>5, ContinueKeeps DEF HandlerPCs
  <2> QED  BY <1>5, <2>3, <2>4, <2>5 DEF Processed
<1>6. CASE Completed(i)
  <2>1. /\ handler[i].pc # "free" /\ UNCHANGED <<queue, delayed, dead, published, folded>>
        /\ handler[i].n \in folded
    BY <1>6 DEF Completed, KeptInv
  <2>2. CASE Continue(i, "retry") /\ UNCHANGED acked
    BY <1>1, <2>1, <2>2, ContinueKeeps DEF HandlerPCs
  <2>3. CASE Settled(i) /\ acked' = IF handler[i].live THEN acked \cup {handler[i].n} ELSE acked
    <3>1. acked' \subseteq folded  BY <1>1, <2>1, <2>3
    <3> QED  BY <1>1, <2>1, <2>3, <3>1, SettledKeeps
  <2> QED  BY <1>6, <2>2, <2>3 DEF Completed
<1>7. CASE RetryScheduled(i)
  <2>1. /\ handler[i].pc # "free" /\ UNCHANGED <<queue, dead, acked, published, folded>>
        /\ Continue(i, "nack") /\ delayed' = [delayed EXCEPT ![handler[i].n] = More(delayed[handler[i].n])]
    BY <1>7 DEF RetryScheduled
  <2>2. PICK k : k = handler[i].n  OBVIOUS
  <2>3. k \in Notes  BY <2>1, <2>2, HeldParts
  <2>4. delayed' = [delayed EXCEPT ![k] = More(delayed[k])]  BY <2>1, <2>2
  <2>5. delayed' \in Counts /\ delayed'[k] > 0 /\ \A m \in Notes : delayed[m] > 0 => delayed'[m] > 0
    BY <1>1, <2>3, <2>4, CopyAdded
  <2> QED  BY <1>1, <2>1, <2>2, <2>5, ContinueKeeps DEF HandlerPCs
<1>8. CASE RetryUnconfirmed(i)
  <2>1. handler[i].pc = "retry" /\ UNCHANGED broker /\ handler[i] \in Held
    BY <1>8, HeldParts DEF RetryUnconfirmed
  <2>2. PICK k : k = handler[i].n  OBVIOUS
  <2>3. PICK e \in Held :
          /\ handler' = [handler EXCEPT ![i] = e] /\ e.pc \in {"free", "stuck"}
          /\ (e.live <=> e.pc = "stuck") /\ (e.pc = "stuck" => e.n = k)
          /\ (handler[i].live => e.live)
    <3>1. PICK s : s = [handler[i] EXCEPT !.pc = "stuck"]  OBVIOUS
    <3>2. s \in Held /\ s.pc = "stuck" /\ s.n = k /\ s.live = handler[i].live
      BY <2>1, <2>2, <3>1 DEF Held, HandlerPCs
    <3>3. CASE handler[i].live
      <4>1. handler' = [handler EXCEPT ![i] = s]  BY <1>8, <3>1, <3>3 DEF RetryUnconfirmed
      <4>2. s.live  BY <3>2, <3>3
      <4> QED  BY <3>2, <4>1, <4>2
    <3>4. CASE ~handler[i].live
      <4>1. handler' = [handler EXCEPT ![i] = Free]  BY <1>8, <3>4 DEF RetryUnconfirmed
      <4> QED  BY <3>4, <4>1, FreeIsHeld
    <3> QED  BY <3>3, <3>4
  <2>4. k \in Notes  BY <2>1, <2>2, HeldParts
  <2>5. /\ queue' = queue /\ delayed' = delayed /\ dead' = dead /\ acked' = acked
        /\ published' = published /\ folded' = folded
    BY <2>1 DEF broker
  <2> QED  BY <1>1, <2>2, <2>3, <2>4, <2>5, HandsKeep
<1>9. CASE RetryNacked(i)
  <2>1. handler[i].pc = "nack" /\ Settled(i) /\ UNCHANGED broker  BY <1>9 DEF RetryNacked
  <2> QED  BY <1>1, <2>1, SettledKeeps DEF broker
<1> QED  BY <1>2, <1>3, <1>4, <1>5, <1>6, <1>7, <1>8, <1>9 DEF HandlerStep

(* The broker.                                                             *)
LEMMA PublishKeeps ==
  ASSUME KeptInv, NEW n \in Notes, Publish(n)
  PROVE  KeptInv'
<1>1. /\ queue' = [queue EXCEPT ![n] = More(queue[n])] /\ published' = published \cup {n}
      /\ UNCHANGED <<delayed, dead, acked, folded, handler>>
  BY DEF Publish
<1>2. queue' \in Counts /\ queue'[n] > 0 /\ \A m \in Notes : queue[m] > 0 => queue'[m] > 0
  BY <1>1, CopyAdded DEF KeptInv, BrokerTypeOK
<1>3. BrokerTypeOK'  BY <1>1, <1>2 DEF KeptInv, BrokerTypeOK
<1>4. ASSUME NEW m \in published'
      PROVE  m \in folded' \/ RejectedForGood(m)' \/ CopyRemains(m)'
  <2>1. CASE m = n  BY <1>2, <2>1 DEF CopyRemains
  <2>2. CASE m \in published
    <3>1. m \in Notes  BY <2>2 DEF KeptInv, BrokerTypeOK
    <3>2. RejectedForGood(m) => RejectedForGood(m)'  BY <1>1 DEF RejectedForGood
    <3>3. CopyRemains(m) => CopyRemains(m)'  BY <1>1, <1>2, <3>1 DEF CopyRemains
    <3> QED  BY <1>1, <2>2, <3>2, <3>3 DEF KeptInv
  <2> QED  BY <1>1, <2>1, <2>2
<1> QED  BY <1>1, <1>3, <1>4 DEF KeptInv

LEMMA DelayEndsKeeps ==
  ASSUME KeptInv, NEW n \in Notes, DelayEnds(n)
  PROVE  KeptInv'
<1>1. /\ queue' = [queue EXCEPT ![n] = More(queue[n])]
      /\ delayed' = [delayed EXCEPT ![n] = delayed[n] - 1] /\ delayed[n] > 0
      /\ UNCHANGED <<published, dead, acked, folded, handler>>
  BY DEF DelayEnds
<1>2. queue' \in Counts /\ queue'[n] > 0 /\ \A m \in Notes : queue[m] > 0 => queue'[m] > 0
  BY <1>1, CopyAdded DEF KeptInv, BrokerTypeOK
<1>3. delayed' \in Counts /\ \A m \in Notes : m # n => delayed'[m] = delayed[m]
  BY <1>1 DEF KeptInv, BrokerTypeOK, Counts
<1>4. BrokerTypeOK'  BY <1>1, <1>2, <1>3 DEF KeptInv, BrokerTypeOK
<1>5. ASSUME NEW m \in published
      PROVE  m \in folded' \/ RejectedForGood(m)' \/ CopyRemains(m)'
  <2>1. m \in Notes  BY DEF KeptInv, BrokerTypeOK
  <2>2. RejectedForGood(m) => RejectedForGood(m)'  BY <1>1 DEF RejectedForGood
  <2>3. CopyRemains(m) => CopyRemains(m)'
    <3>1. CASE m = n  BY <1>2, <3>1 DEF CopyRemains
    <3>2. CASE m # n  BY <1>1, <1>2, <1>3, <2>1, <3>2 DEF CopyRemains
    <3> QED  BY <3>1, <3>2
  <2> QED  BY <1>1, <2>2, <2>3 DEF KeptInv
<1> QED  BY <1>1, <1>4, <1>5 DEF KeptInv

(* The copies in flight return to the queue.                               *)
LEMMA ReturnKeeps ==
  ASSUME KeptInv, queue' = Returned, UNCHANGED <<delayed, dead, acked, published, folded>>,
         handler' \in [Slots -> Held],
         \A i \in Slots : \/ handler'[i] = Free
                          \/ /\ handler'[i].pc = handler[i].pc /\ handler'[i].n = handler[i].n
                             /\ ~handler'[i].live /\ handler[i].pc # "stuck"
  PROVE  KeptInv'
<1>1. queue' = [n \in Notes |->
                  IF \E i \in Slots : handler[i].live /\ handler[i].n = n
                  THEN More(queue[n]) ELSE queue[n]]
  BY DEF Returned
<1>2. \A n \in Notes : queue[n] \in Nat /\ More(queue[n]) \in Nat /\ More(queue[n]) > 0
  BY MoreIsMore DEF KeptInv, BrokerTypeOK, Counts
<1>3. queue' \in Counts  BY <1>1, <1>2 DEF Counts
<1>4. \A n \in Notes : /\ queue[n] > 0 => queue'[n] > 0
                       /\ (\E i \in Slots : handler[i].live /\ handler[i].n = n) => queue'[n] > 0
  BY <1>1, <1>2
<1>5. BrokerTypeOK'  BY <1>3, FreeIsHeld DEF KeptInv, BrokerTypeOK
<1>6. \A i \in Slots : /\ handler'[i].live => handler'[i].pc # "free"
                       /\ handler'[i].pc = "stuck" => handler'[i].live
                       /\ handler'[i].pc = "folded" => handler'[i].n \in folded'
  BY FreeIsHeld DEF KeptInv
<1>7. ASSUME NEW n \in published
      PROVE  n \in folded' \/ RejectedForGood(n)' \/ CopyRemains(n)'
  <2>1. n \in Notes  BY DEF KeptInv, BrokerTypeOK
  <2>2. RejectedForGood(n) => RejectedForGood(n)'  BY DEF RejectedForGood
  <2>3. CopyRemains(n) => CopyRemains(n)'  BY <1>4, <2>1 DEF CopyRemains
  <2> QED  BY <2>2, <2>3 DEF KeptInv
<1> QED  BY <1>5, <1>6, <1>7 DEF KeptInv

LEMMA ChannelClosesKeeps ==
  ASSUME KeptInv, ChannelCloses
  PROVE  KeptInv'
<1>1. /\ queue' = Returned /\ UNCHANGED <<delayed, dead, acked, published, folded>>
      /\ handler' = [i \in Slots |-> IF handler[i].pc = "stuck" THEN Free
                                     ELSE [handler[i] EXCEPT !.live = FALSE]]
  BY DEF ChannelCloses
<1>2. ASSUME NEW i \in Slots, handler[i].pc # "stuck"
      PROVE  /\ [handler[i] EXCEPT !.live = FALSE] \in Held
             /\ [handler[i] EXCEPT !.live = FALSE].pc = handler[i].pc
             /\ [handler[i] EXCEPT !.live = FALSE].n = handler[i].n
             /\ ~[handler[i] EXCEPT !.live = FALSE].live
  BY HeldParts DEF Held
<1>3. handler' \in [Slots -> Held]  BY <1>1, <1>2, FreeIsHeld
<1>4. \A i \in Slots : \/ handler'[i] = Free
                       \/ /\ handler'[i].pc = handler[i].pc /\ handler'[i].n = handler[i].n
                          /\ ~handler'[i].live /\ handler[i].pc # "stuck"
  BY <1>1, <1>2
<1> QED  BY <1>1, <1>3, <1>4, ReturnKeeps

LEMMA CrashKeeps ==
  ASSUME KeptInv, Crash
  PROVE  KeptInv'
<1>1. /\ queue' = Returned /\ UNCHANGED <<delayed, dead, acked, published, folded>>
      /\ handler' = [i \in Slots |-> Free]
  BY DEF Crash
<1>2. handler' \in [Slots -> Held]  BY <1>1, FreeIsHeld
<1> QED  BY <1>1, <1>2, ReturnKeeps

LEMMA InitKept == Init => KeptInv
<1> SUFFICES ASSUME Init PROVE KeptInv  OBVIOUS
<1>1. handler \in [Slots -> Held] /\ \A i \in Slots : handler[i] = Free
  BY FreeIsHeld DEF Init
<1>2. queue \in Counts /\ delayed \in Counts  BY DEF Init, Counts
<1>3. BrokerTypeOK  BY <1>1, <1>2, FreeIsHeld DEF Init, BrokerTypeOK
<1> QED  BY <1>1, <1>3, FreeIsHeld DEF Init, KeptInv

LEMMA NextKept == TransportAssumption /\ KeptInv /\ [Next]_vars => KeptInv'
<1> SUFFICES ASSUME TransportAssumption, KeptInv, [Next]_vars PROVE KeptInv'  OBVIOUS
<1>1. folded \subseteq Notes /\ published \subseteq Notes  BY DEF KeptInv, BrokerTypeOK
<1>2. CASE UNCHANGED <<broker, handler>>  BY <1>1, <1>2, FoldsKeep DEF broker
<1>3. CASE PollerStep
  <2>1. Foldable \subseteq Notes  BY <1>1 DEF Foldable
  <2>2. FoldsSome \/ FoldsAll => folded \subseteq folded' /\ folded' \subseteq Notes
    BY <1>1, <2>1 DEF FoldsSome, FoldsAll
  <2>3. CASE BootPass \/ Poll
    <3>1. FoldsSome \/ FoldsAll  BY <2>3 DEF BootPass, Poll
    <3>2. UNCHANGED <<queue, delayed, dead, acked, published, handler>>
      BY <2>3 DEF BootPass, Poll
    <3> QED  BY <2>2, <3>1, <3>2, FoldsKeep
  <2>4. CASE BootResumes \/ TimerFires  BY <1>2, <2>4 DEF BootResumes, TimerFires
  <2> QED  BY <1>3, <2>3, <2>4 DEF PollerStep
<1>4. CASE StartStep \/ StopStep \/ Start \/ Stop \/ StartFails \/ ConsumerCancelled
  <2>1. UNCHANGED <<broker, handler>>
    BY <1>4 DEF StartStep, StopStep, Start, Stop, StartFails, ConsumerCancelled, SetupReturns,
       BootstrapReturns, PrefetchReturns, ConsumerRegistered, ConsumeReturns,
       StartCancelReturns, StartDrained, StartTailStopped, StopEnters, StopTailStopped,
       StopSeesStartOver, StopCancelReturns, StopDrained, StopReturns
  <2> QED  BY <1>2, <2>1
<1>5. ASSUME NEW i \in Slots,
             \/ HandlerStep(i) \/ CallThrows(i) \/ RetryUnconfirmed(i)
             \/ \E n \in Notes : Deliver(i, n)
      PROVE  KeptInv'
  BY <1>5, HandlersKeep, DeliverKeeps
<1>6. CASE \E n \in Notes : Publish(n) \/ DelayEnds(n)  BY <1>6, PublishKeeps, DelayEndsKeeps
<1>7. CASE ChannelCloses \/ Crash  BY <1>7, ChannelClosesKeeps, CrashKeeps
<1> QED  BY <1>2, <1>3, <1>4, <1>5, <1>6, <1>7 DEF Next, vars

(* A notification is acknowledged only once its commit is folded, and      *)
(* until then, or until it is rejected for good, a copy of it will be      *)
(* delivered again: whatever fails, for any number of notifications,       *)
(* slots and faults (rabbitWorker.ts:191-296).                             *)
THEOREM NotificationsAreKept == Spec => []NothingLost
<1>1. KeptInv => NothingLost
  <2> SUFFICES ASSUME KeptInv, NEW n \in published
               PROVE  \/ n \in folded \/ RejectedForGood(n)
                      \/ queue[n] > 0 \/ delayed[n] > 0
                      \/ \E i \in Slots : handler[i].n = n /\ handler[i].live
    BY DEF NothingLost, KeptInv, RejectedForGood
  <2> QED  BY DEF KeptInv, CopyRemains
<1> QED  BY <1>1, InitKept, NextKept, TransportAssumption, PTL DEF Spec
-----------------------------------------------------------------------------
(* The worker and its poller agree.                                        *)

LEMMA TailStoppedIs ==
  ASSUME NEW p \in Pollers, NEW q, q = TailStopped(p)
  PROVE  /\ q \in Pollers /\ ~q.running /\ ~q.timer /\ q.stopping
         /\ (q.active <=> p.active) /\ (q.boot = "none" <=> p.boot = "none")
<1>1. PICK b : b = IF p.boot = "pause" THEN "poll" ELSE p.boot  OBVIOUS
<1>2. b \in {"none", "poll", "pause", "ok", "failed"} /\ (b = "none" <=> p.boot = "none")
  BY <1>1 DEF Pollers
<1>3. q = [p EXCEPT !.stopping = TRUE, !.running = FALSE, !.timer = FALSE, !.boot = b]
  BY <1>1 DEF TailStopped
<1>4. q \in Pollers  BY <1>2, <1>3 DEF Pollers
<1>5. ~q.running /\ ~q.timer /\ q.stopping /\ q.active = p.active /\ q.boot = b
  BY <1>3 DEF Pollers
<1>6. q.active <=> p.active  BY <1>5
<1> QED  BY <1>2, <1>4, <1>5, <1>6

LEMMA UnhealthyIs ==
  ASSUME NEW p \in Pollers, NEW q, q = Unhealthy(p)
  PROVE  /\ q \in Pollers /\ ~q.healthy /\ (q.running <=> p.running) /\ (q.timer <=> p.timer)
         /\ (q.active <=> p.active) /\ q.boot = p.boot
<1>1. q = [p EXCEPT !.healthy = FALSE]  BY DEF Unhealthy
<1>2. q \in Pollers  BY <1>1 DEF Pollers
<1>3. /\ ~q.healthy /\ q.running = p.running /\ q.timer = p.timer /\ q.active = p.active
      /\ q.boot = p.boot
  BY <1>1 DEF Pollers
<1> QED  BY <1>2, <1>3

LEMMA StoppedIs ==
  ASSUME NEW w \in Workers, NEW v, v = Stopped(w), w.stop = "none"
  PROVE  /\ v \in Workers /\ v.stop = "entered" /\ ~v.current /\ ~v.accepting /\ ~v.channel
         /\ (v.cancels <=> w.channel) /\ v.start = w.start /\ v.startAwaits = w.startAwaits
<1>1. v = [w EXCEPT !.stop = "entered", !.current = FALSE, !.accepting = FALSE,
                    !.cancels = w.channel, !.channel = FALSE]
  BY DEF Stopped
<1>2. w.channel \in BOOLEAN  BY DEF Workers
<1>3. v \in Workers  BY <1>1, <1>2 DEF Workers, StopPCs
<1>4. /\ v.stop = "entered" /\ ~v.current /\ ~v.accepting /\ ~v.channel
      /\ v.cancels = w.channel /\ v.start = w.start /\ v.startAwaits = w.startAwaits
  BY <1>1 DEF Workers
<1> QED  BY <1>3, <1>4

\* What a step of start() leaves of the rest of the worker.
StartOnly(w, v) ==
  /\ v \in Workers /\ v.stop = w.stop /\ v.stopAwaits = w.stopAwaits
  /\ (v.channel <=> w.channel) /\ (v.cancels <=> w.cancels) /\ (v.current <=> w.current)

LEMMA SetStartIs ==
  ASSUME NEW w \in Workers, NEW pc \in StartPCs, NEW v, v = [w EXCEPT !.start = pc]
  PROVE  /\ StartOnly(w, v) /\ v.start = pc /\ (v.accepting <=> w.accepting)
<1>1. v \in Workers  BY DEF Workers
<1>2. /\ v.stop = w.stop /\ v.stopAwaits = w.stopAwaits /\ v.channel = w.channel
      /\ v.cancels = w.cancels /\ v.current = w.current /\ v.start = pc /\ v.accepting = w.accepting
  BY DEF Workers
<1> QED  BY <1>1, <1>2 DEF StartOnly

LEMMA DrainIs ==
  ASSUME NEW w \in Workers, NEW v, v = Drain(w)
  PROVE  StartOnly(w, v) /\ v.start = "drain" /\ ~v.accepting /\ v.startAwaits = InFlight
<1>1. v = [w EXCEPT !.start = "drain", !.accepting = FALSE, !.startAwaits = InFlight]
  BY DEF Drain
<1>2. InFlight \subseteq Slots  BY DEF InFlight
<1>3. v \in Workers  BY <1>1, <1>2 DEF Workers, StartPCs
<1>4. /\ v.stop = w.stop /\ v.stopAwaits = w.stopAwaits /\ v.channel = w.channel
      /\ v.cancels = w.cancels /\ v.current = w.current /\ v.start = "drain"
      /\ ~v.accepting /\ v.startAwaits = InFlight
  BY <1>1 DEF Workers
<1> QED  BY <1>3, <1>4 DEF StartOnly

\* What a step of stop() leaves of the rest of the worker.
StopOnly(w, v) ==
  /\ v \in Workers /\ v.start = w.start /\ v.startAwaits = w.startAwaits
  /\ (v.channel <=> w.channel) /\ (v.accepting <=> w.accepting) /\ (v.current <=> w.current)

LEMMA SetStopIs ==
  ASSUME NEW w \in Workers, NEW pc \in StopPCs, NEW v, v = [w EXCEPT !.stop = pc]
  PROVE  StopOnly(w, v) /\ v.stop = pc /\ (v.cancels <=> w.cancels) /\ v.stopAwaits = w.stopAwaits
<1>1. v \in Workers  BY DEF Workers
<1>2. /\ v.start = w.start /\ v.startAwaits = w.startAwaits /\ v.channel = w.channel
      /\ v.accepting = w.accepting /\ v.current = w.current /\ v.stop = pc
      /\ v.cancels = w.cancels /\ v.stopAwaits = w.stopAwaits
  BY DEF Workers
<1> QED  BY <1>1, <1>2 DEF StopOnly

LEMMA DrainOfStopIs ==
  ASSUME NEW w \in Workers, NEW v, v = [w EXCEPT !.stop = "drain", !.stopAwaits = InFlight]
  PROVE  StopOnly(w, v) /\ v.stop = "drain" /\ (v.cancels <=> w.cancels) /\ v.stopAwaits = InFlight
<1>1. InFlight \subseteq Slots  BY DEF InFlight
<1>2. v \in Workers  BY <1>1 DEF Workers, StopPCs
<1>3. /\ v.start = w.start /\ v.startAwaits = w.startAwaits /\ v.channel = w.channel
      /\ v.accepting = w.accepting /\ v.current = w.current /\ v.stop = "drain"
      /\ v.cancels = w.cancels /\ v.stopAwaits = InFlight
  BY DEF Workers
<1> QED  BY <1>2, <1>3 DEF StopOnly

(* The steps of start() up to its consumer, and after its last one: nothing *)
(* is in flight, and every phase finds the poller as it expects it.        *)
LEMMA QuietSteps ==
  ASSUME AgreeInv, NEW v, NEW q, v = worker', q = poller', StartOnly(worker, v), q \in Pollers,
         consumers' = consumers, InFlight' = InFlight,
         worker.start \notin {"none", "consumed", "cancel", "drain"},
         v.accepting => worker.current /\ v.start \in {"consume", "consumed"},
         worker.stop \in {"drain", "tail2"} => v.start \in {"none", "tail"},
         v.start = "none" => worker.start = "tail" /\ ~q.active /\ ~q.healthy,
         v.start = "drain" => InFlight \subseteq v.startAwaits,
         q.timer => q.running, q.running => q.timer \/ q.active, q.active => ~q.timer,
         q.boot # "none" <=> v.start = "bootstrap",
         v.start \in {"setup", "bootstrap", "prefetch"} => ~q.running /\ ~q.active,
         v.start \in {"none", "drainTail", "tail"} => ~q.running,
         v.start \in {"consume", "consumed"} /\ worker.current => q.running,
         worker.stop \in {"tail1", "starting", "tail2"} => ~q.running
  PROVE  AgreeInv'
<1>1. PhaseTypeOK'  BY DEF AgreeInv, PhaseTypeOK, StartOnly
<1>2. WorkerPhases'  BY DEF AgreeInv, WorkerPhases, StartOnly
<1>3. FlightPhases'  BY DEF AgreeInv, WorkerPhases, FlightPhases, StartOnly
<1>4. PollerPhases'  BY DEF AgreeInv, WorkerPhases, PollerPhases, StartOnly, IsHealthy
<1> QED  BY <1>1, <1>2, <1>3, <1>4 DEF AgreeInv

LEMMA ToTailAgrees ==
  ASSUME AgreeInv, worker.start \in {"setup", "bootstrap", "prefetch", "drainTail"},
         SetStart("tail"), NEW p \in Pollers, poller' = TailStopped(p), p.boot = "none",
         UNCHANGED <<consumers, handler>>
  PROVE  AgreeInv'
<1>1. PICK v, q : v = worker' /\ q = poller'  OBVIOUS
<1>2. worker \in Workers  BY DEF AgreeInv, PhaseTypeOK
<1>3. StartOnly(worker, v) /\ v.start = "tail" /\ (v.accepting <=> worker.accepting)
  BY <1>1, <1>2, SetStartIs DEF SetStart, StartPCs
<1>4. q \in Pollers /\ ~q.running /\ ~q.timer /\ q.boot = "none"
  BY <1>1, TailStoppedIs
<1>5. consumers' = consumers /\ InFlight' = InFlight  BY DEF InFlight
<1>6. ~worker.accepting  BY DEF AgreeInv, WorkerPhases
<1> QED  BY <1>1, <1>3, <1>4, <1>5, <1>6, QuietSteps

LEMMA SetupReturnsAgrees == ASSUME AgreeInv, SetupReturns PROVE AgreeInv'
<1>1. worker \in Workers /\ poller \in Pollers  BY DEF AgreeInv, PhaseTypeOK
<1>2. PICK v, q : v = worker' /\ q = poller'  OBVIOUS
<1>3. worker.start = "setup" /\ UNCHANGED <<consumers, handler>>  BY DEF SetupReturns, broker
<1>4. /\ ~worker.accepting /\ ~poller.running /\ ~poller.timer /\ ~poller.active
      /\ poller.boot = "none" /\ worker.stop \notin {"drain", "tail2"}
  BY <1>3 DEF AgreeInv, WorkerPhases, PollerPhases
<1>5. CASE SetStart("bootstrap")
           /\ q = [poller EXCEPT !.stopping = FALSE, !.boot = "poll", !.passes = 0]
  <2>1. StartOnly(worker, v) /\ v.start = "bootstrap" /\ (v.accepting <=> worker.accepting)
    BY <1>1, <1>2, <1>5, SetStartIs DEF SetStart, StartPCs
  <2>2. q \in Pollers  BY <1>1, <1>5 DEF Pollers
  <2>3. /\ q.running = poller.running /\ q.timer = poller.timer /\ q.active = poller.active
        /\ q.boot = "poll"
    BY <1>1, <1>5 DEF Pollers
  <2>4. ~q.running /\ ~q.timer /\ ~q.active  BY <1>4, <2>3
  <2>5. consumers' = consumers /\ InFlight' = InFlight  BY <1>3 DEF InFlight
  <2> QED  BY <1>2, <1>3, <1>4, <2>1, <2>2, <2>3, <2>4, <2>5, QuietSteps
<1>6. CASE BeginThrows  BY <1>1, <1>3, <1>4, <1>6, ToTailAgrees DEF BeginThrows
<1> QED  BY <1>2, <1>5, <1>6 DEF SetupReturns

LEMMA BootstrapReturnsAgrees == ASSUME AgreeInv, BootstrapReturns PROVE AgreeInv'
<1>1. worker \in Workers /\ poller \in Pollers  BY DEF AgreeInv, PhaseTypeOK
<1>2. PICK v, q : v = worker' /\ q = poller'  OBVIOUS
<1>3. worker.start = "bootstrap" /\ UNCHANGED <<consumers, handler>>
  BY DEF BootstrapReturns, broker
<1>4. /\ ~worker.accepting /\ ~poller.running /\ ~poller.timer /\ ~poller.active
      /\ worker.stop \notin {"drain", "tail2"}
  BY <1>3 DEF AgreeInv, WorkerPhases, PollerPhases
<1>5. PICK r : r = [poller EXCEPT !.boot = "none"]  OBVIOUS
<1>6. /\ r \in Pollers /\ r.boot = "none" /\ r.running = poller.running /\ r.timer = poller.timer
      /\ r.active = poller.active
  BY <1>1, <1>5 DEF Pollers
<1>7. ~r.running /\ ~r.timer /\ ~r.active  BY <1>4, <1>6
<1>8. CASE SetStart("prefetch") /\ poller' = r
  <2>1. StartOnly(worker, v) /\ v.start = "prefetch" /\ (v.accepting <=> worker.accepting)
    BY <1>1, <1>2, <1>8, SetStartIs DEF SetStart, StartPCs
  <2>2. consumers' = consumers /\ InFlight' = InFlight  BY <1>3 DEF InFlight
  <2>3. worker.start \notin {"none", "consumed", "cancel", "drain"}  BY <1>3
  <2>4. r = q  BY <1>2, <1>8
  <2> QED  BY <1>2, <1>4, <1>6, <1>7, <2>1, <2>2, <2>3, <2>4, QuietSteps
<1>9. CASE SetStart("tail") /\ poller' = TailStopped(r)
  BY <1>3, <1>6, <1>9, ToTailAgrees
<1> QED  BY <1>5, <1>8, <1>9 DEF BootstrapReturns

LEMMA PrefetchReturnsAgrees == ASSUME AgreeInv, PrefetchReturns PROVE AgreeInv'
<1>1. worker \in Workers /\ poller \in Pollers  BY DEF AgreeInv, PhaseTypeOK
<1>2. PICK v, q : v = worker' /\ q = poller'  OBVIOUS
<1>3. worker.start = "prefetch" /\ UNCHANGED <<consumers, handler>>
  BY DEF PrefetchReturns, broker
<1>4. ~poller.active /\ poller.boot = "none" /\ worker.stop \notin {"drain", "tail2"}
  BY <1>3 DEF AgreeInv, WorkerPhases, PollerPhases
<1>5. CASE /\ worker.current
           /\ v = [worker EXCEPT !.start = "consume", !.accepting = TRUE]
           /\ q = [poller EXCEPT !.running = TRUE, !.timer = TRUE]
  <2>1. v \in Workers  BY <1>1, <1>5 DEF Workers, StartPCs
  <2>2. /\ v.stop = worker.stop /\ v.stopAwaits = worker.stopAwaits /\ v.channel = worker.channel
        /\ v.cancels = worker.cancels /\ v.current = worker.current /\ v.start = "consume"
    BY <1>1, <1>5 DEF Workers
  <2>3. StartOnly(worker, v)  BY <2>1, <2>2 DEF StartOnly
  <2>4. q \in Pollers  BY <1>1, <1>5 DEF Pollers
  <2>5. q.running /\ q.timer /\ q.active = poller.active /\ q.boot = poller.boot
    BY <1>1, <1>5 DEF Pollers
  <2>6. ~q.active /\ q.boot = "none"  BY <1>4, <2>5
  <2>7. consumers' = consumers /\ InFlight' = InFlight  BY <1>3 DEF InFlight
  <2>8. worker.stop = "none"  BY <1>5 DEF AgreeInv, WorkerPhases
  <2>9. worker.start \notin {"none", "consumed", "cancel", "drain"}  BY <1>3
  <2> QED  BY <1>2, <1>5, <2>2, <2>3, <2>4, <2>5, <2>6, <2>7, <2>8, <2>9, QuietSteps
<1>6. CASE BeginThrows  BY <1>1, <1>3, <1>4, <1>6, ToTailAgrees DEF BeginThrows
<1> QED  BY <1>2, <1>5, <1>6 DEF PrefetchReturns

(* The consumer that is asked for does not come, or loses its channel.     *)
LEMMA DrainAgrees ==
  ASSUME AgreeInv, worker.start = "consume", worker' = Drain(worker), consumers' \in {0, consumers},
         UNCHANGED poller, InFlight' = InFlight
  PROVE  AgreeInv'
<1>1. worker \in Workers /\ poller \in Pollers  BY DEF AgreeInv, PhaseTypeOK
<1>2. PICK v, q : v = worker' /\ q = poller'  OBVIOUS
<1>3. StartOnly(worker, v) /\ v.start = "drain" /\ ~v.accepting /\ v.startAwaits = InFlight
  BY <1>1, <1>2, DrainIs
<1>4. consumers = 0 /\ consumers' = consumers
  BY DEF AgreeInv, PhaseTypeOK, WorkerPhases, FlightPhases
<1>5. /\ q.timer => q.running
      /\ q.running => q.timer \/ q.active
      /\ q.active => ~q.timer
      /\ q.boot = "none"
      /\ worker.stop \in {"tail1", "starting", "tail2"} => ~q.running
      /\ worker.stop \notin {"drain", "tail2"}
  BY <1>2 DEF AgreeInv, WorkerPhases, PollerPhases
<1> QED  BY <1>1, <1>2, <1>3, <1>4, <1>5, QuietSteps

LEMMA StartFailsAgrees == ASSUME AgreeInv, StartFails PROVE AgreeInv'
<1>1. UNCHANGED <<consumers, handler>> /\ InFlight' = InFlight
  BY DEF StartFails, InFlight
<1>2. CASE worker.start \in {"setup", "prefetch"} /\ BeginThrows
  <2>1. poller \in Pollers /\ poller.boot = "none"
    BY <1>2 DEF AgreeInv, PhaseTypeOK, PollerPhases
  <2> QED  BY <1>1, <1>2, <2>1, ToTailAgrees DEF BeginThrows
<1>3. CASE worker.start = "consume" /\ worker' = Drain(worker) /\ UNCHANGED poller
  BY <1>1, <1>3, DrainAgrees
<1> QED  BY <1>2, <1>3 DEF StartFails
(* The other steps of start().                                             *)
LEMMA StartAgrees == ASSUME AgreeInv, Start PROVE AgreeInv'
<1>1. worker \in Workers  BY DEF AgreeInv, PhaseTypeOK
<1>2. PICK v : v = worker'  OBVIOUS
<1>3. /\ ~worker.channel /\ worker.start = "none" /\ worker.stop = "none"
      /\ v = [worker EXCEPT !.start = "setup", !.current = TRUE]
      /\ UNCHANGED <<consumers, handler, poller>>
  BY <1>2 DEF Start
<1>4. v \in Workers  BY <1>1, <1>3 DEF Workers, StartPCs
<1>5. /\ v.stop = "none" /\ v.channel = worker.channel /\ v.accepting = worker.accepting
      /\ v.cancels = worker.cancels /\ v.start = "setup" /\ v.current
  BY <1>1, <1>3 DEF Workers
<1>6. ~v.channel /\ ~v.accepting /\ ~v.cancels
  BY <1>3, <1>5 DEF AgreeInv, WorkerPhases
<1>7. InFlight' = InFlight  BY <1>3 DEF InFlight
<1>8. consumers = 0 /\ InFlight = {}
  BY <1>3 DEF AgreeInv, PhaseTypeOK, WorkerPhases, FlightPhases
<1>9. PhaseTypeOK'  BY <1>2, <1>3, <1>4 DEF AgreeInv, PhaseTypeOK
<1>10. WorkerPhases'  BY <1>2, <1>5, <1>6 DEF WorkerPhases
<1>11. FlightPhases'  BY <1>3, <1>7, <1>8 DEF FlightPhases
<1>12. PollerPhases'  BY <1>2, <1>3, <1>5, <1>6 DEF AgreeInv, PollerPhases
<1> QED  BY <1>9, <1>10, <1>11, <1>12 DEF AgreeInv

LEMMA ConsumerRegisteredAgrees == ASSUME AgreeInv, ConsumerRegistered PROVE AgreeInv'
<1>1. worker \in Workers  BY DEF AgreeInv, PhaseTypeOK
<1>2. PICK v : v = worker'  OBVIOUS
<1>3. /\ worker.start = "consume" /\ consumers' = 1 /\ UNCHANGED <<handler, poller>>
      /\ v = [worker EXCEPT !.start = "consumed"]
  BY <1>2 DEF ConsumerRegistered, SetStart
<1>4. StartOnly(worker, v) /\ v.start = "consumed" /\ (v.accepting <=> worker.accepting)
  BY <1>1, <1>3, SetStartIs DEF StartPCs
<1>5. InFlight' = InFlight  BY <1>3 DEF InFlight
<1>6. PhaseTypeOK'  BY <1>2, <1>3, <1>4 DEF AgreeInv, PhaseTypeOK, StartOnly
<1>7. WorkerPhases'  BY <1>2, <1>3, <1>4 DEF AgreeInv, WorkerPhases, StartOnly
<1>8. FlightPhases'  BY <1>2, <1>4 DEF FlightPhases
<1>9. PollerPhases'  BY <1>2, <1>3, <1>4 DEF AgreeInv, PollerPhases, StartOnly
<1> QED  BY <1>6, <1>7, <1>8, <1>9 DEF AgreeInv

LEMMA ConsumeReturnsAgrees == ASSUME AgreeInv, ConsumeReturns PROVE AgreeInv'
<1>1. worker \in Workers  BY DEF AgreeInv, PhaseTypeOK
<1>2. PICK v : v = worker'  OBVIOUS
<1>3. worker.start = "consumed" /\ UNCHANGED <<consumers, handler, poller>>
  BY DEF ConsumeReturns
<1>4. InFlight' = InFlight  BY <1>3 DEF InFlight
<1>5. CASE worker.current
  <2>1. v = [worker EXCEPT !.start = "none", !.channel = TRUE]
    BY <1>2, <1>5 DEF ConsumeReturns
  <2>2. v \in Workers  BY <1>1, <2>1 DEF Workers, StartPCs
  <2>3. /\ v.stop = worker.stop /\ v.stopAwaits = worker.stopAwaits /\ v.channel
        /\ v.cancels = worker.cancels /\ v.current = worker.current /\ v.start = "none"
    BY <1>1, <2>1 DEF Workers
  <2>4. worker.stop = "none" /\ ~v.cancels  BY <1>5, <2>3 DEF AgreeInv, WorkerPhases
  <2>5. PhaseTypeOK'  BY <1>2, <1>3, <2>2 DEF AgreeInv, PhaseTypeOK
  <2>6. WorkerPhases'  BY <1>2, <1>5, <2>3, <2>4 DEF WorkerPhases
  <2>7. FlightPhases'  BY <1>2, <2>3 DEF FlightPhases
  <2>8. PollerPhases'  BY <1>2, <1>3, <1>5, <2>3, <2>4 DEF AgreeInv, PollerPhases
  <2> QED  BY <2>5, <2>6, <2>7, <2>8 DEF AgreeInv
<1>6. CASE ~worker.current
  <2>1. v = [worker EXCEPT !.start = "cancel"]  BY <1>2, <1>6 DEF ConsumeReturns
  <2>2. StartOnly(worker, v) /\ v.start = "cancel" /\ (v.accepting <=> worker.accepting)
    BY <1>1, <2>1, SetStartIs DEF StartPCs
  <2>3. ~v.accepting
    BY <1>3, <1>6, <2>2 DEF AgreeInv, WorkerPhases
  <2>4. PhaseTypeOK'  BY <1>2, <1>3, <2>2 DEF AgreeInv, PhaseTypeOK, StartOnly
  <2>5. WorkerPhases'  BY <1>2, <1>3, <2>2, <2>3 DEF AgreeInv, WorkerPhases, StartOnly
  <2>6. FlightPhases'  BY <1>2, <2>2 DEF FlightPhases
  <2>7. PollerPhases'  BY <1>2, <1>3, <2>2 DEF AgreeInv, PollerPhases, StartOnly
  <2> QED  BY <2>4, <2>5, <2>6, <2>7 DEF AgreeInv
<1> QED  BY <1>5, <1>6
LEMMA StartCancelReturnsAgrees == ASSUME AgreeInv, StartCancelReturns PROVE AgreeInv'
<1>1. worker \in Workers  BY DEF AgreeInv, PhaseTypeOK
<1>2. PICK v : v = worker'  OBVIOUS
<1>3. /\ worker.start = "cancel" /\ consumers' = 0 /\ v = Drain(worker)
      /\ UNCHANGED <<handler, poller>>
  BY <1>2 DEF StartCancelReturns
<1>4. StartOnly(worker, v) /\ v.start = "drain" /\ ~v.accepting /\ v.startAwaits = InFlight
  BY <1>1, <1>3, DrainIs
<1>5. InFlight' = InFlight  BY <1>3 DEF InFlight
<1>6. PhaseTypeOK'  BY <1>2, <1>3, <1>4 DEF AgreeInv, PhaseTypeOK, StartOnly
<1>7. WorkerPhases'  BY <1>2, <1>3, <1>4 DEF AgreeInv, WorkerPhases, StartOnly
<1>8. FlightPhases'  BY <1>2, <1>3, <1>4, <1>5 DEF FlightPhases
<1>9. PollerPhases'  BY <1>2, <1>3, <1>4 DEF AgreeInv, PollerPhases, StartOnly
<1> QED  BY <1>6, <1>7, <1>8, <1>9 DEF AgreeInv

LEMMA StartDrainedAgrees == ASSUME AgreeInv, StartDrained PROVE AgreeInv'
<1>1. worker \in Workers /\ poller \in Pollers  BY DEF AgreeInv, PhaseTypeOK
<1>2. PICK v, q : v = worker' /\ q = poller'  OBVIOUS
<1>3. /\ worker.start = "drain" /\ worker.startAwaits = {} /\ UNCHANGED <<consumers, handler>>
      /\ v = [worker EXCEPT !.start = "drainTail"] /\ q = TailStopped(poller)
  BY <1>2 DEF StartDrained, SetStart
<1>4. StartOnly(worker, v) /\ v.start = "drainTail" /\ (v.accepting <=> worker.accepting)
  BY <1>1, <1>3, SetStartIs DEF StartPCs
<1>5. q \in Pollers /\ ~q.running /\ ~q.timer /\ (q.boot = "none" <=> poller.boot = "none")
  BY <1>1, <1>3, TailStoppedIs
<1>6. InFlight' = InFlight  BY <1>3 DEF InFlight
<1>7. consumers = 0 /\ InFlight = {}
  BY <1>3 DEF AgreeInv, PhaseTypeOK, WorkerPhases, FlightPhases
<1>8. PhaseTypeOK'  BY <1>2, <1>3, <1>4, <1>5 DEF AgreeInv, PhaseTypeOK, StartOnly
<1>9. WorkerPhases'  BY <1>2, <1>3, <1>4 DEF AgreeInv, WorkerPhases, StartOnly
<1>10. FlightPhases'  BY <1>3, <1>6, <1>7 DEF FlightPhases
<1>11. PollerPhases'  BY <1>2, <1>3, <1>4, <1>5 DEF AgreeInv, PollerPhases, WorkerPhases, StartOnly
<1> QED  BY <1>8, <1>9, <1>10, <1>11 DEF AgreeInv

LEMMA StartTailStoppedAgrees == ASSUME AgreeInv, StartTailStopped PROVE AgreeInv'
<1>1. worker \in Workers /\ poller \in Pollers  BY DEF AgreeInv, PhaseTypeOK
<1>2. PICK v, q : v = worker' /\ q = poller'  OBVIOUS
<1>3. /\ worker.start \in {"drainTail", "tail"} /\ TailSettled /\ UNCHANGED <<consumers, handler>>
  BY DEF StartTailStopped, broker
<1>4. PICK r : r = Unhealthy(poller)  OBVIOUS
<1>5. /\ r \in Pollers /\ ~r.healthy /\ (r.running <=> poller.running)
      /\ (r.timer <=> poller.timer) /\ (r.active <=> poller.active) /\ r.boot = poller.boot
  BY <1>1, <1>4, UnhealthyIs
<1>6. poller.boot = "none" /\ ~poller.running /\ ~poller.timer /\ ~poller.active /\ ~worker.accepting
  BY <1>3 DEF AgreeInv, WorkerPhases, PollerPhases, TailSettled
<1>7. CASE worker.start = "drainTail"
  <2>1. SetStart("tail") /\ poller' = TailStopped(r)
    BY <1>4, <1>7 DEF StartTailStopped
  <2> QED  BY <1>3, <1>5, <1>6, <1>7, <2>1, ToTailAgrees
<1>8. CASE worker.start = "tail"
  <2>1. v = [worker EXCEPT !.start = "none"] /\ q = r
    BY <1>2, <1>4, <1>8 DEF StartTailStopped, SetStart
  <2>2. StartOnly(worker, v) /\ v.start = "none" /\ (v.accepting <=> worker.accepting)
    BY <1>1, <2>1, SetStartIs DEF StartPCs
  <2>3. consumers' = consumers /\ InFlight' = InFlight  BY <1>3 DEF InFlight
  <2> QED  BY <1>2, <1>5, <1>6, <1>8, <2>1, <2>2, <2>3, QuietSteps
<1> QED  BY <1>3, <1>7, <1>8

(* The steps of stop().                                                    *)
LEMMA StopAgrees ==
  ASSUME AgreeInv, worker.stop = "none", NEW w \in Workers,
         w.start = worker.start, w.startAwaits = worker.startAwaits, w.stop = "none",
         w.channel => worker.channel, worker.channel /\ ~w.channel => consumers' = 0,
         worker' = Stopped(w), UNCHANGED poller, InFlight' = InFlight, consumers' \in {0, consumers}
  PROVE  AgreeInv'
<1>1. PICK v : v = worker'  OBVIOUS
<1>2. /\ v \in Workers /\ v.stop = "entered" /\ ~v.current /\ ~v.accepting /\ ~v.channel
      /\ (v.cancels <=> w.channel) /\ v.start = worker.start
      /\ v.startAwaits = worker.startAwaits
  BY <1>1, StoppedIs
<1>3. PhaseTypeOK'  BY <1>1, <1>2 DEF AgreeInv, PhaseTypeOK
<1>4. WorkerPhases'  BY <1>1, <1>2 DEF AgreeInv, WorkerPhases
<1>5. worker.channel => worker.start = "none"  BY DEF AgreeInv, WorkerPhases
<1>6. consumers' > 0 => consumers > 0  OBVIOUS
<1>7. FlightPhases'
  BY <1>1, <1>2, <1>5, <1>6 DEF AgreeInv, WorkerPhases, FlightPhases
<1>8. PollerPhases'  BY <1>1, <1>2 DEF AgreeInv, PollerPhases
<1> QED  BY <1>3, <1>4, <1>7, <1>8 DEF AgreeInv

LEMMA ConsumerCancelledAgrees == ASSUME AgreeInv, ConsumerCancelled PROVE AgreeInv'
<1>1. worker \in Workers  BY DEF AgreeInv, PhaseTypeOK
<1>2. PICK w : w = [worker EXCEPT !.channel = FALSE, !.accepting = FALSE]  OBVIOUS
<1>3. w \in Workers  BY <1>1, <1>2 DEF Workers
<1>4. /\ w.stop = worker.stop /\ w.start = worker.start /\ w.cancels = worker.cancels
      /\ w.current = worker.current /\ ~w.channel /\ ~w.accepting
      /\ w.startAwaits = worker.startAwaits /\ w.stopAwaits = worker.stopAwaits
  BY <1>1, <1>2 DEF Workers
<1>5. worker' = Stopped(w) /\ consumers' = 0 /\ UNCHANGED <<handler, poller>>
  BY <1>2 DEF ConsumerCancelled
<1>6. InFlight' = InFlight  BY <1>5 DEF InFlight
<1>7. CASE worker.stop = "none"  BY <1>3, <1>4, <1>5, <1>6, <1>7, StopAgrees
<1>8. CASE worker.stop # "none"
  <2>1. worker' = w  BY <1>4, <1>5, <1>8 DEF Stopped
  <2>2. ~worker.channel /\ ~worker.accepting  BY <1>8 DEF AgreeInv, WorkerPhases
  <2>3. (w.cancels <=> worker.cancels) /\ (w.current <=> worker.current)  BY <1>4
  <2>4. PhaseTypeOK'  BY <1>3, <1>5, <2>1 DEF AgreeInv, PhaseTypeOK
  <2>5. WorkerPhases'  BY <1>4, <1>8, <2>1, <2>2, <2>3 DEF AgreeInv, WorkerPhases
  <2>6. FlightPhases'  BY <1>4, <1>5, <1>6, <2>1, <2>2 DEF AgreeInv, FlightPhases
  <2>7. PollerPhases'  BY <1>4, <1>5, <1>8, <2>1, <2>2, <2>3 DEF AgreeInv, PollerPhases
  <2> QED  BY <2>4, <2>5, <2>6, <2>7 DEF AgreeInv
<1> QED  BY <1>7, <1>8

\* A step that takes stop() from one phase to the next.
LEMMA StopMoves ==
  ASSUME AgreeInv, NEW v, NEW q, v = worker', q = poller', StopOnly(worker, v), q \in Pollers,
         consumers' \in {0, consumers}, InFlight' = InFlight, worker.stop # "none",
         v.cancels => worker.cancels /\ v.stop \in {"entered", "cancel", "drain", "tail2"},
         v.stop = "cancel" => v.cancels,
         worker.cancels /\ v.stop # "cancel" => consumers' = 0,
         v.stop \in {"drain", "tail2"} => worker.start \in {"none", "tail"},
         v.stop \in {"tail1", "entered"} => worker.stop = "entered" /\ worker.start # "none",
         v.stop = "starting" => worker.stop = "tail1",
         v.stop = "drain" => InFlight \subseteq v.stopAwaits,
         v.stop \in {"none", "tail2"} => InFlight = {},
         q.timer => q.running, q.running => q.timer \/ q.active, q.active => ~q.timer,
         q.boot # "none" <=> worker.start = "bootstrap",
         q.active => poller.active, q.running => poller.running,
         v.stop \in {"none", "tail1", "starting", "tail2"} => ~q.running,
         v.stop = "none" => ~q.active /\ ~q.healthy
  PROVE  AgreeInv'
<1>1. PhaseTypeOK'  BY DEF AgreeInv, PhaseTypeOK, StopOnly
<1>2. WorkerPhases'  BY DEF AgreeInv, WorkerPhases, StopOnly
<1>3. consumers' > 0 => consumers > 0 /\ consumers' = consumers  OBVIOUS
<1>4. v.stop \in StopPCs  BY DEF StopOnly, Workers
<1>5. FlightPhases'
  <2>1. consumers' > 0 => \/ worker'.channel \/ worker'.start \in {"consumed", "cancel"}
                          \/ worker'.cancels /\ worker'.stop \in {"entered", "cancel"}
    BY <1>3 DEF AgreeInv, WorkerPhases, FlightPhases, StopOnly
  <2>2. InFlight # {} =>
          \/ worker.start \in {"consumed", "cancel"}
          \/ worker.start = "drain" /\ InFlight \subseteq worker.startAwaits
          \/ v.stop = "cancel"
          \/ v.stop = "drain" /\ InFlight \subseteq v.stopAwaits
    BY <1>4 DEF AgreeInv, WorkerPhases, FlightPhases, StopPCs
  <2> QED  BY <2>1, <2>2 DEF FlightPhases, StopOnly
<1>6. PollerPhases'  BY DEF AgreeInv, WorkerPhases, PollerPhases, StopOnly, IsHealthy
<1> QED  BY <1>1, <1>2, <1>5, <1>6 DEF AgreeInv
\* What the phases say of a stop() under way.
LEMMA StopFacts ==
  ASSUME AgreeInv, worker.stop # "none"
  PROVE  /\ worker \in Workers /\ poller \in Pollers
         /\ poller.timer => poller.running
         /\ poller.running => poller.timer \/ poller.active
         /\ poller.active => ~poller.timer
         /\ poller.boot # "none" <=> worker.start = "bootstrap"
         /\ worker.stop \in {"tail1", "starting", "tail2"} => ~poller.running
         /\ consumers > 0 /\ worker.start \notin {"consumed", "cancel"} => worker.cancels
         /\ worker.cancels => worker.start = "none" /\ worker.stop \in {"entered", "cancel", "drain", "tail2"}
         /\ worker.stop = "cancel" => worker.cancels
         /\ worker.stop \in {"drain", "tail2"} =>
              /\ worker.start \in {"none", "tail"} /\ consumers = 0
              /\ InFlight # {} => worker.stop = "drain" /\ InFlight \subseteq worker.stopAwaits
         /\ worker.stop = "starting" /\ worker.start \in {"none", "tail"} => InFlight = {}
BY DEF AgreeInv, PhaseTypeOK, WorkerPhases, FlightPhases, PollerPhases

\* stop() asks for the consumer's cancellation, or goes on to the deliveries.
LEMMA StopCancelsAgrees ==
  ASSUME AgreeInv, worker' = StopCancels(worker), UNCHANGED <<consumers, handler, poller>>,
         worker.stop \in {"entered", "starting"}, worker.start \in {"none", "tail"}
  PROVE  AgreeInv'
<1>1. PICK v, q : v = worker' /\ q = poller'  OBVIOUS
<1>2. InFlight' = InFlight /\ consumers' = consumers  BY DEF InFlight
<1>3. consumers \in {0, 1}  BY DEF AgreeInv, PhaseTypeOK
<1>4. CASE worker.cancels
  <2>1. v = [worker EXCEPT !.stop = "cancel"]  BY <1>1, <1>4 DEF StopCancels
  <2>2. StopOnly(worker, v) /\ v.stop = "cancel" /\ (v.cancels <=> worker.cancels)
    BY <2>1, SetStopIs, StopFacts DEF StopPCs
  <2> QED  BY <1>1, <1>2, <1>4, <2>2, StopFacts, StopMoves
<1>5. CASE ~worker.cancels
  <2>1. v = [worker EXCEPT !.stop = "drain", !.stopAwaits = InFlight]
    BY <1>1, <1>5 DEF StopCancels
  <2>2. StopOnly(worker, v) /\ v.stop = "drain" /\ (v.cancels <=> worker.cancels)
        /\ v.stopAwaits = InFlight
    BY <2>1, DrainOfStopIs, StopFacts
  <2> QED  BY <1>1, <1>2, <1>5, <2>2, StopFacts, StopMoves
<1> QED  BY <1>4, <1>5

LEMMA StopEntersAgrees == ASSUME AgreeInv, StopEnters PROVE AgreeInv'
<1>1. PICK v, q : v = worker' /\ q = poller'  OBVIOUS
<1>2. worker.stop = "entered" /\ UNCHANGED <<consumers, handler>>  BY DEF StopEnters
<1>3. InFlight' = InFlight /\ consumers' = consumers  BY <1>2 DEF InFlight
<1>4. CASE worker.start # "none"
  <2>1. v = [worker EXCEPT !.stop = "tail1"] /\ q = TailStopped(poller)
    BY <1>1, <1>4 DEF StopEnters
  <2>2. StopOnly(worker, v) /\ v.stop = "tail1" /\ (v.cancels <=> worker.cancels)
    BY <1>2, <2>1, SetStopIs, StopFacts DEF StopPCs
  <2>3. /\ q \in Pollers /\ ~q.running /\ ~q.timer /\ (q.active <=> poller.active)
        /\ (q.boot = "none" <=> poller.boot = "none")
    BY <1>2, <2>1, TailStoppedIs, StopFacts
  <2>4. ~worker.cancels  BY <1>2, <1>4, StopFacts
  <2> QED  BY <1>1, <1>2, <1>3, <1>4, <2>2, <2>3, <2>4, StopFacts, StopMoves
<1>5. CASE worker.start = "none"
  BY <1>2, <1>5, StopCancelsAgrees DEF StopEnters
<1> QED  BY <1>4, <1>5

LEMMA StopTailStoppedAgrees == ASSUME AgreeInv, StopTailStopped PROVE AgreeInv'
<1>1. PICK v, q : v = worker' /\ q = poller'  OBVIOUS
<1>2. /\ worker.stop = "tail1" /\ UNCHANGED <<consumers, handler>>
      /\ v = [worker EXCEPT !.stop = "starting"] /\ q = Unhealthy(poller)
  BY <1>1 DEF StopTailStopped
<1>3. InFlight' = InFlight /\ consumers' = consumers  BY <1>2 DEF InFlight
<1>4. StopOnly(worker, v) /\ v.stop = "starting" /\ (v.cancels <=> worker.cancels)
  BY <1>2, SetStopIs, StopFacts DEF StopPCs
<1>5. /\ q \in Pollers /\ (q.running <=> poller.running) /\ (q.timer <=> poller.timer)
      /\ (q.active <=> poller.active) /\ q.boot = poller.boot
  BY <1>2, UnhealthyIs, StopFacts
<1>6. ~worker.cancels  BY <1>2, StopFacts
<1> QED  BY <1>1, <1>2, <1>3, <1>4, <1>5, <1>6, StopFacts, StopMoves

LEMMA StopCancelReturnsAgrees == ASSUME AgreeInv, StopCancelReturns PROVE AgreeInv'
<1>1. PICK v, q : v = worker' /\ q = poller'  OBVIOUS
<1>2. /\ worker.stop = "cancel" /\ UNCHANGED <<handler, poller>> /\ consumers' = 0
      /\ v = [worker EXCEPT !.stop = "drain", !.stopAwaits = InFlight]
  BY <1>1 DEF StopCancelReturns
<1>3. InFlight' = InFlight  BY <1>2 DEF InFlight
<1>4. /\ StopOnly(worker, v) /\ v.stop = "drain" /\ (v.cancels <=> worker.cancels)
      /\ v.stopAwaits = InFlight
  BY <1>2, DrainOfStopIs, StopFacts
<1> QED  BY <1>1, <1>2, <1>3, <1>4, StopFacts, StopMoves

LEMMA StopDrainedAgrees == ASSUME AgreeInv, StopDrained PROVE AgreeInv'
<1>1. PICK v, q : v = worker' /\ q = poller'  OBVIOUS
<1>2. /\ worker.stop = "drain" /\ worker.stopAwaits = {} /\ UNCHANGED <<consumers, handler>>
      /\ v = [worker EXCEPT !.stop = "tail2"] /\ q = TailStopped(poller)
  BY <1>1 DEF StopDrained
<1>3. InFlight' = InFlight /\ consumers' = consumers  BY <1>2 DEF InFlight
<1>4. StopOnly(worker, v) /\ v.stop = "tail2" /\ (v.cancels <=> worker.cancels)
  BY <1>2, SetStopIs, StopFacts DEF StopPCs
<1>5. /\ q \in Pollers /\ ~q.running /\ ~q.timer /\ (q.active <=> poller.active)
      /\ (q.boot = "none" <=> poller.boot = "none")
  BY <1>2, TailStoppedIs, StopFacts
<1>6. InFlight = {} /\ consumers = 0  BY <1>2, StopFacts
<1> QED  BY <1>1, <1>2, <1>3, <1>4, <1>5, <1>6, StopFacts, StopMoves

LEMMA StopReturnsAgrees == ASSUME AgreeInv, StopReturns PROVE AgreeInv'
<1>1. PICK v, q : v = worker' /\ q = poller'  OBVIOUS
<1>2. /\ worker.stop = "tail2" /\ TailSettled /\ UNCHANGED <<consumers, handler>>
      /\ v = [worker EXCEPT !.stop = "none", !.cancels = FALSE] /\ q = Unhealthy(poller)
  BY <1>1 DEF StopReturns
<1>3. InFlight' = InFlight /\ consumers' = consumers  BY <1>2 DEF InFlight
<1>4. worker \in Workers  BY <1>2, StopFacts
<1>5. StopOnly(worker, v) /\ v.stop = "none" /\ ~v.cancels
  <2>1. v \in Workers  BY <1>2, <1>4 DEF Workers, StopPCs
  <2>2. /\ v.start = worker.start /\ v.startAwaits = worker.startAwaits
        /\ v.channel = worker.channel /\ v.accepting = worker.accepting
        /\ v.current = worker.current /\ v.stop = "none" /\ ~v.cancels
    BY <1>2, <1>4 DEF Workers
  <2> QED  BY <2>1, <2>2 DEF StopOnly
<1>6. /\ q \in Pollers /\ ~q.healthy /\ (q.running <=> poller.running)
      /\ (q.timer <=> poller.timer) /\ (q.active <=> poller.active) /\ q.boot = poller.boot
  BY <1>2, UnhealthyIs, StopFacts
<1>7. InFlight = {} /\ consumers = 0 /\ ~poller.active  BY <1>2, StopFacts DEF TailSettled
<1> QED  BY <1>1, <1>2, <1>3, <1>5, <1>6, <1>7, StopFacts, StopMoves
(* The passes of the poller.                                               *)
LEMMA PollerMoves ==
  ASSUME AgreeInv, NEW q, q = poller', UNCHANGED worker, q \in Pollers,
         consumers' = consumers, InFlight' = InFlight,
         q.running <=> poller.running, q.timer => poller.running,
         q.running => q.timer \/ q.active, q.active => ~q.timer,
         q.boot # "none" <=> poller.boot # "none", q.active => poller.active \/ poller.timer,
         q.healthy => poller.healthy \/ poller.boot # "none" \/ poller.active,
         q.stopping <=> poller.stopping
  PROVE  AgreeInv'
<1>1. PhaseTypeOK'  BY DEF AgreeInv, PhaseTypeOK
<1>2. WorkerPhases'  BY DEF AgreeInv, WorkerPhases
<1>3. FlightPhases'  BY DEF AgreeInv, FlightPhases
<1>4. PollerPhases'  BY DEF AgreeInv, PollerPhases, IsHealthy
<1> QED  BY <1>1, <1>2, <1>3, <1>4 DEF AgreeInv

LEMMA BootAgrees == ASSUME TransportAssumption, AgreeInv, BootPass \/ BootResumes PROVE AgreeInv'
<1>1. PICK q : q = poller'  OBVIOUS
<1>2. poller \in Pollers  BY DEF AgreeInv, PhaseTypeOK
<1>3. UNCHANGED <<consumers, handler, worker>> /\ poller.boot # "none"
  BY DEF BootPass, BootResumes
<1>4. consumers' = consumers /\ InFlight' = InFlight  BY <1>3 DEF InFlight
<1>5. \E b \in {"failed", "poll"} : q = [poller EXCEPT !.boot = b]
      \/ q = [poller EXCEPT !.boot = "ok", !.healthy = TRUE]
      \/ q = [poller EXCEPT !.boot = "pause", !.passes = poller.passes + 1]
      \/ q = [Failed(poller) EXCEPT !.boot = "failed"]
  BY <1>1 DEF BootPass, BootResumes
<1>6. /\ q \in Pollers /\ q.running = poller.running /\ q.timer = poller.timer
      /\ q.active = poller.active /\ q.stopping = poller.stopping /\ q.boot # "none"
  <2>1. CASE \E b \in {"failed", "poll"} : q = [poller EXCEPT !.boot = b]
    BY <1>2, <2>1 DEF Pollers
  <2>2. CASE q = [poller EXCEPT !.boot = "ok", !.healthy = TRUE]
    BY <1>2, <2>2 DEF Pollers
  <2>3. CASE q = [poller EXCEPT !.boot = "pause", !.passes = poller.passes + 1]
    <3>1. poller.passes + 1 \in Nat  BY <1>2 DEF Pollers
    <3> QED  BY <1>2, <2>3, <3>1 DEF Pollers
  <2>4. CASE q = [Failed(poller) EXCEPT !.boot = "failed"]
    <3>1. PICK r : r = Failed(poller)  OBVIOUS
    <3>2. /\ r \in Pollers /\ r.running = poller.running /\ r.timer = poller.timer
          /\ r.active = poller.active /\ r.stopping = poller.stopping
      BY <1>2, <3>1 DEF Failed, Unhealthy, Pollers
    <3> QED  BY <2>4, <3>1, <3>2 DEF Pollers
  <2> QED  BY <1>5, <2>1, <2>2, <2>3, <2>4
<1>7. /\ poller.timer => poller.running
      /\ poller.running => poller.timer \/ poller.active
      /\ poller.active => ~poller.timer
  BY DEF AgreeInv, PollerPhases
<1>8. /\ (q.running <=> poller.running) /\ (q.timer <=> poller.timer)
      /\ (q.active <=> poller.active) /\ (q.stopping <=> poller.stopping)
  BY <1>6
<1> QED  BY <1>1, <1>3, <1>4, <1>6, <1>7, <1>8, PollerMoves

LEMMA PollAgrees == ASSUME AgreeInv, TimerFires \/ Poll PROVE AgreeInv'
<1>1. PICK q : q = poller'  OBVIOUS
<1>2. poller \in Pollers  BY DEF AgreeInv, PhaseTypeOK
<1>3. UNCHANGED <<consumers, handler, worker>>  BY DEF TimerFires, Poll
<1>4. consumers' = consumers /\ InFlight' = InFlight  BY <1>3 DEF InFlight
<1>5. poller.timer => poller.running  BY DEF AgreeInv, PollerPhases
<1>6. CASE TimerFires
  <2>1. poller.timer /\ q = [poller EXCEPT !.timer = FALSE, !.active = TRUE]
    BY <1>1, <1>6 DEF TimerFires
  <2>2. /\ q \in Pollers /\ q.running = poller.running /\ ~q.timer /\ q.active
        /\ q.stopping = poller.stopping /\ q.boot = poller.boot /\ q.healthy = poller.healthy
    BY <1>2, <2>1 DEF Pollers
  <2>3. /\ (q.running <=> poller.running) /\ (q.stopping <=> poller.stopping)
        /\ (q.healthy <=> poller.healthy)
    BY <2>2
  <2> QED  BY <1>1, <1>3, <1>4, <2>1, <2>2, <2>3, PollerMoves
<1>7. CASE Poll
  <2>1. poller.active  BY <1>7 DEF Poll
  <2>2. PICK r : q = PollEnded(r) /\ (r = poller \/ r = Failed(poller)
                                      \/ r = [poller EXCEPT !.healthy = ~poller.stopping])
    BY <1>1, <1>7 DEF Poll
  <2>3. /\ r \in Pollers /\ r.running = poller.running /\ r.stopping = poller.stopping
        /\ r.boot = poller.boot
    <3>1. CASE r = poller  BY <1>2, <3>1
    <3>2. CASE r = Failed(poller)  BY <1>2, <3>2 DEF Failed, Unhealthy, Pollers
    <3>3. CASE r = [poller EXCEPT !.healthy = ~poller.stopping]  BY <1>2, <3>3 DEF Pollers
    <3> QED  BY <2>2, <3>1, <3>2, <3>3
  <2>4. q = [r EXCEPT !.active = FALSE, !.timer = r.running]  BY <2>2 DEF PollEnded
  <2>5. r.running \in BOOLEAN  BY <2>3 DEF Pollers
  <2>6. /\ q \in Pollers /\ q.running = r.running /\ q.timer = r.running /\ ~q.active
        /\ q.stopping = r.stopping /\ q.boot = r.boot
    BY <2>3, <2>4, <2>5 DEF Pollers
  <2>7. (q.running <=> poller.running) /\ (q.timer <=> poller.running) /\ q.boot = poller.boot
        /\ (q.stopping <=> poller.stopping)
    BY <2>3, <2>6
  <2> QED  BY <1>1, <1>3, <1>4, <2>1, <2>6, <2>7, PollerMoves
<1> QED  BY <1>6, <1>7

(* The deliveries.                                                         *)
LEMMA HandlersMove ==
  ASSUME AgreeInv, NEW v, NEW q, v = worker', q = poller', consumers' = consumers,
         q = poller \/ q = Failed(poller), InFlight' \subseteq InFlight,
         \/ v = worker
         \/ \E i \in Slots : v = Leave(worker, i) /\ InFlight' \subseteq InFlight \ {i}
  PROVE  AgreeInv'
<1>1. worker \in Workers /\ poller \in Pollers  BY DEF AgreeInv, PhaseTypeOK
<1>2. /\ q \in Pollers /\ (q.running <=> poller.running) /\ (q.timer <=> poller.timer)
      /\ (q.active <=> poller.active) /\ q.boot = poller.boot
      /\ (q.healthy => poller.healthy) /\ (q.stopping <=> poller.stopping)
  <2>1. CASE q = poller  BY <1>1, <2>1
  <2>2. CASE q = Failed(poller)
    <3>1. q \in Pollers  BY <1>1, <2>2 DEF Failed, Unhealthy, Pollers
    <3>2. /\ q.running = poller.running /\ q.timer = poller.timer /\ q.active = poller.active
          /\ q.boot = poller.boot /\ ~q.healthy /\ q.stopping = poller.stopping
      BY <1>1, <2>2 DEF Failed, Unhealthy, Pollers
    <3> QED  BY <3>1, <3>2
  <2> QED  BY <2>1, <2>2
<1>3. /\ v \in Workers /\ v.start = worker.start /\ v.stop = worker.stop
      /\ (v.channel <=> worker.channel) /\ (v.accepting <=> worker.accepting)
      /\ (v.current <=> worker.current) /\ (v.cancels <=> worker.cancels)
      /\ (InFlight \subseteq worker.startAwaits => InFlight' \subseteq v.startAwaits)
      /\ (InFlight \subseteq worker.stopAwaits => InFlight' \subseteq v.stopAwaits)
  <2>1. CASE v = worker  BY <1>1, <2>1
  <2>2. CASE \E i \in Slots : v = Leave(worker, i) /\ InFlight' \subseteq InFlight \ {i}
    <3>1. PICK i \in Slots : v = Leave(worker, i) /\ InFlight' \subseteq InFlight \ {i}
      BY <2>2
    <3>2. v = [worker EXCEPT !.startAwaits = worker.startAwaits \ {i},
                             !.stopAwaits = worker.stopAwaits \ {i}]
      BY <3>1 DEF Leave
    <3>3. v \in Workers  BY <1>1, <3>2 DEF Workers
    <3>4. /\ v.start = worker.start /\ v.stop = worker.stop /\ v.channel = worker.channel
          /\ v.accepting = worker.accepting /\ v.current = worker.current
          /\ v.cancels = worker.cancels /\ v.startAwaits = worker.startAwaits \ {i}
          /\ v.stopAwaits = worker.stopAwaits \ {i}
      BY <1>1, <3>2 DEF Workers
    <3> QED  BY <3>1, <3>3, <3>4
  <2> QED  BY <2>1, <2>2
<1>4. PhaseTypeOK'  BY <1>2, <1>3 DEF AgreeInv, PhaseTypeOK
<1>5. WorkerPhases'  BY <1>3 DEF AgreeInv, WorkerPhases
<1>6. FlightPhases'  BY <1>3 DEF AgreeInv, FlightPhases
<1>7. PollerPhases'  BY <1>2, <1>3 DEF AgreeInv, PollerPhases, IsHealthy
<1> QED  BY <1>4, <1>5, <1>6, <1>7 DEF AgreeInv
LEMMA SettledMoves ==
  ASSUME KeptInv, NEW i \in Slots, Settled(i)
  PROVE  worker' = Leave(worker, i) /\ InFlight' \subseteq InFlight \ {i}
<1>1. \A j \in Slots : handler'[j] = IF j = i THEN Free ELSE handler[j]
  BY DEF Settled, KeptInv, BrokerTypeOK
<1> QED  BY <1>1, FreeIsHeld DEF Settled, InFlight

LEMMA ContinueMoves ==
  ASSUME KeptInv, NEW i \in Slots, NEW pc, Continue(i, pc), handler[i].pc \notin {"free", "stuck"}
  PROVE  worker' = worker /\ InFlight' \subseteq InFlight
<1>1. \A j \in Slots \ {i} : handler'[j] = handler[j]
  BY DEF Continue, KeptInv, BrokerTypeOK
<1> QED  BY <1>1 DEF Continue, InFlight

LEMMA HandlersAgree ==
  ASSUME KeptInv, AgreeInv, NEW i \in Slots,
         HandlerStep(i) \/ CallThrows(i) \/ RetryUnconfirmed(i)
  PROVE  AgreeInv'
<1>1. /\ handler[i].pc \notin {"free", "stuck"} /\ consumers' = consumers
      /\ poller' = poller \/ poller' = Failed(poller)
  BY DEF HandlerStep, NotificationResolved, NotificationRejected, CallThrows, Processed,
     Completed, RetryScheduled, RetryUnconfirmed, RetryNacked
<1>2. PICK v, q : v = worker' /\ q = poller'  OBVIOUS
<1>3. CASE Settled(i)
  <2>1. v = Leave(worker, i) /\ InFlight' \subseteq InFlight \ {i}  BY <1>2, <1>3, SettledMoves
  <2> QED  BY <1>1, <1>2, <2>1, HandlersMove
<1>4. CASE \E pc \in HandlerPCs : Continue(i, pc)
  <2>1. v = worker /\ InFlight' \subseteq InFlight  BY <1>1, <1>2, <1>4, ContinueMoves
  <2> QED  BY <1>1, <1>2, <2>1, HandlersMove
<1>5. CASE RetryUnconfirmed(i)
  <2>1. v = Leave(worker, i)  BY <1>2, <1>5 DEF RetryUnconfirmed
  <2>2. \A j \in Slots \ {i} : handler'[j] = handler[j]
    BY <1>5 DEF RetryUnconfirmed, KeptInv, BrokerTypeOK
  <2>3. handler'[i].pc \in {"stuck", "free"}
    BY <1>5, FreeIsHeld, HeldParts DEF RetryUnconfirmed, KeptInv, BrokerTypeOK, Held
  <2>4. InFlight' \subseteq InFlight \ {i}  BY <2>2, <2>3 DEF InFlight
  <2> QED  BY <1>1, <1>2, <2>1, <2>4, HandlersMove
<1>6. Settled(i) \/ (\E pc \in HandlerPCs : Continue(i, pc)) \/ RetryUnconfirmed(i)
  BY DEF HandlerStep, NotificationResolved, NotificationRejected, CallThrows, Processed,
     Completed, RetryScheduled, RetryNacked, Requeue, NackPermanent, HandlerPCs
<1> QED  BY <1>3, <1>4, <1>5, <1>6

(* Only a consumer of a worker that accepts brings deliveries into flight. *)
LEMMA DeliverAgrees ==
  ASSUME KeptInv, AgreeInv, NEW i \in Slots, NEW n \in Notes, Deliver(i, n)
  PROVE  AgreeInv'
<1>1. UNCHANGED <<worker, poller, consumers>> /\ consumers > 0  BY DEF Deliver
<1>2. PICK v, q : v = worker' /\ q = poller'  OBVIOUS
<1>3. CASE worker.accepting
  <2>1. worker.channel \/ worker.start = "consumed"
    BY <1>1, <1>3 DEF AgreeInv, WorkerPhases, FlightPhases
  <2>2. PhaseTypeOK' /\ WorkerPhases' /\ PollerPhases'
    BY <1>1 DEF AgreeInv, PhaseTypeOK, WorkerPhases, PollerPhases, IsHealthy
  <2>3. FlightPhases'  BY <1>1, <2>1 DEF FlightPhases
  <2> QED  BY <2>2, <2>3 DEF AgreeInv
<1>4. CASE ~worker.accepting
  <2>1. InFlight' \subseteq InFlight  BY <1>4 DEF Deliver, InFlight
  <2> QED  BY <1>1, <1>2, <2>1, HandlersMove
<1> QED  BY <1>3, <1>4

LEMMA ChannelClosesAgrees == ASSUME KeptInv, AgreeInv, ChannelCloses PROVE AgreeInv'
<1>1. /\ consumers' = 0 /\ UNCHANGED poller
      /\ handler' = [j \in Slots |-> IF handler[j].pc = "stuck" THEN Free
                                     ELSE [handler[j] EXCEPT !.live = FALSE]]
  BY DEF ChannelCloses
<1>2. InFlight' = InFlight
  <2>1. ASSUME NEW j \in Slots
        PROVE  handler'[j].pc \in {"free", "stuck"} <=> handler[j].pc \in {"free", "stuck"}
    <3>1. CASE handler[j].pc = "stuck"  BY <1>1, <3>1, FreeIsHeld
    <3>2. CASE handler[j].pc # "stuck"
      <4>1. handler'[j] = [handler[j] EXCEPT !.live = FALSE]  BY <1>1, <3>2
      <4>2. handler'[j].pc = handler[j].pc  BY <4>1, HeldParts DEF Held
      <4> QED  BY <4>2
    <3> QED  BY <3>1, <3>2
  <2> QED  BY <2>1 DEF InFlight
<1>3. CASE worker.start = "consume"
  BY <1>1, <1>2, <1>3, DrainAgrees DEF ChannelCloses
<1>4. CASE worker.start # "consume"
  <2>1. worker' = worker  BY <1>4 DEF ChannelCloses
  <2>2. PhaseTypeOK' /\ WorkerPhases' /\ PollerPhases'
    BY <1>1, <2>1 DEF AgreeInv, PhaseTypeOK, WorkerPhases, PollerPhases, IsHealthy
  <2>3. FlightPhases'  BY <1>1, <1>2, <2>1 DEF AgreeInv, FlightPhases
  <2> QED  BY <2>2, <2>3 DEF AgreeInv
<1> QED  BY <1>3, <1>4

LEMMA RestAgrees ==
  ASSUME worker = Unstarted, poller = Unbooted, consumers = 0, InFlight = {}
  PROVE  AgreeInv
<1>1. PhaseTypeOK
  BY DEF PhaseTypeOK, Workers, Pollers, Unstarted, Unbooted, StartPCs, StopPCs
<1>2. WorkerPhases  BY DEF WorkerPhases, Unstarted
<1>3. FlightPhases  BY DEF FlightPhases
<1>4. PollerPhases  BY DEF PollerPhases, IsHealthy, Unstarted, Unbooted
<1> QED  BY <1>1, <1>2, <1>3, <1>4 DEF AgreeInv

LEMMA InitAgrees == Init => AgreeInv
<1> SUFFICES ASSUME Init PROVE AgreeInv  OBVIOUS
<1>1. InFlight = {}  BY FreeIsHeld DEF Init, InFlight
<1> QED  BY <1>1, RestAgrees DEF Init

LEMMA CrashAgrees == ASSUME Crash PROVE AgreeInv'
<1>1. InFlight' = {}  BY FreeIsHeld DEF Crash, InFlight
<1>2. worker' = Unstarted /\ poller' = Unbooted /\ consumers' = 0  BY DEF Crash
<1>3. PhaseTypeOK'
  BY <1>2 DEF PhaseTypeOK, Workers, Pollers, Unstarted, Unbooted, StartPCs, StopPCs
<1>4. WorkerPhases'  BY <1>2 DEF WorkerPhases, Unstarted
<1>5. FlightPhases'  BY <1>1, <1>2 DEF FlightPhases
<1>6. PollerPhases'  BY <1>2 DEF PollerPhases, IsHealthy, Unstarted, Unbooted
<1> QED  BY <1>3, <1>4, <1>5, <1>6 DEF AgreeInv

LEMMA NextAgrees ==
  TransportAssumption /\ KeptInv /\ AgreeInv /\ [Next]_vars => AgreeInv'
<1> SUFFICES ASSUME TransportAssumption, KeptInv, AgreeInv, [Next]_vars PROVE AgreeInv'  OBVIOUS
<1>1. CASE UNCHANGED <<worker, poller, consumers, handler>>
  BY <1>1 DEF AgreeInv, PhaseTypeOK, WorkerPhases, FlightPhases, PollerPhases, IsHealthy, InFlight
<1>2. CASE PollerStep  BY <1>2, BootAgrees, PollAgrees DEF PollerStep
<1>3. CASE StartStep \/ Start \/ StartFails
  BY <1>3, SetupReturnsAgrees, BootstrapReturnsAgrees, PrefetchReturnsAgrees,
     ConsumerRegisteredAgrees, ConsumeReturnsAgrees, StartCancelReturnsAgrees,
     StartDrainedAgrees, StartTailStoppedAgrees, StartAgrees, StartFailsAgrees DEF StartStep
<1>4. CASE Stop
  <2>1. worker \in Workers /\ worker.stop = "none" /\ worker' = Stopped(worker)
        /\ UNCHANGED <<consumers, handler, poller>>
    BY <1>4 DEF Stop, AgreeInv, PhaseTypeOK
  <2>2. InFlight' = InFlight  BY <2>1 DEF InFlight
  <2> QED  BY <2>1, <2>2, StopAgrees
<1>5. CASE StopSeesStartOver
  BY <1>5, StopCancelsAgrees DEF StopSeesStartOver, BeginSettled
<1>6. CASE StopStep
  BY <1>5, <1>6, StopEntersAgrees, StopTailStoppedAgrees, StopCancelReturnsAgrees,
     StopDrainedAgrees, StopReturnsAgrees DEF StopStep
<1>7. ASSUME NEW i \in Slots,
             \/ HandlerStep(i) \/ CallThrows(i) \/ RetryUnconfirmed(i)
             \/ \E n \in Notes : Deliver(i, n)
      PROVE  AgreeInv'
  BY <1>7, HandlersAgree, DeliverAgrees
<1>8. CASE \E n \in Notes : Publish(n) \/ DelayEnds(n)
  BY <1>1, <1>8 DEF Publish, DelayEnds
<1>9. CASE ConsumerCancelled \/ ChannelCloses \/ Crash
  BY <1>9, ConsumerCancelledAgrees, ChannelClosesAgrees, CrashAgrees
<1> QED  BY <1>1, <1>2, <1>3, <1>4, <1>6, <1>7, <1>8, <1>9 DEF Next, vars

(* The worker and its poller never disagree: a worker that rests has left  *)
(* nothing behind, neither consumer nor timer nor delivery, a started one  *)
(* polls, and no two passes ever overlap; for any prefetch and any number  *)
(* of cancellations, lost channels, failed calls and crashes between any   *)
(* two steps of start() and stop() (rabbitWorker.ts:96-175,                *)
(* sourceTailPoller.ts:93-144, 187-195).                                   *)
THEOREM StartAndStopAgree == Spec => []WorkerAndPollerAgree
<1>1. AgreeInv => WorkerAndPollerAgree
  BY DEF AgreeInv, PhaseTypeOK, WorkerPhases, FlightPhases, PollerPhases, WorkerAndPollerAgree,
     TailSettled
<1> QED
  BY <1>1, InitKept, NextKept, InitAgrees, NextAgrees, TransportAssumption, PTL DEF Spec
=============================================================================
