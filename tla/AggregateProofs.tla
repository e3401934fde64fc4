--------------------------- MODULE AggregateProofs ---------------------------
(***************************************************************************)
(* Proofs about the aggregates that are in memory between calls, for any    *)
(* commands, instances and numbers of events: the queue of DemeineAggregate  *)
(* first, then the saves of LiveAggregate, then the envelopes of a dispatch; *)
(* and about the sagas that run beside them, first how they are defined.     *)
(***************************************************************************)
EXTENDS DemeineAggregate, LiveAggregate, CommandEnvelope, SagaDefinition, SequenceTheorems, TLAPS

-----------------------------------------------------------------------------
(* The inductive invariant of the queue.                                   *)

DemeineEvents == SunkCommands \X Nat

DemeineTypeOK ==
  /\ commandQueue \in Seq(SunkCommands)
  /\ running \in SunkCommands \cup {NotACommand}
  /\ input \in [SunkCommands -> {"pending", "ready", "bad"}]
  /\ result \in [SunkCommands -> {"none", "sunk", "passed", "done", "failed"}]
  /\ aggregate \in [state : Seq(DemeineEvents), version : Nat, uncommitted : Seq(DemeineEvents)]
  /\ read \in [Readers -> [phase : {"new", "waiting", "idle", "done", "cleared"},
                           before : SUBSET SunkCommands, events : Seq(DemeineEvents)]]
  /\ sunk \in Seq(SunkCommands)
  /\ cleared \in SUBSET SunkCommands

InHand == IF running = NotACommand THEN 0 ELSE 1
SettledCount == Len(sunk) - Len(commandQueue) - InHand

\* The commands in hand and waiting are the last that were sunk.
QueueIsTheRest ==
  /\ running = NotACommand => commandQueue = <<>>
  /\ SettledCount \in Nat
  /\ running # NotACommand => sunk[SettledCount + 1] = running
  /\ \A k \in 1..Len(commandQueue) : commandQueue[k] = sunk[SettledCount + InHand + k]

SunkOnce ==
  /\ \A i, j \in 1..Len(sunk) : sunk[i] = sunk[j] => i = j
  /\ \A c \in SunkCommands : result[c] # "none" <=> \E i \in 1..Len(sunk) : sunk[i] = c

SettledAreFirst ==
  \A i \in 1..Len(sunk) : CommandSettled(sunk[i]) <=> i <= SettledCount

TurnsInv == DemeineTypeOK /\ QueueIsTheRest /\ SunkOnce /\ SettledAreFirst

\* The events folded are those of settled commands, in the order these were sunk.
StateIsInOrder ==
  /\ \A i \in 1..Len(aggregate.state) : CommandSettled(aggregate.state[i][1])
  /\ \A i, j \in 1..Len(aggregate.state), p, q \in 1..Len(sunk) :
       /\ i < j
       /\ sunk[p] = aggregate.state[i][1] /\ sunk[q] = aggregate.state[j][1]
       => p < q \/ (p = q /\ aggregate.state[i][2] < aggregate.state[j][2])

EventsAreIn(c, events) == \A k \in 1..EventsDecided[c] : <<c, k>> \in ToSet(events)

\* What no clear has taken is pending.
PendingAreKept ==
  /\ \A c \in cleared : CommandSettled(c)
  /\ \A c \in SunkCommands :
       result[c] = "done" /\ c \notin cleared => EventsAreIn(c, aggregate.uncommitted)

\* What a read has seen of the queue and of the pending events stays true.
ReadsHold == \A r \in Readers :
  /\ \A c \in read[r].before : result[c] # "none"
  /\ read[r].phase \in {"idle", "done"} => \A c \in read[r].before : CommandSettled(c)
  /\ read[r].phase = "done" => \A c \in read[r].before :
       result[c] = "done" /\ c \notin cleared => EventsAreIn(c, read[r].events)

DemeineIInv == TurnsInv /\ StateIsInOrder /\ PendingAreKept /\ ReadsHold

-----------------------------------------------------------------------------
LEMMA DemeineInitInv == DemeineInit => DemeineIInv
<1> SUFFICES ASSUME DemeineInit PROVE DemeineIInv
  OBVIOUS
<1> USE DemeineAssumption DEF DemeineInit
<1>1. DemeineTypeOK
  BY DEF DemeineTypeOK, DemeineEvents
<1>2. QueueIsTheRest /\ SunkOnce /\ SettledAreFirst
  BY DEF QueueIsTheRest, SunkOnce, SettledAreFirst, SettledCount, InHand
<1>3. StateIsInOrder /\ PendingAreKept /\ ReadsHold
  BY DEF StateIsInOrder, PendingAreKept, ReadsHold
<1> QED
  BY <1>1, <1>2, <1>3 DEF DemeineIInv, TurnsInv

\* What n events of a command are appended to keeps its events.
Appended(s, c, n) == s \o [k \in 1..n |-> <<c, k>>]

LEMMA AppendedEvents ==
  ASSUME NEW s \in Seq(DemeineEvents), NEW c \in SunkCommands, NEW n \in Nat
  PROVE  /\ Appended(s, c, n) \in Seq(DemeineEvents) /\ Len(Appended(s, c, n)) = Len(s) + n
         /\ \A i \in 1..Len(s) : Appended(s, c, n)[i] = s[i]
         /\ \A k \in 1..n : Appended(s, c, n)[Len(s) + k] = <<c, k>>
         /\ ToSet(s) \subseteq ToSet(Appended(s, c, n))
         /\ \A k \in 1..n : <<c, k>> \in ToSet(Appended(s, c, n))
<1> DEFINE e == [k \in 1..n |-> <<c, k>>]
           t == s \o e
<1>0. Appended(s, c, n) = t
  BY DEF Appended
<1>1. e \in Seq(DemeineEvents) /\ Len(e) = n /\ \A k \in 1..n : e[k] = <<c, k>>
  BY DEF DemeineEvents
<1> HIDE DEF e
<1>2. t \in Seq(DemeineEvents) /\ Len(t) = Len(s) + n
  BY <1>1, ConcatProperties DEF t
<1>3. \A i \in 1..Len(s) : t[i] = s[i]
  BY <1>1 DEF t
<1>4. \A k \in 1..n : t[Len(s) + k] = <<c, k>>
  BY <1>1 DEF t
<1> HIDE DEF t
<1>5. ASSUME NEW x \in ToSet(s) PROVE x \in ToSet(t)
  <2>1. PICK i \in DOMAIN s : x = s[i]
    BY DEF ToSet
  <2>2. i \in 1..Len(s) /\ i \in DOMAIN t
    BY <1>2
  <2> QED
    BY <2>1, <2>2, <1>3 DEF ToSet
<1>6. ASSUME NEW k \in 1..n PROVE <<c, k>> \in ToSet(t)
  <2>1. Len(s) + k \in DOMAIN t
    BY <1>2
  <2> QED
    BY <2>1, <1>4 DEF ToSet
<1> QED
  BY <1>0, <1>2, <1>3, <1>4, <1>5, <1>6

-----------------------------------------------------------------------------
(* The queue: a _sink() call, and the end of the task in hand.              *)

LEMMA SinkKeepsTurns ==
  ASSUME DemeineTypeOK, QueueIsTheRest, SunkOnce, SettledAreFirst,
         NEW c \in SunkCommands, Sink(c)
  PROVE  /\ DemeineTypeOK' /\ QueueIsTheRest' /\ SunkOnce' /\ SettledAreFirst'
         /\ \A i \in 1..Len(sunk) : sunk'[i] = sunk[i]
         /\ \A d \in SunkCommands : CommandSettled(d)' <=> CommandSettled(d)
<1> USE DemeineAssumption DEF Sink
<1>1. /\ sunk' \in Seq(SunkCommands) /\ Len(sunk') = Len(sunk) + 1
      /\ \A i \in 1..Len(sunk) : sunk'[i] = sunk[i]
      /\ sunk'[Len(sunk) + 1] = c
  BY DEF DemeineTypeOK
<1>2. /\ result' \in [SunkCommands -> {"none", "sunk", "passed", "done", "failed"}]
      /\ result'[c] = "sunk" /\ \A d \in SunkCommands \ {c} : result'[d] = result[d]
  BY DEF DemeineTypeOK
<1>3. \A d \in SunkCommands : CommandSettled(d)' <=> CommandSettled(d)
  BY <1>2 DEF CommandSettled
<1>4. DemeineTypeOK'
  <2>1. commandQueue \in Seq(SunkCommands) /\ running \in SunkCommands \cup {NotACommand}
    BY DEF DemeineTypeOK
  <2>2. commandQueue' \in Seq(SunkCommands)
    <3>1. CASE running = NotACommand
      BY <2>1, <3>1
    <3>2. CASE running # NotACommand
      <4>1. commandQueue' = Append(commandQueue, c)
        BY <3>2
      <4> QED
        BY <2>1, <4>1
    <3> QED
      BY <3>1, <3>2
  <2>3. running' \in SunkCommands \cup {NotACommand}
    BY <2>1
  <2> QED
    BY <2>2, <2>3, <1>1, <1>2 DEF DemeineTypeOK
<1>5. SunkOnce'
  <2>1. \A i \in 1..Len(sunk) : sunk[i] # c
    BY DEF SunkOnce
  <2>2. \A i, j \in 1..Len(sunk') : sunk'[i] = sunk'[j] => i = j
    BY SMTT(60), <1>1, <2>1 DEF SunkOnce, DemeineTypeOK
  <2>3. \A d \in SunkCommands : result'[d] # "none" <=> \E i \in 1..Len(sunk') : sunk'[i] = d
    <3>1. \E i \in 1..Len(sunk') : sunk'[i] = c
      BY <1>1 DEF DemeineTypeOK
    <3>2. ASSUME NEW d \in SunkCommands \ {c}
          PROVE  (\E i \in 1..Len(sunk') : sunk'[i] = d) <=> \E i \in 1..Len(sunk) : sunk[i] = d
      BY <1>1 DEF DemeineTypeOK
    <3> QED
      BY <3>1, <3>2, <1>2 DEF SunkOnce
  <2> QED
    BY <2>2, <2>3 DEF SunkOnce
<1>6. SettledCount' = SettledCount /\ QueueIsTheRest'
  <2>1. CASE running = NotACommand
    <3>1. /\ running' = c /\ commandQueue' = commandQueue /\ Len(commandQueue) = 0
          /\ InHand = 0 /\ InHand' = 1 /\ SettledCount = Len(sunk)
      BY <2>1 DEF QueueIsTheRest, InHand, SettledCount, DemeineTypeOK
    <3>2. SettledCount' = SettledCount
      BY <3>1, <1>1 DEF SettledCount, DemeineTypeOK
    <3> QED
      BY <3>1, <3>2, <1>1 DEF QueueIsTheRest
  <2>2. CASE running # NotACommand
    <3>1. /\ running' = running /\ InHand = 1 /\ InHand' = 1
          /\ commandQueue' = Append(commandQueue, c) /\ Len(commandQueue') = Len(commandQueue) + 1
          /\ \A k \in 1..Len(commandQueue) : commandQueue'[k] = commandQueue[k]
          /\ commandQueue'[Len(commandQueue) + 1] = c
      <4>1. commandQueue \in Seq(SunkCommands) /\ running' = running
        BY <2>2 DEF DemeineTypeOK
      <4>2. commandQueue' = Append(commandQueue, c)
        BY <2>2
      <4>3. InHand = 1 /\ InHand' = 1
        BY <2>2, <4>1 DEF InHand
      <4> QED
        BY <4>1, <4>2, <4>3
    <3>2. SettledCount' = SettledCount /\ SettledCount \in Nat
      BY <3>1, <1>1 DEF SettledCount, DemeineTypeOK, QueueIsTheRest
    <3>3. /\ Len(sunk) = SettledCount + 1 + Len(commandQueue)
          /\ Len(commandQueue) \in Nat
      BY <3>1 DEF SettledCount, DemeineTypeOK
    <3>4. \A k \in 1..Len(commandQueue') : commandQueue'[k] = sunk'[SettledCount' + InHand' + k]
      <4> TAKE k \in 1..Len(commandQueue')
      <4>1. CASE k = Len(commandQueue) + 1
        BY <4>1, <3>1, <3>2, <3>3, <1>1
      <4>2. CASE k # Len(commandQueue) + 1
        <5>1. k \in 1..Len(commandQueue) /\ SettledCount + 1 + k \in 1..Len(sunk)
          BY <4>2, <3>1, <3>2, <3>3
        <5>2. commandQueue[k] = sunk[SettledCount + 1 + k]
          BY <5>1, <3>1 DEF QueueIsTheRest
        <5> QED
          BY <5>1, <5>2, <3>1, <3>2, <1>1
      <4> QED
        BY <4>1, <4>2
    <3>5. sunk'[SettledCount' + 1] = running'
      <4>1. SettledCount + 1 \in 1..Len(sunk)
        BY <3>2, <3>3
      <4> QED
        BY <4>1, <3>1, <3>2, <1>1, <2>2 DEF QueueIsTheRest
    <3> QED
      BY <3>1, <3>2, <3>4, <3>5, <2>2 DEF QueueIsTheRest
  <2> QED
    BY <2>1, <2>2
<1>7. SettledAreFirst'
  <2>1. SettledCount <= Len(sunk)
    BY DEF SettledCount, InHand, DemeineTypeOK
  <2>2. SettledCount \in Nat /\ Len(sunk) \in Nat
    BY DEF QueueIsTheRest, DemeineTypeOK
  <2> SUFFICES ASSUME NEW i \in 1..Len(sunk')
               PROVE  result'[sunk'[i]] \in {"done", "failed"} <=> i <= SettledCount'
    BY DEF SettledAreFirst, CommandSettled
  <2>3. CASE i \in 1..Len(sunk)
    <3>1. sunk'[i] = sunk[i] /\ sunk[i] \in SunkCommands
      BY <2>3, <1>1 DEF DemeineTypeOK
    <3>2. CommandSettled(sunk[i]) <=> i <= SettledCount
      BY <2>3 DEF SettledAreFirst
    <3> QED
      BY <3>1, <3>2, <1>3, <1>6 DEF CommandSettled
  <2>4. CASE i \notin 1..Len(sunk)
    <3>1. i = Len(sunk) + 1
      BY <2>4, <2>2, <1>1
    <3>2. sunk'[i] = c /\ ~(i <= SettledCount')
      BY <3>1, <1>1, <1>6, <2>1, <2>2
    <3> QED
      BY <3>2, <1>2
  <2> QED
    BY <2>3, <2>4
<1> QED
  BY <1>1, <1>3, <1>4, <1>5, <1>6, <1>7

LEMMA SettlesKeepsTurns ==
  ASSUME DemeineTypeOK, QueueIsTheRest, SunkOnce, SettledAreFirst,
         NEW c \in SunkCommands, NEW how \in {"done", "failed"},
         running = c, result[c] \in {"sunk", "passed"}, Settles(c, how)
  PROVE  /\ commandQueue' \in Seq(SunkCommands)
         /\ running' \in SunkCommands \cup {NotACommand}
         /\ result' \in [SunkCommands -> {"none", "sunk", "passed", "done", "failed"}]
         /\ QueueIsTheRest' /\ SunkOnce' /\ SettledAreFirst'
         /\ result'[c] = how /\ \A d \in SunkCommands \ {c} : result'[d] = result[d]
         /\ \A d \in SunkCommands : CommandSettled(d)' <=> CommandSettled(d) \/ d = c
         /\ sunk' = sunk /\ SettledCount \in Nat
         /\ SettledCount + 1 \in 1..Len(sunk) /\ sunk[SettledCount + 1] = c
<1> USE DemeineAssumption DEF Settles
<1>1. /\ result' \in [SunkCommands -> {"none", "sunk", "passed", "done", "failed"}]
      /\ result'[c] = how /\ \A d \in SunkCommands \ {c} : result'[d] = result[d]
      /\ sunk' = sunk
  BY DEF DemeineTypeOK
<1>2. \A d \in SunkCommands : CommandSettled(d)' <=> CommandSettled(d) \/ d = c
  BY <1>1 DEF CommandSettled
<1>3. /\ InHand = 1 /\ SettledCount \in Nat /\ Len(commandQueue) \in Nat /\ Len(sunk) \in Nat
      /\ Len(sunk) = SettledCount + 1 + Len(commandQueue)
      /\ sunk[SettledCount + 1] = c
  BY SMTT(30) DEF InHand, SettledCount, QueueIsTheRest, DemeineTypeOK
<1>4. SunkOnce'
  BY <1>1 DEF SunkOnce
<1>5. /\ SettledCount' = SettledCount + 1 /\ QueueIsTheRest'
      /\ commandQueue' \in Seq(SunkCommands) /\ running' \in SunkCommands \cup {NotACommand}
  <2>1. CASE commandQueue = <<>>
    <3>1. running' = NotACommand /\ commandQueue' = <<>> /\ InHand' = 0 /\ Len(commandQueue) = 0
      BY <2>1 DEF StartNext, InHand
    <3>2. SettledCount' = SettledCount + 1
      BY <3>1, <1>1, <1>3 DEF SettledCount
    <3> QED
      BY <3>1, <3>2, <1>3 DEF QueueIsTheRest
  <2>2. CASE commandQueue # <<>>
    <3>1. /\ running' = commandQueue[1] /\ commandQueue[1] \in SunkCommands
          /\ commandQueue' = Tail(commandQueue) /\ commandQueue' \in Seq(SunkCommands)
          /\ Len(commandQueue') = Len(commandQueue) - 1 /\ Len(commandQueue) >= 1
          /\ \A k \in 1..Len(commandQueue') : commandQueue'[k] = commandQueue[k + 1]
      <4>1. commandQueue \in Seq(SunkCommands)
        BY DEF DemeineTypeOK
      <4>2. running' = Head(commandQueue) /\ commandQueue' = Tail(commandQueue)
        BY <2>2 DEF StartNext
      <4> QED
        BY <4>1, <4>2, <2>2
    <3>2. InHand' = 1 /\ running' # NotACommand
      BY <3>1 DEF InHand
    <3>3. SettledCount' = SettledCount + 1
      BY <3>1, <3>2, <1>1, <1>3 DEF SettledCount
    <3>4. sunk'[SettledCount' + 1] = running'
      <4>1. commandQueue[1] = sunk[SettledCount + 1 + 1]
        BY <3>1, <1>3 DEF QueueIsTheRest
      <4> QED
        BY <4>1, <3>1, <3>3, <1>1, <1>3
    <3>5. \A k \in 1..Len(commandQueue') : commandQueue'[k] = sunk'[SettledCount' + InHand' + k]
      <4> TAKE k \in 1..Len(commandQueue')
      <4>1. k + 1 \in 1..Len(commandQueue)
        BY <3>1, <1>3
      <4>2. commandQueue[k + 1] = sunk[SettledCount + 1 + (k + 1)]
        BY <4>1, <1>3 DEF QueueIsTheRest
      <4>3. SettledCount' + InHand' + k = SettledCount + 1 + (k + 1)
        BY <3>2, <3>3, <1>3
      <4> QED
        BY <4>2, <4>3, <3>1, <1>1
    <3> QED
      BY <3>1, <3>2, <3>3, <3>4, <3>5, <1>3 DEF QueueIsTheRest
  <2> QED
    BY <2>1, <2>2
<1>6. SettledAreFirst'
  <2> SUFFICES ASSUME NEW i \in 1..Len(sunk)
               PROVE  CommandSettled(sunk[i])' <=> i <= SettledCount + 1
    BY <1>1, <1>5 DEF SettledAreFirst, CommandSettled
  <2>1. CommandSettled(sunk[i]) <=> i <= SettledCount
    BY DEF SettledAreFirst
  <2>2. sunk[i] = c <=> i = SettledCount + 1
    BY <1>3 DEF SunkOnce
  <2>3. sunk[i] \in SunkCommands
    BY DEF DemeineTypeOK
  <2> QED
    BY <2>1, <2>2, <2>3, <1>2, <1>3
<1> QED
  BY <1>1, <1>2, <1>3, <1>4, <1>5, <1>6

-----------------------------------------------------------------------------
(* The commands: what settling one, with some of its events, keeps.         *)

\* A command settled: the queue as above, and events of it in the state.
LEMMA SettledWithEvents ==
  ASSUME DemeineIInv, NEW c \in SunkCommands, NEW how \in {"done", "failed"},
         running = c, result[c] \in {"sunk", "passed"}, Settles(c, how),
         NEW n \in Nat, how = "done" => n = EventsDecided[c],
         \/ aggregate' = AppliedBy(c, n) /\ cleared' = cleared
         \/ /\ aggregate' = [AppliedBy(c, n) EXCEPT !.uncommitted = <<>>]
            /\ cleared' = {d \in SunkCommands : CommandSettled(d)} \cup {c}
  PROVE  DemeineIInv'
<1> USE DemeineAssumption
<1>0. DemeineTypeOK /\ QueueIsTheRest /\ SunkOnce /\ SettledAreFirst
  BY DEF DemeineIInv, TurnsInv
<1> DEFINE before == SettledCount
           state == aggregate.state
           pending == aggregate.uncommitted
           e == [k \in 1..n |-> <<c, k>>]
<1>1. /\ commandQueue' \in Seq(SunkCommands)
      /\ running' \in SunkCommands \cup {NotACommand}
      /\ result' \in [SunkCommands -> {"none", "sunk", "passed", "done", "failed"}]
      /\ QueueIsTheRest' /\ SunkOnce' /\ SettledAreFirst'
      /\ result'[c] = how /\ \A d \in SunkCommands \ {c} : result'[d] = result[d]
      /\ \A d \in SunkCommands : CommandSettled(d)' <=> CommandSettled(d) \/ d = c
      /\ sunk' = sunk /\ before \in Nat
      /\ before + 1 \in 1..Len(sunk) /\ sunk[before + 1] = c
  BY <1>0, SettlesKeepsTurns
<1>2. state \in Seq(DemeineEvents) /\ pending \in Seq(DemeineEvents) /\ aggregate.version \in Nat
  BY <1>0 DEF DemeineTypeOK
<1>3. /\ state \o e \in Seq(DemeineEvents) /\ Len(state \o e) = Len(state) + n
      /\ \A i \in 1..Len(state) : (state \o e)[i] = state[i]
      /\ \A k \in 1..n : (state \o e)[Len(state) + k] = <<c, k>>
  <2>1. state \o e = Appended(state, c, n)
    BY DEF Appended
  <2> HIDE DEF state, e
  <2> QED
    BY SMTT(60), <1>2, <2>1, AppendedEvents
<1>4. /\ pending \o e \in Seq(DemeineEvents) /\ ToSet(pending) \subseteq ToSet(pending \o e)
      /\ \A k \in 1..n : <<c, k>> \in ToSet(pending \o e)
  <2>1. pending \o e = Appended(pending, c, n)
    BY DEF Appended
  <2> HIDE DEF pending, e
  <2> QED
    BY <1>2, <2>1, AppendedEvents
<1>a. AppliedBy(c, n) = [state |-> state \o e, version |-> aggregate.version + n,
                         uncommitted |-> pending \o e]
  BY DEF AppliedBy
<1>b. input' = input /\ read' = read /\ cleared' \in SUBSET SunkCommands
  BY <1>0 DEF Settles, DemeineTypeOK
<1> HIDE DEF e, before, state, pending
<1>5. /\ aggregate'.state = state \o e /\ aggregate'.version = aggregate.version + n
      /\ \/ aggregate'.uncommitted = pending \o e /\ cleared' = cleared
         \/ /\ aggregate'.uncommitted = <<>>
            /\ cleared' = {d \in SunkCommands : CommandSettled(d)} \cup {c}
      /\ aggregate' \in [state : Seq(DemeineEvents), version : Nat, uncommitted : Seq(DemeineEvents)]
  <2> DEFINE x == [state |-> state \o e, version |-> aggregate.version + n,
                   uncommitted |-> pending \o e]
  <2>1. x \in [state : Seq(DemeineEvents), version : Nat, uncommitted : Seq(DemeineEvents)]
    BY <1>2, <1>3, <1>4
  <2>2. /\ x.state = state \o e /\ x.version = aggregate.version + n
        /\ x.uncommitted = pending \o e
    OBVIOUS
  <2>3. CASE aggregate' = AppliedBy(c, n) /\ cleared' = cleared
    BY <2>1, <2>2, <2>3, <1>a
  <2>4. CASE /\ aggregate' = [AppliedBy(c, n) EXCEPT !.uncommitted = <<>>]
             /\ cleared' = {d \in SunkCommands : CommandSettled(d)} \cup {c}
    <3>1. aggregate' = [x EXCEPT !.uncommitted = <<>>]
      BY <2>4, <1>a
    <3> HIDE DEF x
    <3>2. <<>> \in Seq(DemeineEvents)
      OBVIOUS
    <3> QED
      BY <2>1, <2>2, <2>4, <3>1, <3>2
  <2> QED
    BY <2>3, <2>4
<1>7. DemeineTypeOK'
  BY <1>0, <1>1, <1>5, <1>b DEF DemeineTypeOK
<1>8. StateIsInOrder'
  <2>1. /\ \A i \in 1..Len(state) : CommandSettled(state[i][1]) /\ state[i] \in DemeineEvents
        /\ \A i, j \in 1..Len(state), p, q \in 1..Len(sunk) :
             i < j /\ sunk[p] = state[i][1] /\ sunk[q] = state[j][1]
             => p < q \/ (p = q /\ state[i][2] < state[j][2])
    BY <1>2 DEF DemeineIInv, StateIsInOrder, state
  <2>2. \A i \in 1..Len(state) : state[i][1] \in SunkCommands
    BY <2>1 DEF DemeineEvents
  <2> DEFINE t == state \o e
  <2>3. /\ Len(t) = Len(state) + n /\ Len(state) \in Nat
        /\ \A i \in 1..Len(state) : t[i] = state[i]
        /\ \A i \in 1..Len(t) : i > Len(state) => t[i] = <<c, i - Len(state)>>
    <3>1. Len(t) = Len(state) + n /\ Len(state) \in Nat
      BY <1>2, <1>3
    <3>2. ASSUME NEW i \in 1..Len(t), i > Len(state) PROVE t[i] = <<c, i - Len(state)>>
      <4>1. i - Len(state) \in 1..n /\ Len(state) + (i - Len(state)) = i
        BY <3>1, <3>2
      <4> QED
        BY <4>1, <1>3
    <3> QED
      BY <3>1, <3>2, <1>3
  <2> HIDE DEF t
  <2>4. ASSUME NEW i \in 1..Len(t) PROVE result'[t[i][1]] \in {"done", "failed"}
    <3>1. CASE i <= Len(state)
      <4>1. t[i] = state[i] /\ state[i][1] \in SunkCommands /\ CommandSettled(state[i][1])
        BY <3>1, <2>1, <2>2, <2>3
      <4>2. PICK d \in SunkCommands : d = t[i][1]
        BY <4>1
      <4>3. CommandSettled(d)
        BY <4>1, <4>2
      <4>4. CommandSettled(d)'
        BY <4>3, <1>1
      <4> QED
        BY <4>2, <4>4 DEF CommandSettled
    <3>2. CASE i > Len(state)
      BY <3>2, <2>3, <1>1
    <3> QED
      BY <3>1, <3>2, <2>3
  <2>5. ASSUME NEW i \in 1..Len(t), NEW j \in 1..Len(t),
               NEW p \in 1..Len(sunk), NEW q \in 1..Len(sunk),
               i < j, sunk[p] = t[i][1], sunk[q] = t[j][1]
        PROVE  p < q \/ (p = q /\ t[i][2] < t[j][2])
    <3>1. CASE j <= Len(state)
      <4>1. i \in 1..Len(state) /\ j \in 1..Len(state)
        BY <3>1, <2>3, <2>5
      <4> QED
        BY SMTT(60), <4>1, <2>1, <2>3, <2>5
    <3>2. CASE j > Len(state)
      <4>1. t[j] = <<c, j - Len(state)>> /\ q = before + 1
        BY SMTT(60), <3>2, <2>3, <2>5, <1>0, <1>1 DEF SunkOnce
      <4>2. CASE i <= Len(state)
        <5>1. i \in 1..Len(state)
          BY <4>2, <2>3
        <5>2. CommandSettled(sunk[p])
          BY <5>1, <2>1, <2>3, <2>5
        <5>3. p <= before
          BY <5>2, <1>0 DEF SettledAreFirst, before
        <5> QED
          BY <5>3, <4>1, <1>1
      <4>3. CASE i > Len(state)
        <5>1. t[i] = <<c, i - Len(state)>>
          BY <4>3, <2>3
        <5>2. p = before + 1
          BY SMTT(60), <5>1, <2>5, <1>0, <1>1 DEF SunkOnce
        <5>3. t[i][2] < t[j][2]
          BY <5>1, <4>1, <2>3, <2>5
        <5> QED
          BY <5>2, <5>3, <4>1
      <4> QED
        BY <4>2, <4>3, <2>3
    <3> QED
      BY <3>1, <3>2, <2>3
  <2>6. aggregate'.state = t /\ sunk' = sunk
    BY <1>1, <1>5 DEF t
  <2> QED
    BY <2>4, <2>5, <2>6 DEF StateIsInOrder, CommandSettled
<1>9. PendingAreKept'
  <2>1. ASSUME NEW d \in cleared' PROVE CommandSettled(d)'
    <3>1. d \in SunkCommands /\ (CommandSettled(d) \/ d = c)
      BY <2>1, <1>0, <1>5 DEF DemeineIInv, PendingAreKept, DemeineTypeOK
    <3> QED
      BY <3>1, <1>1
  <2>2. ASSUME NEW d \in SunkCommands, result'[d] = "done", d \notin cleared'
        PROVE  \A k \in 1..EventsDecided[d] : <<d, k>> \in ToSet(aggregate'.uncommitted)
    <3>1. aggregate'.uncommitted = pending \o e /\ cleared' = cleared
      <4>1. d \in SunkCommands /\ CommandSettled(d)'
        BY <2>2 DEF CommandSettled
      <4> QED
        BY <4>1, <2>2, <1>1, <1>5
    <3>2. CASE d = c
      BY <3>1, <3>2, <2>2, <1>1, <1>4
    <3>3. CASE d # c
      BY <3>1, <3>3, <2>2, <1>1, <1>4 DEF DemeineIInv, PendingAreKept, EventsAreIn, pending
    <3> QED
      BY <3>2, <3>3
  <2> QED
    BY <2>1, <2>2 DEF PendingAreKept, EventsAreIn
<1>10. ReadsHold'
  <2> SUFFICES ASSUME NEW r \in Readers
      PROVE /\ \A d \in read[r].before : result'[d] # "none"
            /\ read[r].phase \in {"idle", "done"} =>
                 \A d \in read[r].before : result'[d] \in {"done", "failed"}
            /\ read[r].phase = "done" => \A d \in read[r].before :
                 result'[d] = "done" /\ d \notin cleared' =>
                   EventsAreIn(d, read[r].events)
    BY DEF ReadsHold, CommandSettled, Settles, EventsAreIn
  <2>1. ASSUME NEW d \in read[r].before
        PROVE  /\ d \in SunkCommands /\ result[d] # "none"
               /\ read[r].phase \in {"idle", "done"} => CommandSettled(d)
               /\ read[r].phase = "done" => (result[d] = "done" /\ d \notin cleared
                                               => EventsAreIn(d, read[r].events))
    BY <1>0 DEF DemeineTypeOK, DemeineIInv, ReadsHold
  <2>2. ~CommandSettled(c)
    BY DEF CommandSettled
  <2>3. cleared \subseteq cleared'
    BY <1>0, <1>5 DEF DemeineIInv, PendingAreKept, DemeineTypeOK
  <2>4. \A d \in read[r].before : result'[d] # "none"
    BY <2>1, <1>1
  <2>5. ASSUME read[r].phase \in {"idle", "done"}, NEW d \in read[r].before
        PROVE  result'[d] = result[d] /\ CommandSettled(d)
    BY <2>1, <2>2, <2>5, <1>1
  <2> QED
    BY <2>1, <2>3, <2>4, <2>5 DEF CommandSettled
<1> QED
  BY <1>1, <1>7, <1>8, <1>9, <1>10 DEF DemeineIInv, TurnsInv

LEMMA NothingApplied ==
  ASSUME DemeineTypeOK, NEW c \in SunkCommands
  PROVE  AppliedBy(c, 0) = aggregate
<1>1. /\ aggregate.state \in Seq(DemeineEvents) /\ aggregate.uncommitted \in Seq(DemeineEvents)
      /\ aggregate.version \in Nat
      /\ aggregate = [state |-> aggregate.state, version |-> aggregate.version,
                      uncommitted |-> aggregate.uncommitted]
  BY DEF DemeineTypeOK
<1>2. [k \in 1..0 |-> <<c, k>>] = <<>>
  OBVIOUS
<1>3. /\ aggregate.state \o <<>> = aggregate.state /\ aggregate.version + 0 = aggregate.version
      /\ aggregate.uncommitted \o <<>> = aggregate.uncommitted
  BY <1>1, ConcatEmptySeq
<1> QED
  BY <1>1, <1>2, <1>3 DEF AppliedBy

LEMMA SinkStep ==
  ASSUME DemeineIInv, NEW c \in SunkCommands, Sink(c)
  PROVE  DemeineIInv'
<1>0. DemeineTypeOK /\ QueueIsTheRest /\ SunkOnce /\ SettledAreFirst
  BY DEF DemeineIInv, TurnsInv
<1>1. /\ DemeineTypeOK' /\ QueueIsTheRest' /\ SunkOnce' /\ SettledAreFirst'
      /\ \A i \in 1..Len(sunk) : sunk'[i] = sunk[i]
      /\ \A d \in SunkCommands : CommandSettled(d)' <=> CommandSettled(d)
  BY <1>0, SinkKeepsTurns
<1>2. /\ aggregate' = aggregate /\ read' = read /\ cleared' = cleared
      /\ result' \in [SunkCommands -> {"none", "sunk", "passed", "done", "failed"}]
      /\ result'[c] = "sunk" /\ \A d \in SunkCommands \ {c} : result'[d] = result[d]
  BY <1>0 DEF Sink, DemeineTypeOK
<1>3. Len(sunk') = Len(sunk) + 1 /\ Len(sunk) \in Nat /\ sunk'[Len(sunk) + 1] = c
  BY <1>0 DEF Sink, DemeineTypeOK
<1>4. StateIsInOrder'
  <2> DEFINE state == aggregate.state
  <2>1. /\ \A i \in 1..Len(state) : state[i][1] \in SunkCommands /\ CommandSettled(state[i][1])
        /\ \A i, j \in 1..Len(state), p, q \in 1..Len(sunk) :
             i < j /\ sunk[p] = state[i][1] /\ sunk[q] = state[j][1]
             => p < q \/ (p = q /\ state[i][2] < state[j][2])
    <3>1. state \in Seq(DemeineEvents)
      BY <1>0 DEF DemeineTypeOK
    <3>2. \A i \in 1..Len(state) : state[i][1] \in SunkCommands
      BY <3>1 DEF DemeineEvents
    <3> QED
      BY <3>2 DEF DemeineIInv, StateIsInOrder
  <2> HIDE DEF state
  <2>2. \A i \in 1..Len(state) : state[i][1] # c
    BY <2>1 DEF CommandSettled, Sink
  <2>3. ASSUME NEW i \in 1..Len(state), NEW j \in 1..Len(state),
               NEW p \in 1..Len(sunk'), NEW q \in 1..Len(sunk'),
               i < j, sunk'[p] = state[i][1], sunk'[q] = state[j][1]
        PROVE  p < q \/ (p = q /\ state[i][2] < state[j][2])
    <3>1. p \in 1..Len(sunk) /\ q \in 1..Len(sunk)
      BY <2>2, <2>3, <1>3
    <3> QED
      BY <3>1, <2>1, <2>3, <1>1
  <2>4. aggregate'.state = state
    BY <1>2 DEF state
  <2>5. \A i \in 1..Len(state) : result'[state[i][1]] \in {"done", "failed"}
    BY <2>1, <1>1 DEF CommandSettled
  <2> QED
    BY <2>3, <2>4, <2>5 DEF StateIsInOrder, CommandSettled
<1>5. PendingAreKept'
  <2>1. \A d \in cleared : result'[d] \in {"done", "failed"}
    BY <1>0, <1>1 DEF DemeineIInv, PendingAreKept, DemeineTypeOK, CommandSettled
  <2> QED
    BY <2>1, <1>2 DEF DemeineIInv, PendingAreKept, EventsAreIn, CommandSettled
<1>6. ReadsHold'
  <2>1. ASSUME NEW r \in Readers, NEW d \in read[r].before
        PROVE  /\ result'[d] # "none" /\ d \in SunkCommands /\ result'[d] = result[d]
    BY <1>0, <1>2 DEF DemeineIInv, ReadsHold, DemeineTypeOK, Sink
  <2> QED
    BY <2>1, <1>2 DEF DemeineIInv, ReadsHold, EventsAreIn, CommandSettled
<1> QED
  BY <1>1, <1>4, <1>5, <1>6 DEF DemeineIInv, TurnsInv

LEMMA InputStep ==
  ASSUME DemeineIInv, NEW c \in SunkCommands, NEW how \in {"ready", "bad"}, InputSettles(c, how)
  PROVE  DemeineIInv'
<1>1. /\ input' \in [SunkCommands -> {"pending", "ready", "bad"}]
      /\ UNCHANGED <<commandQueue, running, result, aggregate, read, sunk, cleared>>
  BY DEF InputSettles, DemeineIInv, TurnsInv, DemeineTypeOK
<1> QED
  BY <1>1 DEF DemeineIInv, TurnsInv, DemeineTypeOK, QueueIsTheRest, SettledCount, InHand, SunkOnce,
              SettledAreFirst, CommandSettled, StateIsInOrder, PendingAreKept, EventsAreIn, ReadsHold

LEMMA PassStep ==
  ASSUME DemeineIInv, NEW c \in SunkCommands, PassToSink(c)
  PROVE  DemeineIInv'
<1>0. DemeineTypeOK
  BY DEF DemeineIInv, TurnsInv
<1>1. /\ result' \in [SunkCommands -> {"none", "sunk", "passed", "done", "failed"}]
      /\ result[c] = "sunk" /\ result'[c] = "passed"
      /\ \A d \in SunkCommands \ {c} : result'[d] = result[d]
      /\ UNCHANGED <<commandQueue, running, input, aggregate, read, sunk, cleared>>
  BY <1>0 DEF PassToSink, DemeineTypeOK
<1>2. \A d \in SunkCommands : /\ CommandSettled(d)' <=> CommandSettled(d)
                              /\ result'[d] # "none" <=> result[d] # "none"
                              /\ result'[d] = "done" <=> result[d] = "done"
  BY <1>1 DEF CommandSettled
<1>3. DemeineTypeOK'
  BY <1>0, <1>1 DEF DemeineTypeOK
<1>4. QueueIsTheRest' /\ SunkOnce'
  BY <1>1, <1>2 DEF DemeineIInv, TurnsInv, QueueIsTheRest, SettledCount, InHand, SunkOnce
<1>5. SettledAreFirst'
  <2>1. \A i \in 1..Len(sunk) : sunk[i] \in SunkCommands
    BY <1>0 DEF DemeineTypeOK
  <2> QED
    BY <2>1, <1>1, <1>2 DEF DemeineIInv, TurnsInv, SettledAreFirst, SettledCount, InHand,
                            CommandSettled
<1>6. StateIsInOrder'
  <2>1. \A i \in 1..Len(aggregate.state) : aggregate.state[i][1] \in SunkCommands
    <3>1. aggregate.state \in Seq(DemeineEvents)
      BY <1>0 DEF DemeineTypeOK
    <3> QED
      BY <3>1 DEF DemeineEvents
  <2>2. aggregate' = aggregate /\ sunk' = sunk
    BY <1>1
  <2>3. StateIsInOrder
    BY DEF DemeineIInv
  <2> DEFINE Ordered(st, sk) ==
        \A i, j \in 1..Len(st), p, q \in 1..Len(sk) :
          /\ i < j
          /\ sk[p] = st[i][1] /\ sk[q] = st[j][1]
          => p < q \/ (p = q /\ st[i][2] < st[j][2])
  <2>5. /\ \A i \in 1..Len(aggregate.state) : CommandSettled(aggregate.state[i][1])
        /\ Ordered(aggregate.state, sunk)
    BY ONLY <2>3, Zenon DEF StateIsInOrder
  <2>4. \A i \in 1..Len(aggregate.state) : CommandSettled(aggregate.state[i][1])'
    <3> SUFFICES ASSUME NEW i \in 1..Len(aggregate.state) PROVE CommandSettled(aggregate.state[i][1])'
      OBVIOUS
    <3>1. CommandSettled(aggregate.state[i][1])
      BY <2>5
    <3>2. PICK d \in SunkCommands : d = aggregate.state[i][1]
      BY <2>1
    <3>3. CommandSettled(d)'
      BY <3>1, <3>2, <1>2
    <3> QED
      BY <3>2, <3>3, <2>2 DEF CommandSettled
  <2> QED
    <3>1. (\A i \in 1..Len(aggregate.state) : CommandSettled(aggregate.state[i][1]))'
      BY ONLY <2>2, <2>4 DEF CommandSettled
    <3>2. Ordered(aggregate'.state, sunk')
      <4> HIDE DEF Ordered
      <4> QED
        BY ONLY <2>2, <2>5
    <3> QED
      BY ONLY <3>1, <3>2, Zenon DEF StateIsInOrder
<1>7. PendingAreKept'
  <2>1. \A d \in cleared : d \in SunkCommands
    BY <1>0 DEF DemeineTypeOK
  <2> QED
    <3>1. \A d \in SunkCommands : EventsAreIn(d, aggregate.uncommitted)' <=> EventsAreIn(d, aggregate.uncommitted)
      BY <1>1 DEF EventsAreIn
    <3>2. PendingAreKept /\ cleared' = cleared
      BY <1>1 DEF DemeineIInv
    <3> QED
      BY <2>1, <3>1, <3>2, <1>2 DEF PendingAreKept
<1>8. ReadsHold'
  <2>1. \A r \in Readers : \A d \in read[r].before : d \in SunkCommands
    BY <1>0 DEF DemeineTypeOK
  <2> QED
    BY <2>1, <1>1, <1>2 DEF DemeineIInv, ReadsHold, EventsAreIn, CommandSettled
<1> QED
  BY <1>3, <1>4, <1>5, <1>6, <1>7, <1>8 DEF DemeineIInv, TurnsInv

LEMMA CommandStep ==
  ASSUME DemeineIInv, NEW c \in SunkCommands, Refuse(c) \/ ProcessCommand(c) \/ SinkAnswers(c)
  PROVE  DemeineIInv'
<1>0. DemeineTypeOK
  BY DEF DemeineIInv, TurnsInv
<1>1. CASE Refuse(c) \/ SinkAnswers(c)
  <2>1. /\ running = c /\ result[c] \in {"sunk", "passed"} /\ Settles(c, "failed")
        /\ aggregate' = AppliedBy(c, 0) /\ cleared' = cleared
    BY <1>0, <1>1, NothingApplied DEF Refuse, SinkAnswers
  <2> QED
    BY <2>1, SettledWithEvents
<1>2. CASE ProcessCommand(c)
  <2>0. running = c /\ result[c] \in {"sunk", "passed"}
    BY <1>2 DEF ProcessCommand
  <2>1. CASE Processed(c)
    <3>1. EventsDecided[c] \in Nat
      BY DemeineAssumption
    <3> QED
      BY <2>0, <2>1, <3>1, SettledWithEvents DEF Processed
  <2>2. ASSUME NEW count \in 0..1, Throws(c, count)
        PROVE  DemeineIInv'
    BY <2>0, <2>2, SettledWithEvents DEF Throws
  <2>3. ASSUME NEW count \in 0..1, ThrowsOperational(c, count)
        PROVE  DemeineIInv'
    BY <2>0, <2>3, SettledWithEvents DEF ThrowsOperational
  <2> QED
    BY <1>2, <2>1, <2>2, <2>3 DEF ProcessCommand
<1> QED
  BY <1>1, <1>2

\* A reader's step leaves the queue and the results alone.
LEMMA ReaderKeepsTurns ==
  ASSUME DemeineIInv, UNCHANGED <<commandQueue, running, input, result, sunk>>,
         aggregate'.state = aggregate.state,
         aggregate' \in [state : Seq(DemeineEvents), version : Nat, uncommitted : Seq(DemeineEvents)],
         read' \in [Readers -> [phase : {"new", "waiting", "idle", "done", "cleared"},
                                before : SUBSET SunkCommands, events : Seq(DemeineEvents)]],
         cleared' \in SUBSET SunkCommands
  PROVE  TurnsInv' /\ StateIsInOrder'
BY DEF DemeineIInv, TurnsInv, DemeineTypeOK, QueueIsTheRest, SettledCount, InHand, SunkOnce,
       SettledAreFirst, CommandSettled, StateIsInOrder

LEMMA ReadStep ==
  ASSUME DemeineIInv, NEW r \in Readers,
         ReadUncommittedAsync(r) \/ ReadFindsIdle(r) \/ ReadReturns(r)
  PROVE  DemeineIInv'
<1> DEFINE ReadType == [phase : {"new", "waiting", "idle", "done", "cleared"},
                        before : SUBSET SunkCommands, events : Seq(DemeineEvents)]
<1>0. DemeineTypeOK /\ read \in [Readers -> ReadType]
  BY DEF DemeineIInv, TurnsInv, DemeineTypeOK
<1>1. UNCHANGED <<commandQueue, running, input, result, aggregate, sunk, cleared>>
  BY DEF ReadUncommittedAsync, ReadFindsIdle, ReadReturns
<1> SUFFICES ASSUME NEW x \in ReadType, read' = [read EXCEPT ![r] = x],
                    \A c \in x.before : result[c] # "none",
                    x.phase \in {"idle", "done"} => \A c \in x.before : CommandSettled(c),
                    x.phase = "done" => \A c \in x.before :
                      result[c] = "done" /\ c \notin cleared => EventsAreIn(c, x.events)
             PROVE  DemeineIInv'
  <2>1. CASE ReadUncommittedAsync(r)
    <3> DEFINE x == [read[r] EXCEPT !.phase = "waiting", !.before = ToSet(sunk)]
    <3>1. ToSet(sunk) \in SUBSET SunkCommands /\ \A c \in ToSet(sunk) : result[c] # "none"
      BY SMTT(60), <1>0 DEF DemeineTypeOK, DemeineIInv, TurnsInv, SunkOnce, ToSet
    <3>2. x \in ReadType /\ x.phase = "waiting" /\ x.before = ToSet(sunk)
      BY <1>0, <3>1
    <3>3. read' = [read EXCEPT ![r] = x]
      BY <2>1, <1>0 DEF ReadUncommittedAsync
    <3> HIDE DEF x
    <3> QED
      BY <3>1, <3>2, <3>3
  <2>2. CASE ReadFindsIdle(r)
    <3> DEFINE x == [read[r] EXCEPT !.phase = "idle"]
    <3>1. x \in ReadType /\ x.phase = "idle" /\ x.before = read[r].before
      BY <1>0
    <3>2. read' = [read EXCEPT ![r] = x]
      BY <2>2, <1>0 DEF ReadFindsIdle
    <3>3. \A c \in read[r].before : result[c] # "none" /\ c \in SunkCommands
      BY <1>0 DEF DemeineIInv, ReadsHold
    <3>4. SettledCount = Len(sunk) /\ Len(sunk) \in Nat
      BY <2>2, <1>0 DEF ReadFindsIdle, Idle, SettledCount, InHand, DemeineTypeOK
    <3>5. \A i \in 1..Len(sunk) : CommandSettled(sunk[i])
      BY <3>4 DEF DemeineIInv, TurnsInv, SettledAreFirst
    <3>6. \A c \in read[r].before : CommandSettled(c)
      BY <3>3, <3>5 DEF DemeineIInv, TurnsInv, SunkOnce
    <3> HIDE DEF x
    <3> QED
      BY <3>1, <3>2, <3>3, <3>6
  <2>3. CASE ReadReturns(r) /\ commandQueue # <<>>
    <3> DEFINE x == [read[r] EXCEPT !.phase = "waiting"]
    <3>1. x \in ReadType /\ x.phase = "waiting" /\ x.before = read[r].before
      BY <1>0
    <3>2. read' = [read EXCEPT ![r] = x]
      BY <2>3, <1>0 DEF ReadReturns
    <3>3. \A c \in read[r].before : result[c] # "none"
      BY DEF DemeineIInv, ReadsHold
    <3> HIDE DEF x
    <3> QED
      BY <3>1, <3>2, <3>3
  <2>4. CASE ReadReturns(r) /\ commandQueue = <<>>
    <3> DEFINE x == [read[r] EXCEPT !.phase = "done", !.events = aggregate.uncommitted]
    <3>0. aggregate.uncommitted \in Seq(DemeineEvents)
      BY <1>0 DEF DemeineTypeOK
    <3>1. /\ x \in ReadType /\ x.phase = "done" /\ x.before = read[r].before
          /\ x.events = aggregate.uncommitted
      BY <1>0, <3>0
    <3>2. read' = [read EXCEPT ![r] = x] /\ read[r].phase = "idle"
      BY <2>4, <1>0 DEF ReadReturns
    <3>3. \A c \in read[r].before : result[c] # "none" /\ CommandSettled(c) /\ c \in SunkCommands
      BY <1>0, <3>2 DEF DemeineIInv, ReadsHold
    <3>4. \A c \in read[r].before :
            result[c] = "done" /\ c \notin cleared => EventsAreIn(c, aggregate.uncommitted)
      BY <3>3 DEF DemeineIInv, PendingAreKept
    <3> HIDE DEF x
    <3> QED
      BY <3>1, <3>2, <3>3, <3>4
  <2> QED
    BY <2>1, <2>2, <2>3, <2>4
<1>2. read' \in [Readers -> ReadType] /\ read'[r] = x /\ \A o \in Readers \ {r} : read'[o] = read[o]
  BY <1>0
<1> HIDE DEF ReadType
<1>3. ReadsHold'
  <2> SUFFICES ASSUME NEW o \in Readers
      PROVE /\ \A c \in read'[o].before : result[c] # "none"
            /\ read'[o].phase \in {"idle", "done"} => \A c \in read'[o].before : CommandSettled(c)
            /\ read'[o].phase = "done" => \A c \in read'[o].before :
                 result[c] = "done" /\ c \notin cleared => EventsAreIn(c, read'[o].events)
    BY <1>1 DEF ReadsHold, CommandSettled, EventsAreIn
  <2>1. CASE o = r
    BY <2>1, <1>2
  <2>2. CASE o # r
    BY <2>2, <1>2 DEF DemeineIInv, ReadsHold
  <2> QED
    BY <2>1, <2>2
<1>4. PendingAreKept'
  BY <1>1 DEF DemeineIInv, PendingAreKept, EventsAreIn, CommandSettled
<1>5. TurnsInv' /\ StateIsInOrder'
  <2>1. /\ aggregate' \in [state : Seq(DemeineEvents), version : Nat,
                           uncommitted : Seq(DemeineEvents)]
        /\ cleared' \in SUBSET SunkCommands
    BY <1>0, <1>1 DEF DemeineTypeOK
  <2> QED
    BY <2>1, <1>1, <1>2, ReaderKeepsTurns DEF ReadType
<1> QED
  BY <1>3, <1>4, <1>5 DEF DemeineIInv

LEMMA ClearStep ==
  ASSUME DemeineIInv, NEW r \in Readers, ClearUncommittedEvents(r)
  PROVE  DemeineIInv'
<1> DEFINE ReadType == [phase : {"new", "waiting", "idle", "done", "cleared"},
                        before : SUBSET SunkCommands, events : Seq(DemeineEvents)]
<1>0. DemeineTypeOK /\ read \in [Readers -> ReadType]
  BY DEF DemeineIInv, TurnsInv, DemeineTypeOK
<1>1. /\ UNCHANGED <<commandQueue, running, input, result, sunk>>
      /\ cleared' = {d \in SunkCommands : CommandSettled(d)}
  BY DEF ClearUncommittedEvents
<1>2. /\ aggregate'.state = aggregate.state
      /\ aggregate' \in [state : Seq(DemeineEvents), version : Nat, uncommitted : Seq(DemeineEvents)]
  <2>1. <<>> \in Seq(DemeineEvents)
    OBVIOUS
  <2> QED
    BY <2>1, <1>0 DEF ClearUncommittedEvents, DemeineTypeOK
<1>3. /\ read' \in [Readers -> ReadType]
      /\ read'[r].phase = "cleared" /\ read'[r].before = read[r].before
      /\ \A o \in Readers \ {r} : read'[o] = read[o]
  BY <1>0 DEF ClearUncommittedEvents
<1>4. cleared' \in SUBSET SunkCommands /\ cleared \subseteq cleared'
  BY <1>0, <1>1 DEF DemeineIInv, PendingAreKept, DemeineTypeOK
<1>5. TurnsInv' /\ StateIsInOrder'
  BY <1>1, <1>2, <1>3, <1>4, ReaderKeepsTurns
<1> HIDE DEF ReadType
<1>6. PendingAreKept'
  BY <1>1 DEF PendingAreKept, CommandSettled
<1>7. ReadsHold'
  <2> SUFFICES ASSUME NEW o \in Readers
      PROVE /\ \A c \in read'[o].before : result[c] # "none"
            /\ read'[o].phase \in {"idle", "done"} => \A c \in read'[o].before : CommandSettled(c)
            /\ read'[o].phase = "done" => \A c \in read'[o].before :
                 result[c] = "done" /\ c \notin cleared' => EventsAreIn(c, read'[o].events)
    BY <1>1 DEF ReadsHold, CommandSettled, EventsAreIn
  <2>1. CASE o = r
    BY <2>1, <1>3 DEF DemeineIInv, ReadsHold
  <2>2. CASE o # r
    BY <2>2, <1>3, <1>4 DEF DemeineIInv, ReadsHold
  <2> QED
    BY <2>1, <2>2
<1> QED
  BY <1>5, <1>6, <1>7 DEF DemeineIInv

LEMMA DemeineStepInv == DemeineIInv /\ [DemeineNext]_demeineVars => DemeineIInv'
<1> SUFFICES ASSUME DemeineIInv, [DemeineNext]_demeineVars PROVE DemeineIInv'
  OBVIOUS
<1>1. ASSUME NEW c \in SunkCommands, Sink(c) PROVE DemeineIInv'
  BY <1>1, SinkStep
<1>2. ASSUME NEW c \in SunkCommands, NEW how \in {"ready", "bad"}, InputSettles(c, how)
      PROVE  DemeineIInv'
  BY <1>2, InputStep
<1>3. ASSUME NEW c \in SunkCommands, PassToSink(c) PROVE DemeineIInv'
  BY <1>3, PassStep
<1>4. ASSUME NEW c \in SunkCommands, Refuse(c) \/ ProcessCommand(c) \/ SinkAnswers(c)
      PROVE  DemeineIInv'
  BY <1>4, CommandStep
<1>5. ASSUME NEW r \in Readers, ReadUncommittedAsync(r) \/ ReadFindsIdle(r) \/ ReadReturns(r)
      PROVE  DemeineIInv'
  BY <1>5, ReadStep
<1>6. ASSUME NEW r \in Readers, ClearUncommittedEvents(r) PROVE DemeineIInv'
  BY <1>6, ClearStep
<1>7. CASE UNCHANGED demeineVars
  BY SMTT(60), <1>7 DEF demeineVars, DemeineIInv, TurnsInv, DemeineTypeOK, QueueIsTheRest, SettledCount,
              InHand, SunkOnce, SettledAreFirst, CommandSettled, StateIsInOrder, PendingAreKept,
              EventsAreIn, ReadsHold
<1> QED
  BY <1>1, <1>2, <1>3, <1>4, <1>5, <1>6, <1>7 DEF DemeineNext

-----------------------------------------------------------------------------
LEMMA TurnsAreTaken == DemeineIInv => CommandsTakeTurns
<1> SUFFICES ASSUME DemeineIInv PROVE CommandsTakeTurns
  OBVIOUS
<1> DEFINE order(c) == CHOOSE i \in DOMAIN sunk : sunk[i] = c
           state == aggregate.state
<1>0. DemeineTypeOK /\ SunkOnce /\ SettledAreFirst /\ StateIsInOrder /\ ReadsHold
  BY DEF DemeineIInv, TurnsInv
<1>1. /\ DOMAIN sunk = 1..Len(sunk) /\ Len(sunk) \in Nat
      /\ state \in Seq(DemeineEvents) /\ DOMAIN state = 1..Len(state)
  BY <1>0 DEF DemeineTypeOK
<1>2. \A i, j \in DOMAIN sunk : i < j /\ CommandSettled(sunk[j]) => CommandSettled(sunk[i])
  <2>1. SettledCount \in Nat
    BY DEF DemeineIInv, TurnsInv, QueueIsTheRest
  <2> QED
    BY <2>1, <1>0, <1>1 DEF SettledAreFirst
<1>3. ASSUME NEW i \in DOMAIN state
      PROVE  order(state[i][1]) \in DOMAIN sunk /\ sunk[order(state[i][1])] = state[i][1]
  <2>1. state[i][1] \in SunkCommands /\ CommandSettled(state[i][1])
    BY <1>0, <1>1 DEF DemeineEvents, StateIsInOrder
  <2>2. \E p \in DOMAIN sunk : sunk[p] = state[i][1]
    BY <2>1, <1>0, <1>1 DEF SunkOnce, CommandSettled
  <2> QED
    BY <2>2
<1> HIDE DEF order
<1>4. \A i, j \in DOMAIN state : i < j =>
        \/ order(state[i][1]) < order(state[j][1])
        \/ state[i][1] = state[j][1] /\ state[i][2] < state[j][2]
  <2> SUFFICES ASSUME NEW i \in DOMAIN state, NEW j \in DOMAIN state, i < j
               PROVE  \/ order(state[i][1]) < order(state[j][1])
                      \/ state[i][1] = state[j][1] /\ state[i][2] < state[j][2]
    OBVIOUS
  <2>1. PICK p \in 1..Len(sunk) : p = order(state[i][1]) /\ sunk[p] = state[i][1]
    BY <1>1, <1>3
  <2>2. PICK q \in 1..Len(sunk) : q = order(state[j][1]) /\ sunk[q] = state[j][1]
    BY <1>1, <1>3
  <2>3. p < q \/ (p = q /\ state[i][2] < state[j][2])
    BY <2>1, <2>2, <1>0, <1>1 DEF StateIsInOrder
  <2> QED
    BY <2>1, <2>2, <2>3
<1>5. \A r \in Readers : read[r].phase = "done" =>
        \A c \in read[r].before :
          /\ CommandSettled(c)
          /\ result[c] = "done" /\ c \notin cleared =>
               \A k \in 1..EventsDecided[c] : <<c, k>> \in ToSet(read[r].events)
  BY <1>0 DEF ReadsHold, EventsAreIn
<1> QED
  BY <1>2, <1>4, <1>5 DEF CommandsTakeTurns, order, state

(* The commands of an aggregate of the Demeine bridge take effect one at a   *)
(* time in the order of their _sink() calls, whatever their inputs do and    *)
(* whichever fail, and getUncommittedEventsAsync() returns with every event  *)
(* of the commands sunk before it that nothing cleared: for any number of    *)
(* commands, callers and events (packages/demeine-interop, _sink and         *)
(* getUncommittedEventsAsync).                                               *)
THEOREM CommandsAreInTurn == DemeineSpec => []CommandsTakeTurns
<1>1. DemeineSpec => []DemeineIInv
  BY DemeineInitInv, DemeineStepInv, PTL DEF DemeineSpec
<1> QED
  BY <1>1, TurnsAreTaken, PTL

-----------------------------------------------------------------------------
(* The inductive invariant of the saves, over the stream st and the          *)
(* commands cmd.                                                            *)

EventIds == Dispatched \X Nat
DepotEvents == [id : EventIds, base : Seq(EventIds), clean : BOOLEAN]
MirageCores == [live : BOOLEAN, state : Seq(EventIds), version : Nat,
                pending : Seq(DepotEvents), overlapped : BOOLEAN]
CommandStates ==
  {cmd \in [Dispatched -> [phase : {"new", "before", "done", "failed"}, on : Mirages \cup {0}]] :
     \A c \in Dispatched : cmd[c].phase # "new" => cmd[c].on \in Mirages}
SaveStates == [phase : {"new", "prepare", "append", "stored", "ended"},
               on : Mirages \cup {0}, events : Seq(DepotEvents), expected : Nat]

DepotTypeOK ==
  /\ stream \in Seq(DepotEvents)
  /\ mirage \in [Mirages -> MirageCores]
  /\ command \in CommandStates
  /\ save \in [SaveCalls -> SaveStates]
  /\ handed \in Seq(EventIds)
  /\ depotFaults \in Nat

Active(w) == w.phase \in {"prepare", "append", "stored"}
Unsent(w) == w.phase \in {"prepare", "append"}
Baseline(x) == x.version - Len(x.pending)
Decided(cmd, id) == cmd[id[1]].phase \in {"done", "failed"}

\* The base of the event at k, were the events to follow n events of the stream.
RestsOn(st, base, n, events, k) ==
  /\ n <= Len(st) /\ Len(base) <= n + k - 1
  /\ \A i \in 1..Len(base) : base[i] = IF i <= n THEN st[i].id ELSE events[i - n].id

\* Events decided on m, each once; none is stored unless more than n are.
EventsHold(st, cmd, m, n, events) ==
  /\ \A k \in 1..Len(events) :
       /\ Decided(cmd, events[k].id) /\ cmd[events[k].id[1]].on = m
       /\ events[k].clean => RestsOn(st, events[k].base, n, events, k)
       /\ \A j \in 1..Len(st) : events[k].id = st[j].id => n < Len(st)
  /\ \A k, l \in 1..Len(events) : events[k].id = events[l].id => k = l

StreamHolds(st, cmd) == \A i \in 1..Len(st) :
  /\ Decided(cmd, st[i].id)
  /\ st[i].clean => /\ Len(st[i].base) <= i - 1
                    /\ \A k \in 1..Len(st[i].base) : st[i].base[k] = st[k].id

\* The state of an instance, from the stream and its pending events.
StateHolds(st, x) ==
  /\ Baseline(x) <= Len(st) /\ Len(x.state) = x.version
  /\ \A i \in 1..Len(x.state) :
       x.state[i] = IF i <= Baseline(x) THEN st[i].id ELSE x.pending[i - Baseline(x)].id

MirageHolds(st, cmd, m, x) ==
  /\ Len(x.pending) <= x.version
  /\ ~x.overlapped => StateHolds(st, x)
  /\ EventsHold(st, cmd, m, Baseline(x), x.pending)

\* What a save has stored is at its place in the stream.
StoredAt(st, w) ==
  /\ w.expected + Len(w.events) <= Len(st)
  /\ \A k \in 1..Len(w.events) : st[w.expected + k] = w.events[k]

\* A save covers what is pending, or finds that another save stored it.
SaveCovers(st, w, x) ==
  /\ x.live
  /\ ~x.overlapped =>
       /\ w.expected + Len(w.events) = x.version
       /\ x.pending = w.events \/ (x.pending = <<>> /\ x.version <= Len(st))

SaveHolds(st, cmd, w, x) ==
  /\ w.on \in Mirages /\ SaveCovers(st, w, x)
  /\ Unsent(w) => EventsHold(st, cmd, w.on, w.expected, w.events)
  /\ w.phase = "stored" =>
       /\ StoredAt(st, w)
       /\ \A k, l \in 1..Len(w.events) : w.events[k].id = w.events[l].id => k = l

Shares(events, others) ==
  \E i \in 1..Len(events), k \in 1..Len(others) : events[i].id = others[k].id

\* Saves of the same events expect the same stream, as does their instance.
SavesAgree ==
  /\ \A s \in SaveCalls, m \in Mirages :
       Unsent(save[s]) /\ Shares(save[s].events, mirage[m].pending)
       => save[s].expected = Baseline(mirage[m])
  /\ \A s, t \in SaveCalls :
       Unsent(save[s]) /\ Unsent(save[t]) /\ Shares(save[s].events, save[t].events)
       => save[s].expected = save[t].expected

\* What is handed on was stored, and is handed on once.
HandedOnce ==
  /\ \A i, j \in 1..Len(handed) : handed[i] = handed[j] => i = j
  /\ \A i \in 1..Len(handed) : \E j \in 1..Len(stream) : stream[j].id = handed[i]

\* What a save has to hand on, none has handed on and no other will.
StoredApart == \A s \in SaveCalls : save[s].phase = "stored" =>
  /\ \A i \in 1..Len(handed), k \in 1..Len(save[s].events) : handed[i] # save[s].events[k].id
  /\ \A t \in SaveCalls : save[t].phase = "stored" /\ t # s =>
       ~Shares(save[s].events, save[t].events)

NoneForgotten == depotFaults = 0 => \A j \in 1..Len(stream) :
  \/ \E i \in 1..Len(handed) : handed[i] = stream[j].id
  \/ \E s \in SaveCalls : /\ save[s].phase = "stored"
                          /\ \E k \in 1..Len(save[s].events) : save[s].events[k].id = stream[j].id

HandedHolds == HandedOnce /\ StoredApart /\ NoneForgotten

DepotIInv ==
  /\ DepotTypeOK
  /\ StreamHolds(stream, command)
  /\ \A m \in Mirages : MirageHolds(stream, command, m, mirage[m])
  /\ \A s \in SaveCalls : Active(save[s]) =>
       SaveHolds(stream, command, save[s], mirage[save[s].on])
  /\ SavesAgree /\ HandedHolds

-----------------------------------------------------------------------------
(* What grows with the stream and with the commands.                        *)

LEMMA AppendedStream ==
  ASSUME NEW st \in Seq(DepotEvents), NEW ev \in Seq(DepotEvents)
  PROVE  /\ st \o ev \in Seq(DepotEvents) /\ Len(st \o ev) = Len(st) + Len(ev)
         /\ \A i \in 1..Len(st) : (st \o ev)[i] = st[i]
         /\ \A k \in 1..Len(ev) : (st \o ev)[Len(st) + k] = ev[k]
         /\ \A j \in 1..Len(st \o ev) : j \in 1..Len(st) \/ \E k \in 1..Len(ev) :
              j = Len(st) + k /\ (st \o ev)[j] = ev[k]
<1>1. /\ st \o ev \in Seq(DepotEvents) /\ Len(st \o ev) = Len(st) + Len(ev)
      /\ \A i \in 1..Len(st) + Len(ev) : (st \o ev)[i] = IF i <= Len(st) THEN st[i] ELSE ev[i - Len(st)]
  BY ConcatProperties
<1>2. Len(st) \in Nat /\ Len(ev) \in Nat
  OBVIOUS
<1> DEFINE t == st \o ev
<1> HIDE DEF t
<1>3. \A i \in 1..Len(st) : t[i] = st[i]
  BY <1>1, <1>2 DEF t
<1>4. \A k \in 1..Len(ev) : t[Len(st) + k] = ev[k]
  <2> TAKE k \in 1..Len(ev)
  <2>1. /\ Len(st) + k \in 1..Len(st) + Len(ev) /\ ~(Len(st) + k <= Len(st))
        /\ (Len(st) + k) - Len(st) = k
    BY <1>2
  <2> QED
    BY <2>1, <1>1 DEF t
<1>5. ASSUME NEW j \in 1..Len(t), j \notin 1..Len(st)
      PROVE  \E k \in 1..Len(ev) : j = Len(st) + k /\ t[j] = ev[k]
  <2>1. j - Len(st) \in 1..Len(ev) /\ j = Len(st) + (j - Len(st))
    BY <1>1, <1>2, <1>5 DEF t
  <2> QED
    BY <2>1, <1>4
<1> QED
  BY <1>1, <1>3, <1>4, <1>5 DEF t

LEMMA RestsOnGrows ==
  ASSUME NEW st \in Seq(DepotEvents), NEW ev \in Seq(DepotEvents), NEW base \in Seq(EventIds),
         NEW n \in Nat, NEW events \in Seq(DepotEvents), NEW k \in Nat,
         RestsOn(st, base, n, events, k)
  PROVE  RestsOn(st \o ev, base, n, events, k)
<1>1. /\ Len(st \o ev) = Len(st) + Len(ev) /\ Len(st) \in Nat /\ Len(ev) \in Nat
      /\ \A i \in 1..Len(st) : (st \o ev)[i] = st[i]
  BY AppendedStream
<1> DEFINE t == st \o ev
<1> HIDE DEF t
<1>2. n <= Len(t) /\ Len(base) <= n + k - 1
  BY <1>1 DEF RestsOn, t
<1>3. ASSUME NEW i \in 1..Len(base)
      PROVE  base[i] = IF i <= n THEN t[i].id ELSE events[i - n].id
  <2>1. base[i] = IF i <= n THEN st[i].id ELSE events[i - n].id
    BY DEF RestsOn
  <2>2. i <= n => t[i] = st[i]
    BY <1>1 DEF RestsOn, t
  <2> QED
    BY <2>1, <2>2
<1> QED
  BY <1>2, <1>3 DEF RestsOn, t

LEMMA EventsHoldGrows ==
  ASSUME NEW st \in Seq(DepotEvents), NEW ev \in Seq(DepotEvents), NEW cmd, NEW m,
         NEW n \in Nat, NEW events \in Seq(DepotEvents),
         EventsHold(st, cmd, m, n, events),
         Shares(events, ev) => n = Len(st)
  PROVE  EventsHold(st \o ev, cmd, m, n, events)
<1>1. /\ Len(st \o ev) = Len(st) + Len(ev) /\ Len(st) \in Nat /\ Len(ev) \in Nat
      /\ \A i \in 1..Len(st) : (st \o ev)[i] = st[i]
      /\ \A j \in 1..Len(st \o ev) : j \in 1..Len(st) \/ \E k \in 1..Len(ev) :
           j = Len(st) + k /\ (st \o ev)[j] = ev[k]
  <2>1. Len(st) \in Nat /\ Len(ev) \in Nat
    OBVIOUS
  <2> QED
    BY <2>1, AppendedStream, ZenonT(30)
<1>2. ASSUME NEW k \in 1..Len(events) PROVE events[k].base \in Seq(EventIds)
  <2>1. events[k] \in DepotEvents
    OBVIOUS
  <2> QED
    BY <2>1 DEF DepotEvents
<1>3. \A k \in 1..Len(events) : events[k].clean => RestsOn(st \o ev, events[k].base, n, events, k)
  BY <1>2, RestsOnGrows DEF EventsHold
<1> DEFINE t == st \o ev
<1> HIDE DEF t
<1>4. ASSUME NEW k \in 1..Len(events), NEW j \in 1..Len(t), events[k].id = t[j].id
      PROVE  n < Len(t)
  <2>1. CASE j \in 1..Len(st)
    <3>1. events[k].id = st[j].id
      BY <2>1, <1>1, <1>4 DEF t
    <3>2. n < Len(st)
      BY <3>1, <2>1 DEF EventsHold
    <3> QED
      BY <3>2, <1>1 DEF t
  <2>2. CASE j \notin 1..Len(st)
    <3>1. PICK l \in 1..Len(ev) : t[j] = ev[l]
      BY <2>2, <1>1 DEF t
    <3>2. n = Len(st)
      BY <3>1, <1>4 DEF Shares
    <3> QED
      BY <3>1, <3>2, <1>1 DEF t
  <2> QED
    BY <2>1, <2>2
<1> QED
  BY <1>3, <1>4 DEF EventsHold, t

LEMMA StateHoldsGrows ==
  ASSUME NEW st \in Seq(DepotEvents), NEW ev \in Seq(DepotEvents), NEW x \in MirageCores,
         Len(x.pending) <= x.version, StateHolds(st, x)
  PROVE  StateHolds(st \o ev, x)
<1>1. /\ Len(st \o ev) = Len(st) + Len(ev) /\ Len(st) \in Nat /\ Len(ev) \in Nat
      /\ \A i \in 1..Len(st) : (st \o ev)[i] = st[i]
  BY AppendedStream
<1> DEFINE t == st \o ev
           n == Baseline(x)
<1>2. n \in Nat
  BY DEF Baseline, MirageCores
<1> HIDE DEF t, n
<1>3. /\ n <= Len(st) /\ Len(x.state) = x.version
      /\ \A i \in 1..Len(x.state) : x.state[i] = IF i <= n THEN st[i].id ELSE x.pending[i - n].id
  BY DEF StateHolds, n
<1>4. n <= Len(t) /\ \A i \in 1..Len(st) : t[i] = st[i]
  BY <1>1, <1>2, <1>3 DEF t
<1>5. \A i \in 1..Len(x.state) : x.state[i] = IF i <= n THEN t[i].id ELSE x.pending[i - n].id
  BY <1>1, <1>2, <1>3, <1>4
<1> QED
  BY <1>3, <1>4, <1>5 DEF StateHolds, t, n

LEMMA MirageHoldsGrows ==
  ASSUME NEW st \in Seq(DepotEvents), NEW ev \in Seq(DepotEvents), NEW cmd, NEW m,
         NEW x \in MirageCores, MirageHolds(st, cmd, m, x),
         Shares(x.pending, ev) => Baseline(x) = Len(st)
  PROVE  MirageHolds(st \o ev, cmd, m, x)
<1>1. Baseline(x) \in Nat /\ x.pending \in Seq(DepotEvents) /\ Len(x.pending) <= x.version
  BY DEF MirageHolds, Baseline, MirageCores
<1>2. EventsHold(st \o ev, cmd, m, Baseline(x), x.pending)
  BY <1>1, EventsHoldGrows DEF MirageHolds
<1>3. ~x.overlapped => StateHolds(st \o ev, x)
  BY <1>1, StateHoldsGrows DEF MirageHolds
<1> QED
  BY <1>1, <1>2, <1>3 DEF MirageHolds

LEMMA SaveHoldsGrows ==
  ASSUME NEW st \in Seq(DepotEvents), NEW ev \in Seq(DepotEvents), NEW cmd,
         NEW w \in SaveStates, NEW x \in MirageCores, SaveHolds(st, cmd, w, x),
         Unsent(w) /\ Shares(w.events, ev) => w.expected = Len(st)
  PROVE  SaveHolds(st \o ev, cmd, w, x)
<1>1. /\ Len(st \o ev) = Len(st) + Len(ev) /\ Len(st) \in Nat /\ Len(ev) \in Nat
      /\ \A i \in 1..Len(st) : (st \o ev)[i] = st[i]
  BY AppendedStream
<1>2. w.expected \in Nat /\ w.events \in Seq(DepotEvents) /\ x.version \in Nat
  BY DEF SaveStates, MirageCores
<1>3. Unsent(w) => EventsHold(st \o ev, cmd, w.on, w.expected, w.events)
  BY <1>2, EventsHoldGrows DEF SaveHolds
<1>4. SaveCovers(st \o ev, w, x)
  BY <1>1, <1>2 DEF SaveHolds, SaveCovers
<1>5. w.phase = "stored" => StoredAt(st \o ev, w)
  <2> SUFFICES ASSUME w.phase = "stored" PROVE StoredAt(st \o ev, w)
    OBVIOUS
  <2>1. StoredAt(st, w)
    BY DEF SaveHolds
  <2> DEFINE t == st \o ev
  <2> HIDE DEF t
  <2>2. w.expected + Len(w.events) <= Len(t)
    BY <2>1, <1>1, <1>2 DEF StoredAt, t
  <2>3. ASSUME NEW k \in 1..Len(w.events) PROVE t[w.expected + k] = w.events[k]
    <3>1. w.expected + k \in 1..Len(st)
      BY <2>1, <1>1, <1>2 DEF StoredAt
    <3> QED
      BY <3>1, <2>1, <1>1 DEF StoredAt, t
  <2> QED
    BY <2>2, <2>3 DEF StoredAt, t
<1> QED
  BY <1>3, <1>4, <1>5 DEF SaveHolds

\* Commands that were decided stay so.
Moves(cmd, cmd2) == \A c \in Dispatched : cmd[c].phase \in {"done", "failed"} =>
  cmd2[c].phase \in {"done", "failed"} /\ cmd2[c].on = cmd[c].on

LEMMA CommandsMove ==
  ASSUME NEW st \in Seq(DepotEvents), NEW cmd, NEW cmd2, Moves(cmd, cmd2)
  PROVE  /\ StreamHolds(st, cmd) => StreamHolds(st, cmd2)
         /\ \A m : \A n \in Nat : \A events \in Seq(DepotEvents) :
              EventsHold(st, cmd, m, n, events) => EventsHold(st, cmd2, m, n, events)
         /\ \A m : \A x \in MirageCores :
              MirageHolds(st, cmd, m, x) => MirageHolds(st, cmd2, m, x)
         /\ \A w \in SaveStates : \A x \in MirageCores :
              SaveHolds(st, cmd, w, x) => SaveHolds(st, cmd2, w, x)
<1>1. ASSUME NEW events \in Seq(DepotEvents), NEW k \in 1..Len(events)
      PROVE  events[k].id[1] \in Dispatched
  <2>1. events[k] \in DepotEvents
    OBVIOUS
  <2> QED
    BY <2>1 DEF DepotEvents, EventIds
<1>2. StreamHolds(st, cmd) => StreamHolds(st, cmd2)
  BY <1>1 DEF StreamHolds, Decided, Moves
<1>3. \A m : \A n \in Nat : \A events \in Seq(DepotEvents) :
        EventsHold(st, cmd, m, n, events) => EventsHold(st, cmd2, m, n, events)
  BY <1>1 DEF EventsHold, Decided, Moves
<1>4. \A m : \A x \in MirageCores : MirageHolds(st, cmd, m, x) => MirageHolds(st, cmd2, m, x)
  <2> SUFFICES ASSUME NEW m, NEW x \in MirageCores, MirageHolds(st, cmd, m, x)
               PROVE  MirageHolds(st, cmd2, m, x)
    OBVIOUS
  <2>1. Baseline(x) \in Nat /\ x.pending \in Seq(DepotEvents)
    BY DEF MirageHolds, Baseline, MirageCores
  <2> QED
    BY <2>1, <1>3 DEF MirageHolds
<1>5. \A w \in SaveStates : \A x \in MirageCores :
        SaveHolds(st, cmd, w, x) => SaveHolds(st, cmd2, w, x)
  BY <1>3 DEF SaveHolds, SaveStates
<1> QED
  BY <1>2, <1>3, <1>4, <1>5

-----------------------------------------------------------------------------
(* The parts of the state that a step changes.                              *)

LEMMA IdsOf ==
  ASSUME NEW ev \in Seq(DepotEvents)
  PROVE  /\ Ids(ev) \in Seq(EventIds) /\ Len(Ids(ev)) = Len(ev)
         /\ \A i \in 1..Len(ev) : Ids(ev)[i] = ev[i].id
<1>1. \A i \in 1..Len(ev) : ev[i].id \in EventIds
  <2> TAKE i \in 1..Len(ev)
  <2>1. ev[i] \in DepotEvents
    OBVIOUS
  <2> QED
    BY <2>1 DEF DepotEvents
<1>2. Ids(ev) = [i \in 1..Len(ev) |-> ev[i].id] /\ Len(ev) \in Nat
  BY DEF Ids
<1> QED
  BY <1>1, <1>2

LEMMA DepotInitInv == DepotInit => DepotIInv
<1> SUFFICES ASSUME DepotInit PROVE DepotIInv
  OBVIOUS
<1> USE DEF DepotInit
<1>1. NotLoaded \in MirageCores /\ NotCalled \in SaveStates
  BY DEF NotLoaded, MirageCores, NotCalled, SaveStates
<1>2. DepotTypeOK
  BY <1>1 DEF DepotTypeOK, CommandStates
<1>3. StreamHolds(stream, command) /\ HandedHolds
  BY DEF StreamHolds, HandedHolds, HandedOnce, StoredApart, NoneForgotten, NotCalled
<1>4. \A m \in Mirages : MirageHolds(stream, command, m, mirage[m])
  BY DEF MirageHolds, NotLoaded, StateHolds, EventsHold, Baseline
<1>5. /\ \A s \in SaveCalls : ~Active(save[s]) /\ ~Unsent(save[s])
      /\ SavesAgree
  BY DEF Active, Unsent, SavesAgree, NotCalled
<1> QED
  BY <1>2, <1>3, <1>4, <1>5 DEF DepotIInv

LEMMA MirageChanges ==
  ASSUME DepotIInv, NEW m \in Mirages, NEW x \in MirageCores,
         mirage' = [mirage EXCEPT ![m] = x], UNCHANGED <<stream, save, handed, depotFaults>>,
         command' \in CommandStates, Moves(command, command'),
         MirageHolds(stream, command', m, x),
         \A s \in SaveCalls : Active(save[s]) /\ save[s].on = m => SaveCovers(stream, save[s], x),
         \A s \in SaveCalls : Unsent(save[s]) /\ Shares(save[s].events, x.pending)
           => save[s].expected = Baseline(x)
  PROVE  DepotIInv'
<1>0. DepotTypeOK
  BY DEF DepotIInv
<1>1. /\ mirage' \in [Mirages -> MirageCores] /\ mirage'[m] = x
      /\ \A o \in Mirages \ {m} : mirage'[o] = mirage[o]
      /\ \A o \in Mirages : mirage[o] \in MirageCores
      /\ \A s \in SaveCalls : save[s] \in SaveStates
  BY <1>0 DEF DepotTypeOK
<1>2. DepotTypeOK'
  BY <1>0, <1>1 DEF DepotTypeOK
<1>3. stream \in Seq(DepotEvents)
  BY <1>0 DEF DepotTypeOK
<1>4. StreamHolds(stream', command')
  BY <1>3, CommandsMove DEF DepotIInv
<1>5. \A o \in Mirages : MirageHolds(stream', command', o, mirage'[o])
  BY <1>1, <1>3, CommandsMove DEF DepotIInv
<1>6. ASSUME NEW s \in SaveCalls, Active(save[s])
      PROVE  SaveHolds(stream, command', save[s], mirage'[save[s].on])
  <2>1. SaveHolds(stream, command, save[s], mirage[save[s].on]) /\ save[s].on \in Mirages
    BY <1>6 DEF DepotIInv, SaveHolds
  <2>2. SaveHolds(stream, command', save[s], mirage[save[s].on])
    BY <2>1, <1>1, <1>3, CommandsMove
  <2>3. CASE save[s].on = m
    BY <2>2, <2>3, <1>1, <1>6 DEF SaveHolds
  <2>4. CASE save[s].on # m
    BY <2>1, <2>2, <2>4, <1>1
  <2> QED
    BY <2>3, <2>4
<1>7. SavesAgree'
  BY <1>1 DEF DepotIInv, SavesAgree
<1>8. HandedHolds'
  BY DEF DepotIInv, HandedHolds, HandedOnce, StoredApart, NoneForgotten
<1> QED
  BY <1>2, <1>4, <1>5, <1>6, <1>7, <1>8 DEF DepotIInv

LEMMA SaveChanges ==
  ASSUME DepotIInv, NEW s \in SaveCalls, NEW w \in SaveStates,
         save' = [save EXCEPT ![s] = w], UNCHANGED <<stream, mirage, command, handed>>,
         depotFaults' \in Nat, depotFaults' = 0 => depotFaults = 0,
         save[s].phase # "stored", w.phase # "stored",
         Unsent(w) =>
           /\ SaveHolds(stream, command, w, mirage[w.on])
           /\ \A m \in Mirages : Shares(w.events, mirage[m].pending) => w.expected = Baseline(mirage[m])
           /\ \A t \in SaveCalls \ {s} : Unsent(save[t]) /\ Shares(w.events, save[t].events)
                => w.expected = save[t].expected
  PROVE  DepotIInv'
<1>0. DepotTypeOK
  BY DEF DepotIInv
<1>1. /\ save' \in [SaveCalls -> SaveStates] /\ save'[s] = w
      /\ \A t \in SaveCalls \ {s} : save'[t] = save[t]
  BY <1>0 DEF DepotTypeOK
<1>2. DepotTypeOK'
  BY <1>0, <1>1 DEF DepotTypeOK
<1>3. StreamHolds(stream', command') /\ \A m \in Mirages : MirageHolds(stream', command', m, mirage'[m])
  BY DEF DepotIInv
<1>4. \A t \in SaveCalls : Active(save'[t]) => SaveHolds(stream, command, save'[t], mirage[save'[t].on])
  BY <1>1 DEF DepotIInv, Active, Unsent
<1>5. SavesAgree'
  <2>1. \A t \in SaveCalls, m \in Mirages :
          Unsent(save'[t]) /\ Shares(save'[t].events, mirage[m].pending)
          => save'[t].expected = Baseline(mirage[m])
    BY <1>1 DEF DepotIInv, SavesAgree
  <2>2. ASSUME NEW t \in SaveCalls, NEW u \in SaveCalls, Unsent(save'[t]), Unsent(save'[u]),
               Shares(save'[t].events, save'[u].events)
        PROVE  save'[t].expected = save'[u].expected
    <3>1. Shares(save'[u].events, save'[t].events)
      BY <2>2 DEF Shares
    <3>2. CASE t = s /\ u = s
      BY <3>2
    <3>3. CASE t = s /\ u # s
      BY <3>3, <2>2, <1>1
    <3>4. CASE t # s /\ u = s
      BY <3>1, <3>4, <2>2, <1>1
    <3>5. CASE t # s /\ u # s
      BY <3>5, <2>2, <1>1 DEF DepotIInv, SavesAgree
    <3> QED
      BY <3>2, <3>3, <3>4, <3>5
  <2> QED
    BY <2>1, <2>2 DEF SavesAgree
<1>6. HandedHolds'
  <2>1. \A t \in SaveCalls : /\ save'[t].phase = "stored" <=> save[t].phase = "stored"
                             /\ save[t].phase = "stored" => save'[t] = save[t]
    BY <1>1
  <2>2. HandedHolds
    BY DEF DepotIInv
  <2>3. /\ \A i, j \in 1..Len(handed) : handed[i] = handed[j] => i = j
        /\ \A i \in 1..Len(handed) : \E j \in 1..Len(stream) : stream[j].id = handed[i]
    BY <2>2 DEF HandedHolds, HandedOnce, StoredApart, NoneForgotten
  <2>4. ASSUME NEW t \in SaveCalls, save'[t].phase = "stored"
        PROVE  /\ \A i \in 1..Len(handed), k \in 1..Len(save'[t].events) :
                    handed[i] # save'[t].events[k].id
               /\ \A u \in SaveCalls : save'[u].phase = "stored" /\ u # t =>
                    ~Shares(save'[t].events, save'[u].events)
    BY <2>1, <2>2, <2>4 DEF HandedHolds, HandedOnce, StoredApart, NoneForgotten
  <2>5. ASSUME depotFaults' = 0, NEW j \in 1..Len(stream),
               ~\E i \in 1..Len(handed) : handed[i] = stream[j].id
        PROVE  \E t \in SaveCalls : /\ save'[t].phase = "stored"
                  /\ \E k \in 1..Len(save'[t].events) : save'[t].events[k].id = stream[j].id
    <3>1. PICK t \in SaveCalls : /\ save[t].phase = "stored"
                  /\ \E k \in 1..Len(save[t].events) : save[t].events[k].id = stream[j].id
      BY <2>2, <2>5 DEF HandedHolds, HandedOnce, StoredApart, NoneForgotten
    <3> QED
      BY <3>1, <2>1
  <2>6. stream' = stream /\ handed' = handed
    OBVIOUS
  <2>8. \A t \in SaveCalls : save'[t].phase = "stored" =>
          /\ \A i \in 1..Len(handed), k \in 1..Len(save'[t].events) :
               handed[i] # save'[t].events[k].id
          /\ \A u \in SaveCalls : save'[u].phase = "stored" /\ u # t =>
               ~Shares(save'[t].events, save'[u].events)
    BY <2>4
  <2>9. HandedOnce'
    BY <2>3, <2>6 DEF HandedOnce
  <2>10. StoredApart'
    BY <2>6, <2>8 DEF StoredApart, Shares
  <2>11. NoneForgotten'
    <3> SUFFICES ASSUME depotFaults' = 0, NEW j \in 1..Len(stream'),
                        ~\E i \in 1..Len(handed') : handed'[i] = stream'[j].id
                 PROVE  \E t \in SaveCalls : /\ save'[t].phase = "stored"
                           /\ \E k \in 1..Len(save'[t].events) : save'[t].events[k].id = stream'[j].id
      BY DEF NoneForgotten
    <3>1. j \in 1..Len(stream) /\ ~\E i \in 1..Len(handed) : handed[i] = stream[j].id
      BY <2>6
    <3>2. \E t \in SaveCalls : /\ save'[t].phase = "stored"
             /\ \E k \in 1..Len(save'[t].events) : save'[t].events[k].id = stream[j].id
      BY <2>5, <3>1
    <3> QED
      BY <3>2, <2>6
  <2> QED
    BY <2>9, <2>10, <2>11 DEF HandedHolds
<1> QED
  BY <1>2, <1>3, <1>4, <1>5, <1>6 DEF DepotIInv

-----------------------------------------------------------------------------
(* A command decided.                                                       *)

\* The command c of m is decided.
Decides(cmd, cmd2, c, m) ==
  /\ Moves(cmd, cmd2) /\ cmd[c].phase = "before"
  /\ cmd2[c].phase \in {"done", "failed"} /\ cmd2[c].on = m

\* The events d that c decided on the state of x0 are applied.
Applies(x0, c, d, x) ==
  /\ \A k \in 1..Len(d) : /\ d[k].id = <<c, k>> /\ d[k].base = x0.state
                          /\ d[k].clean => ~x0.overlapped
  /\ x.state = x0.state \o Ids(d) /\ x.version = x0.version + Len(d)
  /\ x.pending = x0.pending \o d /\ (~x.overlapped => ~x0.overlapped)

LEMMA DecidedEvents ==
  ASSUME NEW st \in Seq(DepotEvents), NEW m, NEW cmd, NEW cmd2,
         NEW c \in Dispatched, Decides(cmd, cmd2, c, m),
         StreamHolds(st, cmd), NEW x0 \in MirageCores, MirageHolds(st, cmd, m, x0),
         NEW d \in Seq(DepotEvents), NEW x \in MirageCores, Applies(x0, c, d, x)
  PROVE  MirageHolds(st, cmd2, m, x) /\ Baseline(x) = Baseline(x0)
<1> USE DEF Decides, Applies
<1> DEFINE n == Baseline(x0)
           p == x0.pending
           q == p \o d
           state == x0.state
<1>1. /\ p \in Seq(DepotEvents) /\ state \in Seq(EventIds) /\ x0.version \in Nat
      /\ Len(p) \in Nat /\ Len(d) \in Nat /\ Len(state) \in Nat
  BY DEF MirageCores
<1>2. n \in Nat /\ n = x0.version - Len(p) /\ Len(p) <= x0.version
  BY <1>1 DEF MirageHolds, Baseline
<1>3. /\ q \in Seq(DepotEvents) /\ Len(q) = Len(p) + Len(d)
      /\ \A i \in 1..Len(p) : q[i] = p[i]
      /\ \A k \in 1..Len(d) : q[Len(p) + k] = d[k]
      /\ \A j \in 1..Len(q) : j \in 1..Len(p) \/ \E k \in 1..Len(d) :
           j = Len(p) + k /\ q[j] = d[k]
  BY <1>1, AppendedStream
<1>4. EventsHold(st, cmd2, m, n, p)
  BY <1>1, <1>2, CommandsMove DEF MirageHolds
<1>5. ~x0.overlapped => StateHolds(st, x0)
  BY DEF MirageHolds
<1>6. Baseline(x) = n /\ Len(x.pending) <= x.version
  BY <1>1, <1>2, <1>3 DEF Baseline
<1>7. \A k \in 1..Len(p) : Decided(cmd, p[k].id)
  BY DEF MirageHolds, EventsHold
<1>a. \A k \in Nat : ~Decided(cmd, <<c, k>>)
  BY DEF Decided
<1>b. \A i \in 1..x0.version : ~(i <= n) => i - n \in 1..Len(p)
  BY SMTT(60), <1>1, <1>2
<1> HIDE DEF q, n, p, state
\* The events pending before, and after them those of c.
<1>8. EventsHold(st, cmd2, m, n, q)
  <2>1. ASSUME NEW j \in 1..Len(q)
        PROVE  /\ Decided(cmd2, q[j].id) /\ cmd2[q[j].id[1]].on = m
               /\ q[j].clean => RestsOn(st, q[j].base, n, q, j)
               /\ \A i \in 1..Len(st) : q[j].id = st[i].id => n < Len(st)
    <3>1. CASE j \in 1..Len(p)
      <4>1. q[j] = p[j]
        BY <3>1, <1>3
      <4>2. /\ Decided(cmd2, p[j].id) /\ cmd2[p[j].id[1]].on = m
            /\ p[j].clean => RestsOn(st, p[j].base, n, p, j)
            /\ \A i \in 1..Len(st) : p[j].id = st[i].id => n < Len(st)
        BY <3>1, <1>4 DEF EventsHold
      <4>3. p[j].clean => RestsOn(st, p[j].base, n, q, j)
        <5> SUFFICES ASSUME p[j].clean PROVE RestsOn(st, p[j].base, n, q, j)
          OBVIOUS
        <5>1. RestsOn(st, p[j].base, n, p, j)
          BY <4>2
        <5>2. p[j] \in DepotEvents
          BY <3>1, <1>1
        <5>3. p[j].base \in Seq(EventIds)
          BY <5>2 DEF DepotEvents
        <5>4. ASSUME NEW i \in 1..Len(p[j].base), ~(i <= n)
              PROVE  q[i - n] = p[i - n]
          <6>1. Len(p[j].base) <= n + j - 1 /\ Len(p[j].base) \in Nat
            BY <5>1, <5>3 DEF RestsOn
          <6>2. i - n \in 1..Len(p)
            <7>1. j \in Nat /\ j <= Len(p) /\ Len(p) \in Nat /\ n \in Nat
              BY <3>1, <1>1, <1>2
            <7>2. i \in Nat /\ i <= n + j - 1 /\ ~(i <= n)
              BY <7>1, <6>1, <5>4
            <7> QED
              BY SMTT(60), <7>1, <7>2
          <6> QED
            BY <6>2, <1>3
        <5> QED
          BY <5>1, <5>4 DEF RestsOn
      <4> QED
        BY <4>1, <4>2, <4>3
    <3>2. CASE j \notin 1..Len(p)
      <4>1. PICK k \in 1..Len(d) : j = Len(p) + k /\ q[j] = d[k]
        BY <3>2, <1>3
      <4>2. q[j].id = <<c, k>> /\ q[j].base = state /\ (q[j].clean => ~x0.overlapped)
        BY <4>1 DEF state
      <4>3. Decided(cmd2, q[j].id) /\ cmd2[q[j].id[1]].on = m
        BY <4>2 DEF Decided
      <4>4. \A i \in 1..Len(st) : q[j].id # st[i].id
        <5> TAKE i \in 1..Len(st)
        <5>1. Decided(cmd, st[i].id)
          BY DEF StreamHolds
        <5>2. k \in Nat
          BY <4>1, <1>1
        <5> QED
          BY <4>2, <5>1, <5>2, <1>a
      <4>5. ASSUME ~x0.overlapped PROVE RestsOn(st, state, n, q, j)
        <5>1. /\ n <= Len(st) /\ Len(state) = x0.version
              /\ \A i \in 1..Len(state) : state[i] = IF i <= n THEN st[i].id ELSE p[i - n].id
          BY <4>5, <1>5 DEF StateHolds, n, p, state
        <5>2. Len(state) <= n + j - 1
          BY SMTT(60), <5>1, <4>1, <1>1, <1>2
        <5>3. \A i \in 1..Len(state) : ~(i <= n) => q[i - n] = p[i - n]
          BY <5>1, <1>3, <1>b
        <5> QED
          BY <5>1, <5>2, <5>3 DEF RestsOn
      <4> QED
        BY <4>2, <4>3, <4>4, <4>5
    <3> QED
      BY <3>1, <3>2
  <2>2. ASSUME NEW i \in 1..Len(q), NEW j \in 1..Len(q), q[i].id = q[j].id
        PROVE  i = j
    <3>1. \A k, l \in 1..Len(p) : p[k].id = p[l].id => k = l
      BY <1>4 DEF EventsHold
    <3>2. \A k \in 1..Len(p), l \in 1..Len(d) : p[k].id # d[l].id
      <4> TAKE k \in 1..Len(p), l \in 1..Len(d)
      <4>1. d[l].id = <<c, l>> /\ l \in Nat
        BY SMTT(60), <1>1
      <4> QED
        BY <4>1, <1>7, <1>a
    <3>3. \A k, l \in 1..Len(d) : d[k].id = d[l].id => k = l
      OBVIOUS
    <3>4. CASE i \in 1..Len(p) /\ j \in 1..Len(p)
      BY <3>1, <3>4, <2>2, <1>3
    <3>5. CASE i \in 1..Len(p) /\ j \notin 1..Len(p)
      <4>1. PICK l \in 1..Len(d) : q[j] = d[l]
        BY <3>5, <1>3
      <4>2. q[i] = p[i]
        BY <3>5, <1>3
      <4> QED
        BY <4>1, <4>2, <3>2, <3>5, <2>2
    <3>6. CASE i \notin 1..Len(p) /\ j \in 1..Len(p)
      <4>1. PICK l \in 1..Len(d) : q[i] = d[l]
        BY <3>6, <1>3
      <4>2. q[j] = p[j]
        BY <3>6, <1>3
      <4> QED
        BY <4>1, <4>2, <3>2, <3>6, <2>2
    <3>7. CASE i \notin 1..Len(p) /\ j \notin 1..Len(p)
      <4>1. PICK k \in 1..Len(d) : i = Len(p) + k /\ q[i] = d[k]
        BY <3>7, <1>3
      <4>2. PICK l \in 1..Len(d) : j = Len(p) + l /\ q[j] = d[l]
        BY <3>7, <1>3
      <4> QED
        BY <4>1, <4>2, <3>3, <2>2
    <3> QED
      BY <3>4, <3>5, <3>6, <3>7
  <2> QED
    BY <2>1, <2>2 DEF EventsHold
<1>9. ASSUME ~x.overlapped PROVE StateHolds(st, x)
  <2>1. /\ n <= Len(st) /\ Len(state) = x0.version
        /\ \A i \in 1..Len(state) : state[i] = IF i <= n THEN st[i].id ELSE p[i - n].id
    BY <1>5, <1>9 DEF StateHolds, n, p, state
  <2>2. /\ Ids(d) \in Seq(EventIds) /\ Len(Ids(d)) = Len(d)
        /\ \A k \in 1..Len(d) : Ids(d)[k] = d[k].id
    BY IdsOf
  <2>3. /\ Len(state \o Ids(d)) = Len(state) + Len(d)
        /\ \A i \in 1..Len(state) + Len(d) :
             (state \o Ids(d))[i] = IF i <= Len(state) THEN state[i] ELSE Ids(d)[i - Len(state)]
    <3>1. /\ Len(state \o Ids(d)) = Len(state) + Len(Ids(d))
          /\ \A i \in 1..Len(state) + Len(Ids(d)) :
               (state \o Ids(d))[i] = IF i <= Len(state) THEN state[i] ELSE Ids(d)[i - Len(state)]
      <4>1. \A a, b \in Seq(EventIds) :
              /\ Len(a \o b) = Len(a) + Len(b)
              /\ \A i \in 1..Len(a) + Len(b) : (a \o b)[i] = IF i <= Len(a) THEN a[i] ELSE b[i - Len(a)]
        BY ConcatProperties
      <4> QED
        BY <4>1, <2>2, <1>1, ZenonT(30)
    <3> QED
      BY <3>1, <2>2
  <2> DEFINE now == state \o Ids(d)
  <2> HIDE DEF now
  <2>4. ASSUME NEW i \in 1..Len(now) PROVE now[i] = IF i <= n THEN st[i].id ELSE q[i - n].id
    <3>1. CASE i <= Len(state)
      <4>1. now[i] = state[i] /\ i \in 1..Len(state)
        BY <3>1, <2>3, <1>1 DEF now
      <4>2. i <= n => now[i] = st[i].id
        BY <4>1, <2>1
      <4>3. ~(i <= n) => i - n \in 1..Len(p) /\ q[i - n] = p[i - n]
        BY <4>1, <2>1, <1>3, <1>b
      <4> QED
        BY <4>1, <4>2, <4>3, <2>1
    <3>2. CASE ~(i <= Len(state))
      <4>1. i - Len(state) \in 1..Len(d) /\ Len(p) + (i - Len(state)) = i - n /\ ~(i <= n)
        BY SMTT(60), <3>2, <2>1, <2>3, <1>1, <1>2 DEF now
      <4>2. now[i] = d[i - Len(state)].id
        BY <3>2, <4>1, <2>2, <2>3 DEF now
      <4>3. q[i - n] = d[i - Len(state)]
        BY <4>1, <1>3
      <4> QED
        BY <4>1, <4>2, <4>3
    <3> QED
      BY <3>1, <3>2
  <2>5. Len(now) = x.version /\ x.state = now /\ x.pending = q
    BY <2>1, <2>3 DEF now, state, q, p
  <2> QED
    BY <2>1, <2>4, <2>5, <1>6 DEF StateHolds
<1> QED
  BY <1>6, <1>8, <1>9 DEF MirageHolds, n, q, p

-----------------------------------------------------------------------------
(* The steps.                                                               *)

\* What the invariant says of the state's parts, for the steps.
LEMMA DepotParts ==
  ASSUME DepotIInv
  PROVE  /\ stream \in Seq(DepotEvents) /\ depotFaults \in Nat
         /\ command \in CommandStates
         /\ \A m \in Mirages : mirage[m] \in MirageCores /\ MirageHolds(stream, command, m, mirage[m])
         /\ \A s \in SaveCalls : save[s] \in SaveStates
         /\ \A s \in SaveCalls : Active(save[s]) =>
              save[s].on \in Mirages /\ SaveHolds(stream, command, save[s], mirage[save[s].on])
BY DEF DepotIInv, DepotTypeOK, SaveHolds

LEMMA HydratedIsTheStream ==
  ASSUME stream \in Seq(DepotEvents), NEW snapshot \in 0..Len(stream)
  PROVE  /\ HydratedFrom(snapshot) \in Seq(EventIds)
         /\ Len(HydratedFrom(snapshot)) = Len(stream)
         /\ \A i \in 1..Len(stream) : HydratedFrom(snapshot)[i] = stream[i].id
<1> DEFINE a == SubSeq(stream, 1, snapshot)
           b == SubSeq(stream, snapshot + 1, Len(stream))
<1>0. Len(stream) \in Nat /\ snapshot \in Nat /\ snapshot <= Len(stream)
  OBVIOUS
<1>1. /\ a \in Seq(DepotEvents) /\ Len(a) = snapshot
      /\ \A i \in 1..snapshot : a[i] = stream[i]
  BY <1>0
<1>2. /\ b \in Seq(DepotEvents) /\ Len(b) = Len(stream) - snapshot
      /\ \A i \in 1..Len(stream) - snapshot : b[i] = stream[snapshot + i]
  BY <1>0
<1> HIDE DEF a, b
<1>3. /\ Ids(a) \in Seq(EventIds) /\ Len(Ids(a)) = snapshot
      /\ \A i \in 1..snapshot : Ids(a)[i] = stream[i].id
  BY <1>1, IdsOf
<1>4. /\ Ids(b) \in Seq(EventIds) /\ Len(Ids(b)) = Len(stream) - snapshot
      /\ \A i \in 1..Len(stream) - snapshot : Ids(b)[i] = stream[snapshot + i].id
  BY <1>2, IdsOf
<1>5. HydratedFrom(snapshot) = Ids(a) \o Ids(b)
  BY DEF HydratedFrom, ReadStream, a, b
<1>6. /\ HydratedFrom(snapshot) \in Seq(EventIds)
      /\ Len(HydratedFrom(snapshot)) = Len(stream)
      /\ \A i \in 1..Len(stream) :
           HydratedFrom(snapshot)[i] = IF i <= snapshot THEN Ids(a)[i] ELSE Ids(b)[i - snapshot]
  <2>1. \A x, y \in Seq(EventIds) :
          /\ x \o y \in Seq(EventIds) /\ Len(x \o y) = Len(x) + Len(y)
          /\ \A i \in 1..Len(x) + Len(y) : (x \o y)[i] = IF i <= Len(x) THEN x[i] ELSE y[i - Len(x)]
    BY ConcatProperties
  <2>2. /\ Ids(a) \o Ids(b) \in Seq(EventIds) /\ Len(Ids(a) \o Ids(b)) = Len(Ids(a)) + Len(Ids(b))
        /\ \A i \in 1..Len(Ids(a)) + Len(Ids(b)) : (Ids(a) \o Ids(b))[i] =
             IF i <= Len(Ids(a)) THEN Ids(a)[i] ELSE Ids(b)[i - Len(Ids(a))]
    BY <2>1, <1>3, <1>4, ZenonT(30)
  <2>3. Len(Ids(a)) + Len(Ids(b)) = Len(stream)
    BY <1>0, <1>3, <1>4
  <2> QED
    BY <2>2, <2>3, <1>3, <1>5
<1>7. ASSUME NEW i \in 1..Len(stream) PROVE HydratedFrom(snapshot)[i] = stream[i].id
  <2>1. CASE i <= snapshot
    BY <2>1, <1>0, <1>3, <1>6
  <2>2. CASE ~(i <= snapshot)
    <3>1. i - snapshot \in 1..Len(stream) - snapshot /\ snapshot + (i - snapshot) = i
      BY <2>2, <1>0
    <3> QED
      BY <2>2, <3>1, <1>4, <1>6
  <2> QED
    BY <2>1, <2>2
<1> QED
  BY <1>6, <1>7

LEMMA GetStep ==
  ASSUME DepotIInv, NEW m \in Mirages, NEW snapshot \in 0..Len(stream), Get(m, snapshot)
  PROVE  DepotIInv'
<1>0. stream \in Seq(DepotEvents) /\ command \in CommandStates
  BY DepotParts
<1> DEFINE state == HydratedFrom(snapshot)
           x == [NotLoaded EXCEPT !.live = TRUE, !.state = state, !.version = Len(state)]
<1>1. /\ state \in Seq(EventIds) /\ Len(state) = Len(stream) /\ Len(stream) \in Nat
      /\ \A i \in 1..Len(stream) : state[i] = stream[i].id
  BY <1>0, HydratedIsTheStream
<1> HIDE DEF state
<1>2. /\ x \in MirageCores /\ x.live /\ x.state = state /\ x.version = Len(stream)
      /\ x.pending = <<>>
  <2>1. NotLoaded \in MirageCores /\ NotLoaded.pending = <<>>
    BY DEF NotLoaded, MirageCores
  <2> QED
    BY <2>1, <1>1 DEF MirageCores
<1>3. mirage' = [mirage EXCEPT ![m] = x] /\ UNCHANGED <<stream, save, handed, depotFaults, command>>
  BY DEF Get, state
<1> HIDE DEF x
<1>4. Baseline(x) = Len(stream) /\ Len(x.pending) = 0
  BY <1>1, <1>2 DEF Baseline
<1>5. MirageHolds(stream, command, m, x)
  BY <1>1, <1>2, <1>4 DEF MirageHolds, StateHolds, EventsHold
<1>6. ASSUME NEW s \in SaveCalls, Active(save[s]), save[s].on = m PROVE FALSE
  <2>1. SaveHolds(stream, command, save[s], mirage[m])
    BY <1>6, DepotParts
  <2> QED
    BY <2>1 DEF SaveHolds, SaveCovers, Get
<1>7. \A s \in SaveCalls : ~Shares(save[s].events, x.pending)
  BY <1>4 DEF Shares
<1>8. Moves(command, command')
  BY <1>3 DEF Moves
<1> QED
  BY <1>0, <1>2, <1>3, <1>5, <1>6, <1>7, <1>8, MirageChanges

LEMMA DispatchStep ==
  ASSUME DepotIInv, NEW c \in Dispatched, NEW m \in Mirages, Dispatch(c, m)
  PROVE  DepotIInv'
<1>1. /\ command' \in CommandStates /\ Moves(command, command')
  BY DepotParts DEF Dispatch, CommandStates, Moves
<1>2. mirage' = [mirage EXCEPT ![m] = mirage[m]] /\ UNCHANGED <<stream, save, handed, depotFaults>>
  BY DEF Dispatch, DepotIInv, DepotTypeOK
<1>3. mirage[m] \in MirageCores /\ MirageHolds(stream, command', m, mirage[m])
  BY <1>1, DepotParts, CommandsMove
<1>4. \A s \in SaveCalls : Active(save[s]) /\ save[s].on = m => SaveCovers(stream, save[s], mirage[m])
  BY DepotParts DEF SaveHolds
<1>5. \A s \in SaveCalls : Unsent(save[s]) /\ Shares(save[s].events, mirage[m].pending)
        => save[s].expected = Baseline(mirage[m])
  BY DEF DepotIInv, SavesAgree
<1> QED
  BY <1>1, <1>2, <1>3, <1>4, <1>5, MirageChanges

LEMMA ExecuteStep ==
  ASSUME DepotIInv, NEW c \in Dispatched, NEW applied \in 0..EventCount[c], Execute(c, applied)
  PROVE  DepotIInv'
<1> DEFINE m == command[c].on
           x0 == mirage[m]
           clean == ~x0.overlapped /\ ~Saving(m)
           d == [k \in 1..applied |-> [id |-> <<c, k>>, base |-> x0.state, clean |-> clean]]
           x == [x0 EXCEPT !.state = @ \o Ids(d), !.version = @ + applied, !.pending = @ \o d,
                           !.overlapped = @ \/ (applied > 0 /\ Saving(m))]
<1>0. /\ stream \in Seq(DepotEvents) /\ command \in CommandStates
      /\ m \in Mirages /\ command[c].phase = "before"
  BY DepotParts DEF Execute, CommandStates
<1>1. /\ x0 \in MirageCores /\ MirageHolds(stream, command, m, x0)
      /\ StreamHolds(stream, command) /\ applied \in Nat /\ clean \in BOOLEAN
  BY SMTT(60), <1>0, DepotParts, DepotAssumption DEF DepotIInv
<1>2. /\ mirage' = [mirage EXCEPT ![m] = x] /\ UNCHANGED <<stream, save, handed, depotFaults>>
  BY ZenonT(60) DEF Execute
<1>3. /\ command' \in CommandStates /\ Moves(command, command')
      /\ command'[c].phase \in {"done", "failed"} /\ command'[c].on = m
  BY <1>0 DEF Execute, CommandStates, Moves
<1> HIDE DEF clean
<1>4. /\ x0.state \in Seq(EventIds) /\ x0.pending \in Seq(DepotEvents) /\ x0.version \in Nat
      /\ x0.overlapped \in BOOLEAN
  BY <1>1 DEF MirageCores
<1>5. /\ d \in Seq(DepotEvents) /\ Len(d) = applied
      /\ \A k \in 1..Len(d) : d[k].id = <<c, k>> /\ d[k].base = x0.state /\ d[k].clean = clean
  <2>1. ASSUME NEW k \in 1..applied
        PROVE  [id |-> <<c, k>>, base |-> x0.state, clean |-> clean] \in DepotEvents
    BY <1>1, <1>4 DEF DepotEvents, EventIds
  <2> QED
    BY <2>1, <1>1
<1> HIDE DEF d
<1>6. /\ Ids(d) \in Seq(EventIds)
      /\ x0.state \o Ids(d) \in Seq(EventIds) /\ x0.pending \o d \in Seq(DepotEvents)
      /\ x0.version + applied \in Nat
  BY SMTT(60), <1>1, <1>4, <1>5, IdsOf, ConcatProperties
<1>7. /\ x \in MirageCores /\ x.live = x0.live
      /\ x.state = x0.state \o Ids(d) /\ x.version = x0.version + applied
      /\ x.pending = x0.pending \o d
  BY <1>1, <1>4, <1>6 DEF MirageCores
<1>8. x.overlapped <=> (x0.overlapped \/ (applied > 0 /\ Saving(m)))
  BY <1>1, <1>4 DEF MirageCores
<1> HIDE DEF x, x0, m
<1>9. MirageHolds(stream, command', m, x) /\ Baseline(x) = Baseline(x0)
  <2>1. \A k \in 1..Len(d) : /\ d[k].id = <<c, k>> /\ d[k].base = x0.state
                             /\ d[k].clean => ~x0.overlapped
    BY <1>5 DEF clean
  <2>2. x.version = x0.version + Len(d) /\ (~x.overlapped => ~x0.overlapped)
    BY <1>5, <1>7, <1>8
  <2>3. PICK now : now = command'
    OBVIOUS
  <2>4. Decides(command, now, c, m)
    BY <2>3, <1>0, <1>3 DEF Decides, m
  <2>5. Applies(x0, c, d, x)
    BY <2>1, <2>2, <1>7 DEF Applies
  <2>6. MirageHolds(stream, now, m, x) /\ Baseline(x) = Baseline(x0)
    BY <2>4, <2>5, <1>0, <1>1, <1>5, <1>7, DecidedEvents
  <2> QED
    BY <2>3, <2>6
<1>10. ASSUME NEW s \in SaveCalls, Active(save[s]), save[s].on = m
       PROVE  SaveCovers(stream, save[s], x)
  <2>1. SaveCovers(stream, save[s], x0)
    BY <1>10, DepotParts DEF SaveHolds, x0
  <2>2. Saving(m)
    BY <1>10 DEF Saving, Active
  <2>3. ASSUME ~x.overlapped PROVE applied = 0 /\ ~x0.overlapped
    BY <2>2, <2>3, <1>1, <1>8
  <2>4. applied = 0 => x.pending = x0.pending /\ x.version = x0.version
    <3> SUFFICES ASSUME applied = 0 PROVE x.pending = x0.pending /\ x.version = x0.version
      OBVIOUS
    <3>1. d = <<>>
      BY <1>5
    <3> QED
      BY <3>1, <1>4, <1>7, ConcatEmptySeq
  <2> QED
    BY <2>1, <2>3, <2>4, <1>7 DEF SaveCovers
<1>11. ASSUME NEW s \in SaveCalls, Unsent(save[s]), Shares(save[s].events, x.pending)
       PROVE  save[s].expected = Baseline(x)
  <2>1. PICK i \in 1..Len(save[s].events), k \in 1..Len(x.pending) :
          save[s].events[i].id = x.pending[k].id
    BY <1>11 DEF Shares
  <2>2. EventsHold(stream, command, save[s].on, save[s].expected, save[s].events)
    BY <1>11, DepotParts DEF Unsent, Active, SaveHolds
  <2>3. Decided(command, save[s].events[i].id)
    BY <2>2 DEF EventsHold
  <2>4. \/ k \in 1..Len(x0.pending) /\ x.pending[k] = x0.pending[k]
        \/ \E l \in 1..Len(d) : x.pending[k] = d[l]
    <3>1. /\ \A i1 \in 1..Len(x0.pending) : (x0.pending \o d)[i1] = x0.pending[i1]
          /\ \A j \in 1..Len(x0.pending \o d) : j \in 1..Len(x0.pending) \/ \E l \in 1..Len(d) :
               j = Len(x0.pending) + l /\ (x0.pending \o d)[j] = d[l]
      BY <1>4, <1>5, AppendedStream
    <3> QED
      BY <3>1, <1>7
  <2>5. CASE k \in 1..Len(x0.pending) /\ x.pending[k] = x0.pending[k]
    <3>1. Shares(save[s].events, x0.pending)
      BY <2>1, <2>5 DEF Shares
    <3>2. save[s].expected = Baseline(x0)
      BY <3>1, <1>0, <1>11 DEF DepotIInv, SavesAgree, x0
    <3> QED
      BY <3>2, <1>9
  <2>6. ASSUME NEW l \in 1..Len(d), x.pending[k] = d[l] PROVE FALSE
    <3>1. save[s].events[i].id = <<c, l>>
      BY <2>1, <2>6, <1>5
    <3> QED
      BY <3>1, <2>3, <1>0 DEF Decided
  <2> QED
    BY <2>4, <2>5, <2>6
<1> QED
  BY <1>0, <1>2, <1>3, <1>7, <1>9, <1>10, <1>11, MirageChanges

LEMMA SaveStep ==
  ASSUME DepotIInv, NEW s \in SaveCalls, NEW m \in Mirages, Save(s, m)
  PROVE  DepotIInv'
<1> DEFINE x == mirage[m]
           w == [phase |-> "prepare", on |-> m, events |-> x.pending,
                 expected |-> x.version - Len(x.pending)]
<1>1. x \in MirageCores /\ MirageHolds(stream, command, m, x) /\ x.live
  BY DepotParts DEF Save
<1>2. x.pending \in Seq(DepotEvents) /\ Baseline(x) \in Nat /\ x.version = Baseline(x) + Len(x.pending)
  BY <1>1 DEF MirageHolds, Baseline, MirageCores
<1>3. /\ w \in SaveStates /\ w.phase = "prepare" /\ w.on = m /\ w.events = x.pending
      /\ w.expected = Baseline(x)
  BY <1>2 DEF SaveStates, Baseline
<1>4. save' = [save EXCEPT ![s] = w] /\ UNCHANGED <<stream, mirage, command, handed, depotFaults>>
  BY DEF Save
<1> HIDE DEF w
<1>5. SaveHolds(stream, command, w, mirage[w.on])
  BY <1>1, <1>2, <1>3 DEF SaveHolds, SaveCovers, MirageHolds
<1>6. ASSUME NEW o \in Mirages, Shares(w.events, mirage[o].pending)
      PROVE  w.expected = Baseline(mirage[o])
  <2>1. PICK i \in 1..Len(x.pending), k \in 1..Len(mirage[o].pending) :
          x.pending[i].id = mirage[o].pending[k].id
    BY <1>3, <1>6 DEF Shares
  <2>2. command[x.pending[i].id[1]].on = m
    BY <1>1 DEF MirageHolds, EventsHold
  <2>3. command[mirage[o].pending[k].id[1]].on = o
    BY DepotParts DEF MirageHolds, EventsHold
  <2> QED
    BY <2>1, <2>2, <2>3, <1>3
<1>7. ASSUME NEW t \in SaveCalls \ {s}, Unsent(save[t]), Shares(w.events, save[t].events)
      PROVE  w.expected = save[t].expected
  <2>1. Shares(save[t].events, mirage[m].pending)
    BY <1>3, <1>7 DEF Shares
  <2> QED
    BY <2>1, <1>3, <1>7 DEF DepotIInv, SavesAgree
<1>8. save[s].phase # "stored" /\ depotFaults' \in Nat
  BY <1>4, DepotParts DEF Save
<1> QED
  BY <1>3, <1>4, <1>5, <1>6, <1>7, <1>8, SaveChanges

LEMMA BeforeAppendStep ==
  ASSUME DepotIInv, NEW s \in SaveCalls, BeforeAppendReturns(s)
  PROVE  DepotIInv'
<1> DEFINE w == [save[s] EXCEPT !.phase = "append"]
<1>1. save[s] \in SaveStates /\ save[s].phase = "prepare"
  BY DepotParts DEF BeforeAppendReturns
<1>2. /\ w \in SaveStates /\ w.phase = "append" /\ w.on = save[s].on
      /\ w.events = save[s].events /\ w.expected = save[s].expected
  BY <1>1 DEF SaveStates
<1>3. save' = [save EXCEPT ![s] = w] /\ UNCHANGED <<stream, mirage, command, handed, depotFaults>>
  BY DEF BeforeAppendReturns
<1> HIDE DEF w
<1>4. SaveHolds(stream, command, save[s], mirage[save[s].on]) /\ Unsent(save[s])
  BY <1>1, DepotParts DEF Active, Unsent
<1>5. SaveHolds(stream, command, w, mirage[w.on])
  BY <1>2, <1>4 DEF SaveHolds, SaveCovers
<1>6. /\ \A m \in Mirages : Shares(w.events, mirage[m].pending) => w.expected = Baseline(mirage[m])
      /\ \A t \in SaveCalls \ {s} : Unsent(save[t]) /\ Shares(w.events, save[t].events)
           => w.expected = save[t].expected
  BY <1>2, <1>4 DEF DepotIInv, SavesAgree
<1>7. save[s].phase # "stored" /\ w.phase # "stored" /\ depotFaults' \in Nat
  BY <1>1, <1>2, <1>3, DepotParts
<1> QED
  BY <1>2, <1>3, <1>5, <1>6, <1>7, SaveChanges

\* A save that rejects and has stored nothing.
LEMMA SaveRejects ==
  ASSUME DepotIInv, NEW s \in SaveCalls, save[s].phase \in {"prepare", "append"}, SaveFails(s),
         UNCHANGED <<stream, command, handed>>,
         depotFaults' = depotFaults \/ depotFaults' = depotFaults + 1
  PROVE  DepotIInv'
<1>1. Ended \in SaveStates /\ Ended.phase = "ended" /\ ~Unsent(Ended)
  <2>1. NotCalled \in SaveStates
    BY DEF NotCalled, SaveStates
  <2> QED
    BY <2>1 DEF Ended, SaveStates, Unsent
<1>2. /\ save' = [save EXCEPT ![s] = Ended] /\ UNCHANGED <<stream, mirage, command, handed>>
      /\ save[s].phase # "stored"
  BY DEF SaveFails
<1>3. depotFaults' \in Nat /\ (depotFaults' = 0 => depotFaults = 0)
  BY DepotParts
<1> QED
  BY <1>1, <1>2, <1>3, SaveChanges

\* saveEvents() has written, and the call is told, or is not.
LEMMA StreamGrows ==
  ASSUME DepotIInv, NEW s \in SaveCalls, save[s].phase = "append",
         Len(stream) = save[s].expected, stream' = stream \o save[s].events,
         NEW w \in SaveStates, save' = [save EXCEPT ![s] = w],
         UNCHANGED <<mirage, command, handed>>, depotFaults' \in Nat,
         \/ /\ w.phase = "stored" /\ w.on = save[s].on /\ w.events = save[s].events
            /\ w.expected = save[s].expected /\ depotFaults' = depotFaults
         \/ w.phase = "ended" /\ depotFaults' # 0
  PROVE  DepotIInv'
<1> DEFINE ev == save[s].events
           n == save[s].expected
<1>0. /\ stream \in Seq(DepotEvents) /\ Len(stream) = n /\ n \in Nat
      /\ \A t \in SaveCalls : save[t] \in SaveStates
      /\ \A m \in Mirages : mirage[m] \in MirageCores
  BY DepotParts
<1>1. /\ save[s].on \in Mirages /\ SaveHolds(stream, command, save[s], mirage[save[s].on])
      /\ Unsent(save[s]) /\ EventsHold(stream, command, save[s].on, n, ev)
      /\ ev \in Seq(DepotEvents)
  BY <1>0, DepotParts DEF Active, Unsent, SaveHolds, SaveStates
<1>2. /\ stream' \in Seq(DepotEvents) /\ Len(stream') = Len(stream) + Len(ev) /\ Len(ev) \in Nat
      /\ \A i \in 1..Len(stream) : stream'[i] = stream[i]
      /\ \A k \in 1..Len(ev) : stream'[Len(stream) + k] = ev[k]
      /\ \A j \in 1..Len(stream') : j \in 1..Len(stream) \/ \E k \in 1..Len(ev) :
           j = Len(stream) + k /\ stream'[j] = ev[k]
  <2>1. Len(stream) \in Nat /\ Len(ev) \in Nat
    BY <1>0, <1>1
  <2>2. /\ stream \o ev \in Seq(DepotEvents) /\ Len(stream \o ev) = Len(stream) + Len(ev)
        /\ \A i \in 1..Len(stream) : (stream \o ev)[i] = stream[i]
        /\ \A k \in 1..Len(ev) : (stream \o ev)[Len(stream) + k] = ev[k]
        /\ \A j \in 1..Len(stream \o ev) : j \in 1..Len(stream) \/ \E k \in 1..Len(ev) :
             j = Len(stream) + k /\ (stream \o ev)[j] = ev[k]
    BY <1>0, <1>1, AppendedStream, ZenonT(30)
  <2>3. stream' = stream \o ev
    OBVIOUS
  <2> QED
    BY <2>1, <2>2, <2>3, ZenonT(30)
<1>3. /\ save' \in [SaveCalls -> SaveStates] /\ save'[s] = w
      /\ \A t \in SaveCalls \ {s} : save'[t] = save[t]
  BY DEF DepotIInv, DepotTypeOK
<1>4. DepotTypeOK'
  BY <1>2, <1>3 DEF DepotIInv, DepotTypeOK
<1>5. StreamHolds(stream', command')
  <2> SUFFICES ASSUME NEW j \in 1..Len(stream')
      PROVE  /\ Decided(command, stream'[j].id)
             /\ stream'[j].clean => /\ Len(stream'[j].base) <= j - 1
                                    /\ \A i \in 1..Len(stream'[j].base) :
                                         stream'[j].base[i] = stream'[i].id
    BY DEF StreamHolds
  <2>1. CASE j \in 1..Len(stream)
    <3>1. /\ Decided(command, stream[j].id)
          /\ stream[j].clean => /\ Len(stream[j].base) <= j - 1
                                /\ \A i \in 1..Len(stream[j].base) :
                                     stream[j].base[i] = stream[i].id
      BY <2>1 DEF DepotIInv, StreamHolds
    <3>2. stream[j] \in DepotEvents
      BY <2>1, <1>0
    <3>3. Len(stream[j].base) \in Nat
      BY <3>2 DEF DepotEvents
    <3>4. stream[j].clean => \A i \in 1..Len(stream[j].base) : i \in 1..Len(stream)
      BY SMTT(60), <2>1, <3>1, <3>3, <1>0
    <3> QED
      BY <2>1, <3>1, <3>4, <1>2
  <2>2. CASE j \notin 1..Len(stream)
    <3>1. PICK k \in 1..Len(ev) : j = Len(stream) + k /\ stream'[j] = ev[k]
      BY <2>2, <1>2
    <3>2. Decided(command, ev[k].id) /\ (ev[k].clean => RestsOn(stream, ev[k].base, n, ev, k))
      BY <1>1 DEF EventsHold
    <3>3. ev[k] \in DepotEvents
      BY <1>1
    <3>4. Len(ev[k].base) \in Nat
      BY SMTT(60), <3>3 DEF DepotEvents
    <3>5. ASSUME ev[k].clean, NEW i \in 1..Len(ev[k].base)
          PROVE  Len(ev[k].base) <= j - 1 /\ ev[k].base[i] = stream'[i].id
      <4>1. /\ Len(ev[k].base) <= n + k - 1
            /\ ev[k].base[i] = IF i <= n THEN stream[i].id ELSE ev[i - n].id
        BY <3>2, <3>5 DEF RestsOn
      <4>2. CASE i <= n
        BY SMTT(60), <4>1, <4>2, <3>1, <3>4, <1>0, <1>2
      <4>3. CASE ~(i <= n)
        <5>0. PICK b \in Nat : b = Len(ev[k].base)
          BY <3>4
        <5>1. k \in Nat /\ k <= Len(ev) /\ n \in Nat /\ Len(ev) \in Nat
          BY <1>0, <1>2
        <5>2. i \in Nat /\ i <= b /\ b <= n + k - 1
          BY <4>1, <5>0
        <5>a. i \in Nat /\ i <= n + k - 1 /\ ~(i <= n)
          BY <4>3, <5>1, <5>2
        <5>b. i - n \in 1..Len(ev) /\ n + (i - n) = i
          <6> HIDE DEF n, ev
          <6>1. i - n \in Nat /\ i - n >= 1 /\ i - n <= k
            BY ONLY <5>1, <5>a
          <6>2. i - n <= Len(ev)
            BY ONLY <6>1, <5>1
          <6>3. n + (i - n) = i
            BY ONLY <5>1, <5>a
          <6> QED
            BY ONLY <6>1, <6>2, <6>3, <5>1
        <5>3. stream'[i] = ev[i - n]
          BY ZenonT(60), <5>b, <1>0, <1>2
        <5> QED
          BY SMTT(60), <4>1, <4>3, <5>3, <3>1, <1>0
      <4> QED
        BY <4>2, <4>3
    <3>6. ev[k].clean => Len(ev[k].base) <= j - 1
      BY SMTT(60), <3>1, <3>2, <3>4, <1>0 DEF RestsOn
    <3> QED
      BY <3>1, <3>2, <3>5, <3>6
  <2> QED
    BY <2>1, <2>2
<1>6. \A m \in Mirages : MirageHolds(stream', command', m, mirage'[m])
  <2> SUFFICES ASSUME NEW m \in Mirages PROVE MirageHolds(stream', command, m, mirage[m])
    OBVIOUS
  <2>1. Shares(mirage[m].pending, ev) => Shares(ev, mirage[m].pending)
    BY DEF Shares
  <2>2. Shares(mirage[m].pending, ev) => Baseline(mirage[m]) = Len(stream)
    BY <2>1, <1>0, <1>1 DEF DepotIInv, SavesAgree
  <2> QED
    BY <2>2, <1>0, <1>1, DepotParts, MirageHoldsGrows
<1>7. ASSUME NEW t \in SaveCalls \ {s}, Active(save[t])
      PROVE  SaveHolds(stream', command, save[t], mirage[save[t].on])
  <2>1. Unsent(save[t]) /\ Shares(save[t].events, ev) => save[t].expected = Len(stream)
    BY <1>0, <1>1 DEF DepotIInv, SavesAgree
  <2>2. SaveHolds(stream, command, save[t], mirage[save[t].on]) /\ save[t].on \in Mirages
    BY <1>7, DepotParts
  <2> QED
    BY <2>1, <2>2, <1>0, <1>1, SaveHoldsGrows
<1>8. ASSUME w.phase = "stored" PROVE SaveHolds(stream', command, w, mirage[w.on])
  <2>1. w.on = save[s].on /\ w.events = ev /\ w.expected = n
    BY <1>8
  <2>2. StoredAt(stream', w)
    <3>1. w.expected + Len(w.events) <= Len(stream')
      BY <2>1, <1>0, <1>2
    <3>2. \A k \in 1..Len(w.events) : stream'[w.expected + k] = w.events[k]
      BY SMTT(60), <2>1, <1>0, <1>2
    <3> QED
      BY <3>1, <3>2 DEF StoredAt
  <2>3. SaveCovers(stream', w, mirage[w.on])
    <3>1. SaveCovers(stream, save[s], mirage[save[s].on])
      BY <1>1 DEF SaveHolds
    <3>2. mirage[save[s].on].version \in Nat
      BY <1>0, <1>1 DEF MirageCores
    <3> QED
      BY <2>1, <3>1, <3>2, <1>0, <1>2 DEF SaveCovers
  <2> QED
    BY <2>1, <2>2, <2>3, <1>1, <1>8 DEF SaveHolds, EventsHold, Unsent
<1>9. \A t \in SaveCalls : Active(save'[t]) => SaveHolds(stream', command', save'[t], mirage'[save'[t].on])
  BY <1>3, <1>7, <1>8 DEF Active
<1>10. SavesAgree'
  <2>1. \A t \in SaveCalls : Unsent(save'[t]) => t # s /\ save'[t] = save[t]
    BY <1>3 DEF Unsent
  <2> QED
    BY SMTT(60), <2>1 DEF DepotIInv, SavesAgree
<1>11. HandedHolds'
  <2>0. HandedHolds
    BY DEF DepotIInv
  <2>1. ASSUME NEW i \in 1..Len(handed) PROVE \E j \in 1..Len(stream') : stream'[j].id = handed[i]
    <3>1. PICK j \in 1..Len(stream) : stream[j].id = handed[i]
      BY <2>0 DEF HandedHolds, HandedOnce, StoredApart, NoneForgotten
    <3>2. j \in 1..Len(stream') /\ stream'[j] = stream[j]
      BY <1>0, <1>2
    <3> QED
      BY <3>1, <3>2
  \* The events are new to the stream.
  <2>2. \A k \in 1..Len(ev), j \in 1..Len(stream) : ev[k].id # stream[j].id
    BY <1>0, <1>1 DEF EventsHold
  <2>3. ASSUME NEW t \in SaveCalls \ {s}, save[t].phase = "stored"
        PROVE  ~Shares(save[t].events, ev) /\ ~Shares(ev, save[t].events)
    <3>1. StoredAt(stream, save[t]) /\ save[t].expected \in Nat /\ Len(save[t].events) \in Nat
      BY <2>3, <1>0, DepotParts DEF Active, SaveHolds, SaveStates
    <3>2. ASSUME NEW k \in 1..Len(save[t].events)
          PROVE  \E j \in 1..Len(stream) : stream[j].id = save[t].events[k].id
      <4>1. save[t].expected + k \in 1..Len(stream)
        BY SMTT(60), <3>1, <1>0 DEF StoredAt
      <4>2. stream[save[t].expected + k] = save[t].events[k]
        BY <3>1 DEF StoredAt
      <4> QED
        BY <4>1, <4>2
    <3> QED
      BY <3>2, <2>2 DEF Shares
  <2>4. ASSUME NEW t \in SaveCalls, save'[t].phase = "stored"
        PROVE  /\ \A i \in 1..Len(handed), k \in 1..Len(save'[t].events) :
                    handed[i] # save'[t].events[k].id
               /\ \A u \in SaveCalls : save'[u].phase = "stored" /\ u # t =>
                    ~Shares(save'[t].events, save'[u].events)
    <3>1. CASE t = s
      <4>1. save'[t].events = ev
        BY <3>1, <2>4, <1>3
      <4>2. \A i \in 1..Len(handed), k \in 1..Len(ev) : handed[i] # ev[k].id
        <5> TAKE i \in 1..Len(handed), k \in 1..Len(ev)
        <5>1. PICK j \in 1..Len(stream) : stream[j].id = handed[i]
          BY <2>0 DEF HandedHolds, HandedOnce, StoredApart, NoneForgotten
        <5> QED
          BY <5>1, <2>2
      <4>3. \A u \in SaveCalls \ {s} : save'[u].phase = "stored" => ~Shares(ev, save'[u].events)
        BY <2>3, <1>3
      <4> QED
        BY <3>1, <4>1, <4>2, <4>3
    <3>2. CASE t # s
      <4>1. save'[t] = save[t] /\ save[t].phase = "stored"
        BY <3>2, <2>4, <1>3
      <4>2. ASSUME NEW u \in SaveCalls, save'[u].phase = "stored", u # t
            PROVE  ~Shares(save[t].events, save'[u].events)
        <5>1. CASE u = s
          BY <5>1, <4>1, <4>2, <3>2, <2>3, <1>3
        <5>2. CASE u # s
          BY <5>2, <4>1, <4>2, <2>0, <1>3 DEF HandedHolds, HandedOnce, StoredApart, NoneForgotten
        <5> QED
          BY <5>1, <5>2
      <4>3. \A i \in 1..Len(handed), k \in 1..Len(save[t].events) : handed[i] # save[t].events[k].id
        BY <4>1, <2>0 DEF HandedHolds, HandedOnce, StoredApart, NoneForgotten
      <4> QED
        BY <4>1, <4>2, <4>3
    <3> QED
      BY <3>1, <3>2
  <2>5. ASSUME depotFaults' = 0, NEW j \in 1..Len(stream'),
               ~\E i \in 1..Len(handed) : handed[i] = stream'[j].id
        PROVE  \E t \in SaveCalls : /\ save'[t].phase = "stored"
                  /\ \E k \in 1..Len(save'[t].events) : save'[t].events[k].id = stream'[j].id
    <3>0. w.phase = "stored" /\ w.events = ev /\ depotFaults = 0
      BY <2>5
    <3>1. CASE j \in 1..Len(stream)
      <4>1. stream'[j] = stream[j]
        BY <3>1, <1>2
      <4>2. PICK t \in SaveCalls : /\ save[t].phase = "stored"
                  /\ \E k \in 1..Len(save[t].events) : save[t].events[k].id = stream[j].id
        BY <4>1, <3>0, <3>1, <2>0, <2>5 DEF HandedHolds, HandedOnce, StoredApart, NoneForgotten
      <4>3. t # s
        BY <4>2
      <4> QED
        BY <4>1, <4>2, <4>3, <1>3
    <3>2. CASE j \notin 1..Len(stream)
      <4>1. PICK k \in 1..Len(ev) : stream'[j] = ev[k]
        BY <3>2, <1>2
      <4> QED
        BY <4>1, <3>0, <1>3
    <3> QED
      BY <3>1, <3>2
  <2>6. handed' = handed
    OBVIOUS
  <2>8. \A t \in SaveCalls : save'[t].phase = "stored" =>
          /\ \A i \in 1..Len(handed), k \in 1..Len(save'[t].events) :
               handed[i] # save'[t].events[k].id
          /\ \A u \in SaveCalls : save'[u].phase = "stored" /\ u # t =>
               ~Shares(save'[t].events, save'[u].events)
    BY <2>4
  <2>9. /\ \A i, j \in 1..Len(handed) : handed[i] = handed[j] => i = j
        /\ \A i \in 1..Len(handed) : \E j \in 1..Len(stream') : stream'[j].id = handed[i]
    BY <2>0, <2>1 DEF HandedHolds, HandedOnce, StoredApart, NoneForgotten
  <2>10. HandedOnce'
    BY ZenonT(60), <2>6, <2>9 DEF HandedOnce
  <2>11. StoredApart'
    BY SMTT(60), <2>6, <2>8 DEF StoredApart, Shares
  <2>12. NoneForgotten'
    <3> SUFFICES ASSUME depotFaults' = 0, NEW j \in 1..Len(stream'),
                        ~\E i \in 1..Len(handed') : handed'[i] = stream'[j].id
                 PROVE  \E t \in SaveCalls : /\ save'[t].phase = "stored"
                           /\ \E k \in 1..Len(save'[t].events) : save'[t].events[k].id = stream'[j].id
      BY DEF NoneForgotten
    <3>1. ~\E i \in 1..Len(handed) : handed[i] = stream'[j].id
      BY <2>6
    <3> QED
      BY <2>5, <3>1
  <2> QED
    BY <2>10, <2>11, <2>12 DEF HandedHolds
<1> QED
  BY <1>4, <1>5, <1>6, <1>9, <1>10, <1>11 DEF DepotIInv

LEMMA SaveEventsStep ==
  ASSUME DepotIInv, NEW s \in SaveCalls,
         BeforeAppendFails(s) \/ SaveEvents(s) \/ SaveEventsFails(s)
  PROVE  DepotIInv'
<1>0. save[s] \in SaveStates /\ stream \in Seq(DepotEvents) /\ depotFaults \in Nat
  BY DepotParts
<1>1. CASE BeforeAppendFails(s)
  <2>1. save[s].phase \in {"prepare", "append"} /\ SaveFails(s) /\ UNCHANGED <<stream, command, handed>>
    BY <1>1 DEF BeforeAppendFails
  <2>2. depotFaults' = depotFaults + 1
    BY <1>1 DEF BeforeAppendFails, DepotFault
  <2> QED
    BY <2>1, <2>2, SaveRejects
<1>2. CASE SaveEvents(s) /\ Len(stream) = save[s].expected
  <2> DEFINE w == [save[s] EXCEPT !.phase = "stored"]
  <2>1. /\ w \in SaveStates /\ w.phase = "stored" /\ w.on = save[s].on
        /\ w.events = save[s].events /\ w.expected = save[s].expected
    BY <1>0 DEF SaveStates
  <2>2. /\ save[s].phase = "append" /\ stream' = stream \o save[s].events
        /\ save' = [save EXCEPT ![s] = w]
        /\ UNCHANGED <<mirage, command, handed>> /\ depotFaults' = depotFaults
    BY <1>2 DEF SaveEvents
  <2> HIDE DEF w
  <2>3. depotFaults' \in Nat
    BY <2>2, <1>0
  <2> QED
    BY <1>2, <2>1, <2>2, <2>3, StreamGrows
<1>3. CASE SaveEvents(s) /\ Len(stream) # save[s].expected
  <2>1. /\ save[s].phase \in {"prepare", "append"} /\ SaveFails(s)
        /\ UNCHANGED <<stream, command, handed>> /\ depotFaults' = depotFaults
    BY <1>3 DEF SaveEvents
  <2> QED
    BY <2>1, SaveRejects
<1>4. CASE SaveEventsFails(s)
  <2>1. /\ save[s].phase = "append" /\ SaveFails(s) /\ UNCHANGED <<command, handed>>
        /\ depotFaults' = depotFaults + 1
        /\ \/ stream' = stream
           \/ Len(stream) = save[s].expected /\ stream' = stream \o save[s].events
    BY <1>4 DEF SaveEventsFails, DepotFault
  <2>2. CASE stream' = stream
    <3>1. save[s].phase \in {"prepare", "append"} /\ UNCHANGED <<stream, command, handed>>
      BY <2>1, <2>2
    <3> QED
      BY <2>1, <3>1, SaveRejects
  <2>3. CASE Len(stream) = save[s].expected /\ stream' = stream \o save[s].events
    <3>1. Ended \in SaveStates /\ Ended.phase = "ended"
      <4>1. NotCalled \in SaveStates
        BY DEF NotCalled, SaveStates
      <4> QED
        BY <4>1 DEF Ended, SaveStates
    <3>2. save' = [save EXCEPT ![s] = Ended] /\ UNCHANGED <<mirage, command, handed>>
      BY <2>1 DEF SaveFails
    <3>3. depotFaults' \in Nat /\ depotFaults' # 0
      BY <2>1, <1>0
    <3> QED
      BY <2>1, <2>3, <3>1, <3>2, <3>3, StreamGrows
  <2> QED
    BY <2>1, <2>2, <2>3
<1> QED
  BY <1>1, <1>2, <1>3, <1>4

LEMMA SavedStep ==
  ASSUME DepotIInv, NEW s \in SaveCalls, Saved(s)
  PROVE  DepotIInv'
<1> DEFINE m == save[s].on
           ev == save[s].events
           n == save[s].expected
           x0 == mirage[m]
           x == [x0 EXCEPT !.pending = <<>>]
<1>0. /\ stream \in Seq(DepotEvents) /\ Len(stream) \in Nat
      /\ \A t \in SaveCalls : save[t] \in SaveStates
      /\ \A o \in Mirages : mirage[o] \in MirageCores /\ MirageHolds(stream, command, o, mirage[o])
      /\ command \in CommandStates
  BY DepotParts
<1>1. /\ save[s].phase = "stored" /\ m \in Mirages /\ SaveHolds(stream, command, save[s], x0)
      /\ StoredAt(stream, save[s]) /\ SaveCovers(stream, save[s], x0)
      /\ \A k, l \in 1..Len(ev) : ev[k].id = ev[l].id => k = l
  BY DepotParts DEF Active, SaveHolds, Saved
<1>2. ev \in Seq(DepotEvents) /\ Len(ev) \in Nat /\ n \in Nat
  BY <1>0 DEF SaveStates
<1>3. /\ mirage' = [mirage EXCEPT ![m] = x] /\ handed' = handed \o Ids(ev)
      /\ save' = [save EXCEPT ![s] = Ended] /\ UNCHANGED <<stream, command, depotFaults>>
  <2>1. mirage' = [mirage EXCEPT ![m].pending = <<>>]
    BY DEF Saved
  <2> QED
    BY <2>1 DEF Saved, Committed
<1>4. /\ x \in MirageCores /\ x.live = x0.live /\ x.state = x0.state /\ x.version = x0.version
      /\ x.pending = <<>> /\ x.overlapped = x0.overlapped
  <2>1. <<>> \in Seq(DepotEvents)
    OBVIOUS
  <2> QED
    BY <2>1, <1>0, <1>1 DEF MirageCores
<1>5. Ended \in SaveStates /\ ~Active(Ended) /\ ~Unsent(Ended) /\ Ended.phase = "ended"
  <2>1. NotCalled \in SaveStates
    BY DEF NotCalled, SaveStates
  <2> QED
    BY <2>1 DEF Ended, SaveStates, Active, Unsent
<1>6. /\ mirage' \in [Mirages -> MirageCores] /\ mirage'[m] = x
      /\ \A o \in Mirages \ {m} : mirage'[o] = mirage[o]
      /\ save' \in [SaveCalls -> SaveStates] /\ save'[s] = Ended
      /\ \A t \in SaveCalls \ {s} : save'[t] = save[t]
  BY <1>1, <1>3, <1>4, <1>5 DEF DepotIInv, DepotTypeOK
<1>a. x0.version \in Nat /\ x0.state \in Seq(EventIds) /\ Baseline(x) = x0.version /\ Len(x.pending) = 0
  BY <1>0, <1>1, <1>4 DEF MirageCores, Baseline
<1> HIDE DEF x, x0, m, ev, n
\* The save appended all that its instance holds, unless it was overlapped.
<1>b. ASSUME ~x0.overlapped
      PROVE  /\ x0.version <= Len(stream) /\ Len(x0.state) = x0.version
             /\ \A i \in 1..Len(x0.state) : x0.state[i] = stream[i].id
  <2>1. /\ Len(x0.pending) <= x0.version /\ StateHolds(stream, x0)
        /\ n + Len(ev) = x0.version /\ n + Len(ev) <= Len(stream)
        /\ x0.pending = ev \/ (x0.pending = <<>> /\ x0.version <= Len(stream))
        /\ \A k \in 1..Len(ev) : stream[n + k] = ev[k]
    BY <1>0, <1>1, <1>b DEF MirageHolds, SaveCovers, StoredAt, n, ev, x0
  <2>2. /\ Len(x0.state) = x0.version
        /\ \A i \in 1..Len(x0.state) :
             x0.state[i] = IF i <= Baseline(x0) THEN stream[i].id ELSE x0.pending[i - Baseline(x0)].id
    BY <2>1 DEF StateHolds
  <2>3. CASE x0.pending = ev
    <3>1. Baseline(x0) = n
      BY <2>1, <2>3, <1>2, <1>a DEF Baseline
    <3>2. ASSUME NEW i \in 1..Len(x0.state), ~(i <= n) PROVE x0.state[i] = stream[i].id
      <4>1. i - n \in 1..Len(ev) /\ n + (i - n) = i
        BY <2>1, <2>2, <3>2, <1>2
      <4>2. stream[i] = ev[i - n]
        BY <2>1, <4>1
      <4> QED
        BY <2>2, <2>3, <3>1, <3>2, <4>2
    <3> QED
      BY <2>1, <2>2, <3>1, <3>2
  <2>4. CASE x0.pending = <<>>
    <3>1. Baseline(x0) = x0.version
      BY <2>4, <1>a DEF Baseline
    <3> QED
      BY <2>1, <2>2, <3>1, <1>a
  <2> QED
    BY <2>1, <2>3, <2>4
<1>7. /\ Ids(ev) \in Seq(EventIds) /\ Len(Ids(ev)) = Len(ev)
      /\ \A i \in 1..Len(ev) : Ids(ev)[i] = ev[i].id
  BY <1>2, IdsOf
<1>8. /\ handed \in Seq(EventIds) /\ handed' \in Seq(EventIds) /\ Len(handed) \in Nat
      /\ Len(handed') = Len(handed) + Len(ev)
      /\ \A i \in 1..Len(handed) : handed'[i] = handed[i]
      /\ \A k \in 1..Len(ev) : handed'[Len(handed) + k] = ev[k].id
  <2>1. handed \in Seq(EventIds) /\ Len(handed) \in Nat
    BY DEF DepotIInv, DepotTypeOK
  <2>2. /\ handed' \in Seq(EventIds) /\ Len(handed') = Len(handed) + Len(Ids(ev))
        /\ \A i \in 1..Len(handed) + Len(Ids(ev)) : handed'[i] =
             IF i <= Len(handed) THEN handed[i] ELSE Ids(ev)[i - Len(handed)]
    <3>1. \A a, b \in Seq(EventIds) :
            /\ a \o b \in Seq(EventIds) /\ Len(a \o b) = Len(a) + Len(b)
            /\ \A i \in 1..Len(a) + Len(b) : (a \o b)[i] = IF i <= Len(a) THEN a[i] ELSE b[i - Len(a)]
      BY ConcatProperties
    <3> QED
      BY <3>1, <2>1, <1>3, <1>7, ZenonT(30)
  <2>3. \A i \in 1..Len(handed) : handed'[i] = handed[i]
    BY <2>1, <2>2, <1>2, <1>7
  <2>4. ASSUME NEW k \in 1..Len(ev) PROVE handed'[Len(handed) + k] = ev[k].id
    <3>1. /\ Len(handed) + k \in 1..Len(handed) + Len(ev) /\ ~(Len(handed) + k <= Len(handed))
          /\ Len(handed) + k - Len(handed) = k
      BY <2>1, <1>2
    <3> QED
      BY <3>1, <2>2, <1>7
  <2> QED
    BY <2>1, <2>2, <2>3, <2>4, <1>7
<1>9. \A i \in 1..Len(handed') : i \in 1..Len(handed) \/ \E k \in 1..Len(ev) :
        i = Len(handed) + k /\ handed'[i] = ev[k].id
  <2> SUFFICES ASSUME NEW i \in 1..Len(handed'), i \notin 1..Len(handed)
               PROVE  \E k \in 1..Len(ev) : i = Len(handed) + k /\ handed'[i] = ev[k].id
    OBVIOUS
  <2>1. i - Len(handed) \in 1..Len(ev) /\ i = Len(handed) + (i - Len(handed))
    BY <1>2, <1>8
  <2> QED
    BY <2>1, <1>8
<1>10. DepotTypeOK'
  BY <1>3, <1>6, <1>8 DEF DepotIInv, DepotTypeOK
<1>11. StreamHolds(stream', command')
  BY <1>3 DEF DepotIInv
<1>12. MirageHolds(stream, command, m, x)
  <2>1. EventsHold(stream, command, m, Baseline(x), x.pending)
    BY <1>4 DEF EventsHold
  <2>2. ~x.overlapped => StateHolds(stream, x)
    BY <1>4, <1>a, <1>b DEF StateHolds
  <2> QED
    BY <2>1, <2>2, <1>4, <1>a DEF MirageHolds
<1>13. \A o \in Mirages : MirageHolds(stream', command', o, mirage'[o])
  BY <1>0, <1>3, <1>6, <1>12
<1>14. ASSUME NEW t \in SaveCalls, Active(save'[t])
       PROVE  SaveHolds(stream', command', save'[t], mirage'[save'[t].on])
  <2>1. t # s /\ save'[t] = save[t]
    BY <1>5, <1>6, <1>14
  <2>2. save[t].on \in Mirages /\ SaveHolds(stream, command, save[t], mirage[save[t].on])
    BY <2>1, <1>14, DepotParts
  <2>3. CASE save[t].on = m
    <3>1. SaveHolds(stream, command, save[t], x0) /\ SaveCovers(stream, save[t], x0)
      BY <2>2, <2>3 DEF SaveHolds, x0
    <3>2. SaveCovers(stream, save[t], x)
      BY <3>1, <1>4, <1>b DEF SaveCovers
    <3>3. SaveHolds(stream, command, save[t], x)
      BY <3>1, <3>2 DEF SaveHolds
    <3> QED
      BY <2>1, <2>3, <3>3, <1>3, <1>6
  <2>4. CASE save[t].on # m
    BY <2>1, <2>2, <2>4, <1>3, <1>6
  <2> QED
    BY <2>3, <2>4
<1>15. SavesAgree'
  <2>1. \A t \in SaveCalls : Unsent(save'[t]) => save'[t] = save[t]
    BY <1>5, <1>6
  <2>2. \A t \in SaveCalls : ~Shares(save[t].events, x.pending)
    BY <1>a DEF Shares
  <2>3. \A t \in SaveCalls, o \in Mirages :
          Unsent(save'[t]) /\ Shares(save'[t].events, mirage'[o].pending)
          => save'[t].expected = Baseline(mirage'[o])
    BY <2>1, <2>2, <1>6 DEF DepotIInv, SavesAgree
  <2>4. \A t, u \in SaveCalls :
          Unsent(save'[t]) /\ Unsent(save'[u]) /\ Shares(save'[t].events, save'[u].events)
          => save'[t].expected = save'[u].expected
    BY <2>1 DEF DepotIInv, SavesAgree
  <2> QED
    BY <2>3, <2>4 DEF SavesAgree
<1>16. HandedOnce /\ StoredApart /\ NoneForgotten
  BY DEF DepotIInv, HandedHolds
<1>17. HandedOnce'
  <2>1. ASSUME NEW i \in 1..Len(handed') PROVE \E j \in 1..Len(stream) : stream[j].id = handed'[i]
    <3>1. CASE i \in 1..Len(handed)
      BY <3>1, <1>8, <1>16 DEF HandedOnce
    <3>2. CASE i \notin 1..Len(handed)
      <4>1. PICK k \in 1..Len(ev) : handed'[i] = ev[k].id
        BY <3>2, <1>9
      <4>2. n + k \in 1..Len(stream) /\ stream[n + k] = ev[k]
        BY SMTT(60), <1>0, <1>1, <1>2 DEF StoredAt, n, ev
      <4> QED
        BY <4>1, <4>2
    <3> QED
      BY <3>1, <3>2
  <2>2. ASSUME NEW i \in 1..Len(handed'), NEW j \in 1..Len(handed'), handed'[i] = handed'[j]
        PROVE  i = j
    <3>1. \A k \in 1..Len(handed), l \in 1..Len(ev) : handed[k] # ev[l].id
      BY <1>1, <1>16 DEF StoredApart, ev
    <3>2. \A k, l \in 1..Len(ev) : ev[k].id = ev[l].id => k = l
      BY <1>1 DEF ev
    <3>3. CASE i \in 1..Len(handed) /\ j \in 1..Len(handed)
      BY <3>3, <2>2, <1>8, <1>16 DEF HandedOnce
    <3>4. CASE i \in 1..Len(handed) /\ j \notin 1..Len(handed)
      <4>1. PICK l \in 1..Len(ev) : handed'[j] = ev[l].id
        BY <3>4, <1>9
      <4> QED
        BY <4>1, <3>1, <3>4, <2>2, <1>8
    <3>5. CASE i \notin 1..Len(handed) /\ j \in 1..Len(handed)
      <4>1. PICK l \in 1..Len(ev) : handed'[i] = ev[l].id
        BY <3>5, <1>9
      <4> QED
        BY <4>1, <3>1, <3>5, <2>2, <1>8
    <3>6. CASE i \notin 1..Len(handed) /\ j \notin 1..Len(handed)
      <4>1. PICK k \in 1..Len(ev) : i = Len(handed) + k /\ handed'[i] = ev[k].id
        BY <3>6, <1>9
      <4>2. PICK l \in 1..Len(ev) : j = Len(handed) + l /\ handed'[j] = ev[l].id
        BY <3>6, <1>9
      <4> QED
        BY <4>1, <4>2, <3>2, <2>2
    <3> QED
      BY <3>3, <3>4, <3>5, <3>6
  <2> QED
    BY <2>1, <2>2, <1>3 DEF HandedOnce
<1>18. StoredApart'
  <2>1. ASSUME NEW t \in SaveCalls, save'[t].phase = "stored"
        PROVE  t # s /\ save'[t] = save[t] /\ save[t].phase = "stored"
    BY <2>1, <1>5, <1>6
  <2>2. ASSUME NEW t \in SaveCalls, save'[t].phase = "stored",
               NEW i \in 1..Len(handed'), NEW k \in 1..Len(save[t].events)
        PROVE  handed'[i] # save[t].events[k].id
    <3>1. t # s /\ save[t].phase = "stored"
      BY <2>1, <2>2
    <3>2. CASE i \in 1..Len(handed)
      BY <3>1, <3>2, <1>8, <1>16 DEF StoredApart
    <3>3. CASE i \notin 1..Len(handed)
      <4>1. PICK l \in 1..Len(ev) : handed'[i] = ev[l].id
        BY <3>3, <1>9
      <4>2. ~Shares(ev, save[t].events)
        BY <3>1, <1>1, <1>16 DEF StoredApart, ev
      <4> QED
        BY <4>1, <4>2 DEF Shares
    <3> QED
      BY <3>2, <3>3
  <2>3. ASSUME NEW t \in SaveCalls, save'[t].phase = "stored",
               NEW u \in SaveCalls, save'[u].phase = "stored", u # t
        PROVE  ~Shares(save'[t].events, save'[u].events)
    BY <2>1, <2>3, <1>16 DEF StoredApart
  <2> QED
    BY <2>1, <2>2, <2>3 DEF StoredApart
<1>19. NoneForgotten'
  <2> SUFFICES ASSUME depotFaults' = 0, NEW j \in 1..Len(stream'),
                      ~\E i \in 1..Len(handed') : handed'[i] = stream'[j].id
               PROVE  \E t \in SaveCalls : /\ save'[t].phase = "stored"
                         /\ \E k \in 1..Len(save'[t].events) : save'[t].events[k].id = stream'[j].id
    BY DEF NoneForgotten
  <2>1. depotFaults = 0 /\ stream' = stream /\ j \in 1..Len(stream)
    BY <1>3
  <2>2. ~\E i \in 1..Len(handed) : handed[i] = stream[j].id
    <3>1. \A i \in 1..Len(handed) : i \in 1..Len(handed')
      BY <1>2, <1>8
    <3> QED
      BY <2>1, <3>1, <1>8
  <2>3. PICK t \in SaveCalls : /\ save[t].phase = "stored"
                  /\ \E k \in 1..Len(save[t].events) : save[t].events[k].id = stream[j].id
    BY <2>1, <2>2, <1>16 DEF NoneForgotten
  <2>4. t # s
    <3> SUFFICES ASSUME t = s PROVE FALSE
      OBVIOUS
    <3>1. PICK k \in 1..Len(ev) : ev[k].id = stream[j].id
      BY <2>3 DEF ev
    <3>2. Len(handed) + k \in 1..Len(handed')
      BY <1>2, <1>8
    <3> QED
      BY <3>1, <3>2, <2>1, <1>8
  <2> QED
    BY <2>1, <2>3, <2>4, <1>6
<1> QED
  BY <1>10, <1>11, <1>13, <1>14, <1>15, <1>17, <1>18, <1>19 DEF DepotIInv, HandedHolds

LEMMA DiscardStep ==
  ASSUME DepotIInv, NEW m \in Mirages, Discard(m)
  PROVE  DepotIInv'
<1>0. /\ stream \in Seq(DepotEvents) /\ command \in CommandStates /\ depotFaults \in Nat
      /\ \A s \in SaveCalls : save[s] \in SaveStates
      /\ \A o \in Mirages : mirage[o] \in MirageCores /\ MirageHolds(stream, command, o, mirage[o])
  BY DepotParts
<1>1. /\ mirage' = [mirage EXCEPT ![m] = NotLoaded] /\ stream' = stream /\ handed' = handed
      /\ depotFaults' = depotFaults + 1
  BY DEF Discard, DepotFault
<1>2. command' \in CommandStates /\ Moves(command, command')
  BY <1>0 DEF Discard, CommandStates, Moves
<1>3. NotLoaded \in MirageCores /\ NotLoaded.pending = <<>> /\ MirageHolds(stream, command', m, NotLoaded)
  BY DEF NotLoaded, MirageCores, MirageHolds, EventsHold, StateHolds, Baseline
<1>4. Ended \in SaveStates /\ ~Active(Ended) /\ ~Unsent(Ended) /\ Ended.phase # "stored"
  <2>1. NotCalled \in SaveStates
    BY DEF NotCalled, SaveStates
  <2> QED
    BY <2>1 DEF Ended, SaveStates, Active, Unsent
<1>5. /\ save' \in [SaveCalls -> SaveStates]
      /\ \A s \in SaveCalls : save'[s] = IF save[s].on = m THEN Ended ELSE save[s]
  BY <1>0, <1>4 DEF Discard
<1>6. /\ mirage' \in [Mirages -> MirageCores] /\ mirage'[m] = NotLoaded
      /\ \A o \in Mirages \ {m} : mirage'[o] = mirage[o]
  BY <1>1, <1>3 DEF DepotIInv, DepotTypeOK
<1>7. \A s \in SaveCalls :
        /\ Active(save'[s]) \/ Unsent(save'[s]) \/ save'[s].phase = "stored"
        => save'[s] = save[s] /\ save[s].on # m
  BY <1>4, <1>5
<1>8. DepotTypeOK'
  BY <1>0, <1>1, <1>2, <1>5, <1>6 DEF DepotIInv, DepotTypeOK
<1>9. StreamHolds(stream', command')
  BY <1>0, <1>1, <1>2, CommandsMove DEF DepotIInv
<1>10. \A o \in Mirages : MirageHolds(stream', command', o, mirage'[o])
  BY <1>0, <1>1, <1>2, <1>3, <1>6, CommandsMove
<1>11. ASSUME NEW s \in SaveCalls, Active(save'[s])
       PROVE  SaveHolds(stream', command', save'[s], mirage'[save'[s].on])
  <2>1. save'[s] = save[s] /\ save[s].on # m
    BY <1>7, <1>11
  <2>2. save[s].on \in Mirages /\ SaveHolds(stream, command, save[s], mirage[save[s].on])
    BY <2>1, <1>11, DepotParts
  <2>3. SaveHolds(stream, command', save[s], mirage[save[s].on])
    BY <2>2, <1>0, <1>2, CommandsMove
  <2> QED
    BY <2>1, <2>2, <2>3, <1>1, <1>6
<1>12. SavesAgree'
  <2>1. \A s \in SaveCalls, o \in Mirages :
          Unsent(save'[s]) /\ Shares(save'[s].events, mirage'[o].pending)
          => save'[s].expected = Baseline(mirage'[o])
    <3> TAKE s \in SaveCalls, o \in Mirages
    <3>1. CASE o = m
      BY <3>1, <1>3, <1>6 DEF Shares
    <3>2. CASE o # m
      BY <3>2, <1>6, <1>7 DEF DepotIInv, SavesAgree
    <3> QED
      BY <3>1, <3>2
  <2>2. \A s, t \in SaveCalls :
          Unsent(save'[s]) /\ Unsent(save'[t]) /\ Shares(save'[s].events, save'[t].events)
          => save'[s].expected = save'[t].expected
    BY <1>7 DEF DepotIInv, SavesAgree
  <2> QED
    BY <2>1, <2>2 DEF SavesAgree
<1>13. HandedHolds'
  <2>0. HandedOnce /\ StoredApart
    BY DEF DepotIInv, HandedHolds
  <2>1. HandedOnce'
    BY <2>0, <1>1 DEF HandedOnce
  <2>2. StoredApart'
    <3>1. ASSUME NEW s \in SaveCalls, save'[s].phase = "stored"
          PROVE  save'[s] = save[s] /\ save[s].phase = "stored"
      BY <3>1, <1>7
    <3> QED
      <4>1. ASSUME NEW s \in SaveCalls, save'[s].phase = "stored"
            PROVE  /\ \A i \in 1..Len(handed), k \in 1..Len(save'[s].events) :
                        handed[i] # save'[s].events[k].id
                   /\ \A t \in SaveCalls : save'[t].phase = "stored" /\ t # s =>
                        ~Shares(save'[s].events, save'[t].events)
        BY <4>1, <3>1, <2>0 DEF StoredApart
      <4> QED
        BY <4>1, <1>1 DEF StoredApart, Shares
  <2>3. NoneForgotten'
    BY <1>0, <1>1 DEF NoneForgotten
  <2> QED
    BY <2>1, <2>2, <2>3 DEF HandedHolds
<1> QED
  BY <1>8, <1>9, <1>10, <1>11, <1>12, <1>13 DEF DepotIInv

LEMMA DepotStepInv == DepotIInv /\ [DepotNext]_depotVars => DepotIInv'
<1> SUFFICES ASSUME DepotIInv, [DepotNext]_depotVars PROVE DepotIInv'
  OBVIOUS
<1>1. ASSUME NEW m \in Mirages, NEW snapshot \in 0..Len(stream), Get(m, snapshot) PROVE DepotIInv'
  BY <1>1, GetStep
<1>2. ASSUME NEW m \in Mirages, Discard(m) PROVE DepotIInv'
  BY <1>2, DiscardStep
<1>3. ASSUME NEW m \in Mirages, NEW c \in Dispatched, Dispatch(c, m) PROVE DepotIInv'
  BY <1>3, DispatchStep
<1>4. ASSUME NEW m \in Mirages, NEW s \in SaveCalls, Save(s, m) PROVE DepotIInv'
  BY <1>4, SaveStep
<1>5. ASSUME NEW c \in Dispatched, NEW applied \in 0..EventCount[c], Execute(c, applied)
      PROVE  DepotIInv'
  BY <1>5, ExecuteStep
<1>6. ASSUME NEW s \in SaveCalls, BeforeAppendReturns(s) PROVE DepotIInv'
  BY <1>6, BeforeAppendStep
<1>7. ASSUME NEW s \in SaveCalls, BeforeAppendFails(s) \/ SaveEvents(s) \/ SaveEventsFails(s)
      PROVE  DepotIInv'
  BY <1>7, SaveEventsStep
<1>8. ASSUME NEW s \in SaveCalls, Saved(s) PROVE DepotIInv'
  BY <1>8, SavedStep
<1>9. CASE UNCHANGED depotVars
  BY <1>9 DEF depotVars, DepotIInv, DepotTypeOK, SavesAgree, HandedHolds, HandedOnce, StoredApart,
              NoneForgotten
<1> QED
  BY <1>1, <1>2, <1>3, <1>4, <1>5, <1>6, <1>7, <1>8, <1>9 DEF DepotNext

-----------------------------------------------------------------------------
LEMMA SavesRest == DepotIInv => SavesRestOnTheStream
<1> SUFFICES ASSUME DepotIInv PROVE SavesRestOnTheStream
  OBVIOUS
<1>0. stream \in Seq(DepotEvents) /\ Len(stream) \in Nat
  BY DepotParts
<1>1. ASSUME NEW b \in 0..Len(stream)
      PROVE  /\ Ids(SubSeq(stream, 1, b)) \in Seq(EventIds) /\ Len(Ids(SubSeq(stream, 1, b))) = b
             /\ \A i \in 1..b : Ids(SubSeq(stream, 1, b))[i] = stream[i].id
  <2> DEFINE a == SubSeq(stream, 1, b)
  <2>1. a \in Seq(DepotEvents) /\ Len(a) = b /\ \A i \in 1..b : a[i] = stream[i]
    BY <1>0
  <2> HIDE DEF a
  <2>2. Ids(a) \in Seq(EventIds) /\ Len(Ids(a)) = b /\ \A i \in 1..b : Ids(a)[i] = stream[i].id
    BY <2>1, IdsOf
  <2> QED
    BY <2>2 DEF a
<1>2. ASSUME NEW m \in Mirages, ~mirage[m].overlapped
      PROVE  LET b == mirage[m].version - Len(mirage[m].pending)
             IN /\ b <= Len(stream)
                /\ mirage[m].state = Ids(SubSeq(stream, 1, b)) \o Ids(mirage[m].pending)
  <2> DEFINE x == mirage[m]
             b == Baseline(x)
             a == Ids(SubSeq(stream, 1, b))
             e == Ids(x.pending)
  <2>1. /\ x \in MirageCores /\ Len(x.pending) <= x.version /\ StateHolds(stream, x)
    BY <1>2, DepotParts DEF MirageHolds
  <2>2. /\ x.pending \in Seq(DepotEvents) /\ Len(x.pending) \in Nat /\ x.version \in Nat
        /\ x.state \in Seq(EventIds)
    BY <2>1 DEF MirageCores
  <2>3. /\ b \in 0..Len(stream) /\ Len(x.state) = b + Len(x.pending)
        /\ \A i \in 1..Len(x.state) : x.state[i] = IF i <= b THEN stream[i].id ELSE x.pending[i - b].id
    <3>1. b = x.version - Len(x.pending)
      BY DEF Baseline
    <3>2. /\ b <= Len(stream) /\ Len(x.state) = x.version
          /\ \A i \in 1..Len(x.state) :
               x.state[i] = IF i <= b THEN stream[i].id ELSE x.pending[i - b].id
      BY <2>1 DEF StateHolds
    <3> HIDE DEF b, x
    <3>3. b \in 0..Len(stream) /\ x.version = b + Len(x.pending)
      BY <3>1, <3>2, <2>1, <2>2, <1>0
    <3> QED
      BY <3>2, <3>3
  <2> HIDE DEF b, x
  <2>4. a \in Seq(EventIds) /\ Len(a) = b /\ \A i \in 1..b : a[i] = stream[i].id
    BY <2>3, <1>1
  <2>5. e \in Seq(EventIds) /\ Len(e) = Len(x.pending) /\ \A i \in 1..Len(x.pending) : e[i] = x.pending[i].id
    BY <2>2, IdsOf
  <2> HIDE DEF a, e
  <2>6. /\ a \o e \in Seq(EventIds) /\ Len(a \o e) = b + Len(x.pending)
        /\ \A i \in 1..Len(a) + Len(e) : (a \o e)[i] = IF i <= Len(a) THEN a[i] ELSE e[i - Len(a)]
    <3>1. \A c, d \in Seq(EventIds) :
            /\ c \o d \in Seq(EventIds) /\ Len(c \o d) = Len(c) + Len(d)
            /\ \A i \in 1..Len(c) + Len(d) : (c \o d)[i] = IF i <= Len(c) THEN c[i] ELSE d[i - Len(c)]
      BY ConcatProperties
    <3> QED
      BY <3>1, <2>4, <2>5, ZenonT(30)
  <2>7. ASSUME NEW i \in 1..Len(x.state) PROVE x.state[i] = (a \o e)[i]
    <3>1. (a \o e)[i] = IF i <= b THEN a[i] ELSE e[i - b]
      BY <2>3, <2>4, <2>5, <2>6
    <3>2. CASE i <= b
      BY <3>1, <3>2, <2>3, <2>4
    <3>3. CASE ~(i <= b)
      <4>1. i - b \in 1..Len(x.pending)
        BY <3>3, <2>2, <2>3
      <4> QED
        BY <3>1, <3>3, <4>1, <2>3, <2>5
    <3> QED
      BY <3>2, <3>3
  <2>8. x.state = a \o e
    <3>1. Len(x.state) = Len(a \o e)
      BY <2>3, <2>6
    <3> QED
      BY <3>1, <2>2, <2>6, <2>7, SeqEqual
  <2> QED
    BY <2>3, <2>8, <1>0 DEF x, b, a, e, Baseline
<1>3. ASSUME NEW i \in 1..Len(stream), stream[i].clean
      PROVE  IsPrefix(stream[i].base, Ids(SubSeq(stream, 1, i - 1)))
  <2> DEFINE base == stream[i].base
             a == Ids(SubSeq(stream, 1, i - 1))
  <2>1. Len(base) <= i - 1 /\ \A k \in 1..Len(base) : base[k] = stream[k].id
    BY <1>3 DEF DepotIInv, StreamHolds
  <2>2. base \in Seq(EventIds)
    <3>1. stream[i] \in DepotEvents
      BY <1>0
    <3> QED
      BY <3>1 DEF DepotEvents
  <2>3. a \in Seq(EventIds) /\ Len(a) = i - 1 /\ \A k \in 1..i - 1 : a[k] = stream[k].id
    <3>1. i - 1 \in 0..Len(stream)
      BY <1>0
    <3> QED
      BY <3>1, <1>1
  <2> HIDE DEF base, a
  <2>4. PICK n \in Nat : n = Len(base)
    BY <2>2
  <2>5. SubSeq(base, 1, n) \in Seq(EventIds) /\ SubSeq(a, 1, n) \in Seq(EventIds)
    BY <2>1, <2>2, <2>3, <2>4
  <2>6. /\ Len(SubSeq(base, 1, n)) = n /\ Len(SubSeq(a, 1, n)) = n
        /\ \A k \in 1..n : SubSeq(base, 1, n)[k] = base[k] /\ SubSeq(a, 1, n)[k] = a[k]
    BY <2>1, <2>2, <2>3, <2>4
  <2>7. \A k \in 1..n : base[k] = a[k]
    BY <2>1, <2>3, <2>4
  <2>8. SubSeq(base, 1, n) = SubSeq(a, 1, n)
    BY <2>5, <2>6, <2>7, SeqEqual
  <2> QED
    BY <2>1, <2>3, <2>4, <2>8 DEF IsPrefix, base, a
<1> QED
  BY <1>0, <1>2, <1>3 DEF SavesRestOnTheStream

LEMMA EffectsFollow == DepotIInv => EffectsFollowCommit
<1> SUFFICES ASSUME DepotIInv PROVE EffectsFollowCommit
  OBVIOUS
<1>1. /\ DOMAIN stream = 1..Len(stream) /\ DOMAIN handed = 1..Len(handed)
      /\ \A s \in SaveCalls : save[s].events \in Seq(DepotEvents)
  BY DEF DepotIInv, DepotTypeOK, SaveStates
<1>2. HandedOnce /\ NoneForgotten
  BY DEF DepotIInv, HandedHolds
<1>3. IsInjective(handed) /\ \A i \in DOMAIN handed : \E j \in DOMAIN stream : stream[j].id = handed[i]
  BY <1>1, <1>2 DEF HandedOnce, IsInjective
<1>4. ASSUME NEW s \in SaveCalls, NEW k \in 1..Len(save[s].events)
      PROVE  save[s].events[k].id \in ToSet(Ids(save[s].events))
  <2>1. k \in DOMAIN Ids(save[s].events) /\ Ids(save[s].events)[k] = save[s].events[k].id
    BY <1>1 DEF Ids
  <2> QED
    BY <2>1 DEF ToSet
<1>5. depotFaults = 0 => \A j \in DOMAIN stream :
        \/ \E i \in DOMAIN handed : handed[i] = stream[j].id
        \/ \E s \in SaveCalls : save[s].phase = "stored" /\ stream[j].id \in ToSet(Ids(save[s].events))
  <2> SUFFICES ASSUME depotFaults = 0, NEW j \in DOMAIN stream,
                      ~\E i \in DOMAIN handed : handed[i] = stream[j].id
               PROVE  \E s \in SaveCalls : /\ save[s].phase = "stored"
                                           /\ stream[j].id \in ToSet(Ids(save[s].events))
    OBVIOUS
  <2>1. PICK s \in SaveCalls : /\ save[s].phase = "stored"
                  /\ \E k \in 1..Len(save[s].events) : save[s].events[k].id = stream[j].id
    BY <1>1, <1>2 DEF NoneForgotten
  <2> QED
    BY <2>1, <1>4
<1> QED
  BY <1>3, <1>5 DEF EffectsFollowCommit

(* Mirage and Depot, for any instances, commands, saves, lost replies and    *)
(* crashes: an instance that does not dispatch while it saves holds what the *)
(* stream holds and then its pending events, what it stores was decided on   *)
(* the events stored before it, and onAfterCommit is given stored events     *)
(* only, each once, and all of them when nothing fails (mirage.core.ts and   *)
(* Depot.ts).                                                                *)
THEOREM SavesFollowTheStream == DepotSpec => []SavesAndEffectsFollowTheStream
<1>1. DepotSpec => []DepotIInv
  BY DepotInitInv, DepotStepInv, PTL DEF DepotSpec
<1>2. DepotIInv => SavesAndEffectsFollowTheStream
  BY SavesRest, EffectsFollow DEF SavesAndEffectsFollowTheStream
<1> QED
  BY <1>1, <1>2, PTL

-----------------------------------------------------------------------------
(* The inductive invariant of the envelope plugins.                        *)

Extensions == [stamp : Nat, of : Payloads, valid : BOOLEAN]
EnvelopeCommands == [payload : Payloads, ext : [CommandPlugins -> SUBSET Extensions]]
EnvelopeCalls ==
  [phase : {"new", "awaiting", "failed", "done"}, command : EnvelopeCommands,
   cache : SUBSET [snapshot : EnvelopeCommands, own : [CommandPlugins -> SUBSET Extensions]],
   touched : BOOLEAN, dispatches : Nat, runs : Nat]
EnrichedEvents ==
  [of : Enveloped, number : Nat, payload : Payloads, touched : BOOLEAN,
   headers : SUBSET EnvelopePlugins, ext : [EnvelopePlugins -> SUBSET Extensions]]

EnvelopeTypeOK ==
  /\ call \in [Enveloped -> EnvelopeCalls]
  /\ enriched \in Seq(EnrichedEvents)
  /\ clock \in Nat

\* Every extension was derived from the payload that is given, and is valid.
DerivedFrom(ext, payload) ==
  \A p \in DOMAIN ext : \A v \in ext[p] : v.of = payload /\ v.valid

Prepared(given) ==
  \A p \in CommandPlugins : \E s \in Nat :
    given.ext[p] = {[stamp |-> s, of |-> given.payload, valid |-> TRUE]}

\* What is cached of a command is its own extensions, sound for its payload.
CachedIsSound(c) ==
  /\ call[c].phase = "awaiting" => call[c].cache # {}
  /\ \A e \in call[c].cache :
       /\ call[c].cache = {e}
       /\ e.own = e.snapshot.ext /\ DerivedFrom(e.own, e.snapshot.payload)

BegunByDispatch(c) == call[c].dispatches = 0 => call[c].phase = "new"

\* A command nobody changed is raw until its first dispatch and prepared after.
UntouchedIsPrepared(c) ==
  ~call[c].touched =>
    /\ call[c].runs = call[c].dispatches
    /\ call[c].dispatches = 0 =>
         call[c].command = Raw(call[c].command.payload)
    /\ call[c].dispatches # 0 =>
         /\ Prepared(call[c].command)
         /\ \A e \in call[c].cache : e.snapshot = call[c].command

\* What the events of a dispatch carry of the plugins.
EventExtensions(given) ==
  [p \in EnvelopePlugins |-> EventExtension(given.ext, p, given)]

UntouchedEventsAgree(c) ==
  /\ call[c].dispatches = 0 => \A i \in 1..Len(enriched) : enriched[i].of # c
  /\ ~call[c].touched =>
       \A i \in 1..Len(enriched) : enriched[i].of = c =>
         ~enriched[i].touched /\ enriched[i].ext = EventExtensions(call[c].command)
  /\ \A i, j \in 1..Len(enriched) :
       /\ enriched[i].of = c /\ enriched[j].of = c
       /\ ~enriched[i].touched /\ ~enriched[j].touched
       => enriched[i].ext = enriched[j].ext

EventsAreSound ==
  \A i \in 1..Len(enriched) : DerivedFrom(enriched[i].ext, enriched[i].payload)

EnvelopeIInv ==
  /\ EnvelopeTypeOK
  /\ EventsAreSound
  /\ \A c \in Enveloped :
       BegunByDispatch(c) /\ CachedIsSound(c) /\ UntouchedIsPrepared(c) /\ UntouchedEventsAgree(c)

\* An extended command is prepared, and extending it once more changes nothing.
LEMMA ExtendedIsPrepared ==
  ASSUME NEW raw \in EnvelopeCommands, clock \in Nat
  PROVE  /\ Extended(raw) \in EnvelopeCommands
         /\ Extended(raw).payload = raw.payload
         /\ Prepared(Extended(raw))
         /\ DerivedFrom(Extended(raw).ext, raw.payload)
         /\ Prepared(raw) => Extended(raw) = raw
<1> DEFINE stampOf(p) == IF raw.ext[p] = {} THEN clock + 1 ELSE (CHOOSE v \in raw.ext[p] : TRUE).stamp
<1>1. /\ raw.payload \in Payloads /\ raw.ext \in [CommandPlugins -> SUBSET Extensions]
      /\ raw = [payload |-> raw.payload, ext |-> raw.ext]
  BY DEF EnvelopeCommands
<1>2. \A p \in CommandPlugins : stampOf(p) \in Nat
  <2> SUFFICES ASSUME NEW p \in CommandPlugins PROVE stampOf(p) \in Nat
    OBVIOUS
  <2>1. CASE raw.ext[p] = {}
    BY <2>1
  <2>2. CASE raw.ext[p] # {}
    <3>1. (CHOOSE v \in raw.ext[p] : TRUE) \in raw.ext[p]
      BY <2>2
    <3>2. (CHOOSE v \in raw.ext[p] : TRUE) \in Extensions
      BY <1>1, <3>1
    <3> QED
      BY <2>2, <3>2 DEF Extensions
  <2> QED
    BY <2>1, <2>2
<1>3. /\ Extended(raw).payload = raw.payload
      /\ Extended(raw).ext = [p \in CommandPlugins |-> Derived(raw.ext[p], raw.payload)]
      /\ Extended(raw) = [payload |-> raw.payload, ext |-> Extended(raw).ext]
  BY <1>1 DEF Extended, EnvelopeCommands
<1>4. \A p \in CommandPlugins :
        Derived(raw.ext[p], raw.payload) = {[stamp |-> stampOf(p), of |-> raw.payload, valid |-> TRUE]}
  BY DEF Derived
<1>5. \A p \in CommandPlugins :
        Extended(raw).ext[p] = {[stamp |-> stampOf(p), of |-> raw.payload, valid |-> TRUE]}
  BY <1>3, <1>4
<1> HIDE DEF stampOf
<1>6. \A p \in CommandPlugins : Extended(raw).ext[p] \in SUBSET Extensions
  <2> SUFFICES ASSUME NEW p \in CommandPlugins PROVE Extended(raw).ext[p] \in SUBSET Extensions
    OBVIOUS
  <2>1. [stamp |-> stampOf(p), of |-> raw.payload, valid |-> TRUE] \in Extensions
    BY <1>1, <1>2 DEF Extensions
  <2> QED
    BY <1>5, <2>1
<1>7. Extended(raw) \in EnvelopeCommands
  BY <1>1, <1>3, <1>6 DEF EnvelopeCommands
<1>8. Prepared(Extended(raw)) /\ DerivedFrom(Extended(raw).ext, raw.payload)
  BY <1>2, <1>3, <1>5 DEF Prepared, DerivedFrom
<1>9. ASSUME Prepared(raw) PROVE Extended(raw) = raw
  <2>1. \A p \in CommandPlugins : Extended(raw).ext[p] = raw.ext[p]
    <3> SUFFICES ASSUME NEW p \in CommandPlugins PROVE Extended(raw).ext[p] = raw.ext[p]
      OBVIOUS
    <3>1. PICK s \in Nat : raw.ext[p] = {[stamp |-> s, of |-> raw.payload, valid |-> TRUE]}
      BY <1>9 DEF Prepared
    <3>2. (CHOOSE v \in raw.ext[p] : TRUE) = [stamp |-> s, of |-> raw.payload, valid |-> TRUE]
      BY <3>1
    <3>3. stampOf(p) = s
      BY <3>1, <3>2 DEF stampOf
    <3> QED
      BY <1>5, <3>1, <3>3
  <2>2. Extended(raw).ext = raw.ext
    BY <1>1, <1>3, <2>1
  <2> QED
    BY <1>1, <1>3, <2>2
<1> QED
  BY <1>3, <1>7, <1>8, <1>9

\* The command a dispatch or a processing goes on with is sound, and its cache
\* entry holds its own extensions.
LEMMA PreparedIsSound ==
  ASSUME NEW raw \in EnvelopeCommands, clock \in Nat, NEW cache,
         \A e \in cache : cache = {e} /\ e.own = e.snapshot.ext /\ DerivedFrom(e.own, e.snapshot.payload),
         cache \in SUBSET [snapshot : EnvelopeCommands, own : [CommandPlugins -> SUBSET Extensions]],
         NEW prepared, prepared = PrepareCommand(raw, cache)
  PROVE  /\ prepared.ok \in BOOLEAN /\ prepared.fresh \in BOOLEAN
         /\ prepared.command \in EnvelopeCommands
         /\ prepared.cache \in SUBSET [snapshot : EnvelopeCommands, own : [CommandPlugins -> SUBSET Extensions]]
         /\ \A e \in prepared.cache : /\ prepared.cache = {e}
                                      /\ e.own = e.snapshot.ext
                                      /\ DerivedFrom(e.own, e.snapshot.payload)
         /\ prepared.ok => /\ prepared.cache # {}
                           /\ \A e \in prepared.cache : e.snapshot = prepared.command
         /\ ~prepared.ok => prepared.command = raw /\ ~prepared.fresh /\ Rejected(raw)
         /\ prepared.fresh => prepared.command = Extended(raw) /\ ~Unchanged(raw, cache)
         /\ prepared.ok /\ ~prepared.fresh => prepared.command = raw /\ Unchanged(raw, cache)
<1>1. CASE Unchanged(raw, cache)
  <2>1. prepared = [ok |-> TRUE, fresh |-> FALSE, command |-> raw, cache |-> cache]
    BY <1>1 DEF PrepareCommand
  <2>2. cache # {} /\ \A e \in cache : e.snapshot = raw
    BY <1>1 DEF Unchanged
  <2> QED
    BY <1>1, <2>1, <2>2
<1>2. CASE ~Unchanged(raw, cache) /\ Rejected(raw)
  <2>1. prepared = [ok |-> FALSE, fresh |-> FALSE, command |-> raw, cache |-> cache]
    BY <1>2 DEF PrepareCommand
  <2> QED
    BY <1>2, <2>1
<1>3. CASE ~Unchanged(raw, cache) /\ ~Rejected(raw)
  <2>1. prepared = [ok |-> TRUE, fresh |-> TRUE, command |-> Extended(raw),
                    cache |-> {[snapshot |-> Extended(raw), own |-> Extended(raw).ext]}]
    BY <1>3 DEF PrepareCommand
  <2>2. Extended(raw) \in EnvelopeCommands /\ DerivedFrom(Extended(raw).ext, Extended(raw).payload)
    BY ExtendedIsPrepared
  <2>3. Extended(raw).ext \in [CommandPlugins -> SUBSET Extensions]
    BY <2>2 DEF EnvelopeCommands
  <2> DEFINE entry == [snapshot |-> Extended(raw), own |-> Extended(raw).ext]
  <2>4. prepared.cache = {entry}
    BY <2>1
  <2>5. /\ entry \in [snapshot : EnvelopeCommands, own : [CommandPlugins -> SUBSET Extensions]]
        /\ entry.snapshot = Extended(raw) /\ entry.own = Extended(raw).ext
    BY <2>2, <2>3
  <2> HIDE DEF entry
  <2>6. /\ prepared.ok /\ prepared.fresh /\ prepared.command = Extended(raw)
    BY <2>1
  <2> QED
    BY <1>3, <2>2, <2>4, <2>5, <2>6
<1> QED
  BY <1>1, <1>2, <1>3

LEMMA RawAndPreparedPass ==
  ASSUME NEW raw \in EnvelopeCommands, Prepared(raw) \/ raw = Raw(raw.payload)
  PROVE  ~Rejected(raw)
<1>1. CASE Prepared(raw)
  BY <1>1 DEF Prepared, Rejected
<1>2. CASE raw = Raw(raw.payload)
  <2>1. \A p \in CommandPlugins : raw.ext[p] = {}
    BY <1>2 DEF Raw
  <2> QED
    BY <2>1 DEF Rejected
<1> QED
  BY <1>1, <1>2

LEMMA EnvelopeInitInv == EnvelopeInit => EnvelopeIInv
<1> SUFFICES ASSUME EnvelopeInit PROVE EnvelopeIInv
  OBVIOUS
<1>1. PICK first \in Payloads :
        call = [c \in Enveloped |-> [phase |-> "new", command |-> Raw(first), cache |-> {},
                                     touched |-> FALSE, dispatches |-> 0, runs |-> 0]]
  BY DEF EnvelopeInit
<1>2. enriched = <<>> /\ clock = 0
  BY DEF EnvelopeInit
<1>3. Raw(first) \in EnvelopeCommands /\ Raw(first).payload = first
  BY DEF Raw, EnvelopeCommands
<1>4. EnvelopeTypeOK
  BY <1>1, <1>2, <1>3 DEF EnvelopeTypeOK, EnvelopeCalls
<1>5. EventsAreSound
  BY <1>2 DEF EventsAreSound
<1>6. \A c \in Enveloped :
        BegunByDispatch(c) /\ CachedIsSound(c) /\ UntouchedIsPrepared(c) /\ UntouchedEventsAgree(c)
  BY <1>1, <1>2, <1>3 DEF BegunByDispatch, CachedIsSound, UntouchedIsPrepared, UntouchedEventsAgree
<1> QED
  BY <1>4, <1>5, <1>6 DEF EnvelopeIInv

\* What is said of a command rests on its call and on the events alone.
LEMMA OthersRest ==
  ASSUME NEW c \in Enveloped, call'[c] = call[c], enriched' = enriched, EnvelopeIInv
  PROVE  /\ BegunByDispatch(c)' /\ CachedIsSound(c)' /\ UntouchedIsPrepared(c)' /\ UntouchedEventsAgree(c)'
<1>1. BegunByDispatch(c) /\ CachedIsSound(c) /\ UntouchedIsPrepared(c) /\ UntouchedEventsAgree(c)
  BY DEF EnvelopeIInv
<1>2. BegunByDispatch(c)' /\ CachedIsSound(c)'
  BY <1>1 DEF BegunByDispatch, CachedIsSound, DerivedFrom
<1>3. UntouchedIsPrepared(c)'
  BY <1>1 DEF UntouchedIsPrepared, Raw, Prepared
<1>4. UntouchedEventsAgree(c)'
  BY <1>1 DEF UntouchedEventsAgree, EventExtensions, EventExtension
<1> QED
  BY <1>2, <1>3, <1>4

LEMMA DispatchEnvelopeInv ==
  ASSUME EnvelopeIInv, NEW c \in Enveloped, DispatchEnvelope(c) PROVE EnvelopeIInv'
<1> DEFINE raw == call[c].command
           prepared == PrepareCommand(raw, {})
           next == [phase |-> IF prepared.ok THEN "awaiting" ELSE "failed", command |-> prepared.command,
                    cache |-> prepared.cache, touched |-> call[c].touched,
                    dispatches |-> call[c].dispatches + 1,
                    runs |-> call[c].runs + IF prepared.fresh THEN 1 ELSE 0]
<1>1. /\ call \in [Enveloped -> EnvelopeCalls] /\ clock \in Nat /\ enriched \in Seq(EnrichedEvents)
      /\ call[c] \in EnvelopeCalls
      /\ raw \in EnvelopeCommands /\ call[c].touched \in BOOLEAN
      /\ call[c].dispatches \in Nat /\ call[c].runs \in Nat
  BY DEF EnvelopeIInv, EnvelopeTypeOK, EnvelopeCalls
<1>2. /\ call' = [call EXCEPT ![c] = next]
      /\ clock' = IF prepared.fresh THEN clock + 1 ELSE clock
      /\ enriched' = enriched
  BY <1>1 DEF DispatchEnvelope, Ran
<1>3. call'[c] = next /\ \A d \in Enveloped \ {c} : call'[d] = call[d]
  BY <1>1, <1>2
<1> HIDE DEF prepared
<1>4. /\ prepared.ok \in BOOLEAN /\ prepared.fresh \in BOOLEAN
      /\ prepared.command \in EnvelopeCommands
      /\ prepared.cache \in SUBSET [snapshot : EnvelopeCommands, own : [CommandPlugins -> SUBSET Extensions]]
      /\ \A e \in prepared.cache : /\ prepared.cache = {e}
                                   /\ e.own = e.snapshot.ext
                                   /\ DerivedFrom(e.own, e.snapshot.payload)
      /\ prepared.ok => /\ prepared.cache # {}
                        /\ \A e \in prepared.cache : e.snapshot = prepared.command
      /\ ~prepared.ok => Rejected(raw)
      /\ prepared.fresh => prepared.command = Extended(raw)
      /\ prepared.ok => prepared.fresh
  <2>1. ~Unchanged(raw, {})
    BY DEF Unchanged
  <2> QED
    BY <1>1, <2>1, PreparedIsSound DEF prepared
<1>5. next \in EnvelopeCalls
  BY <1>1, <1>4 DEF EnvelopeCalls
<1>6. EnvelopeTypeOK'
  BY <1>1, <1>2, <1>4, <1>5 DEF EnvelopeTypeOK
<1>7. EventsAreSound'
  BY <1>2 DEF EnvelopeIInv, EventsAreSound, DerivedFrom
<1>8. BegunByDispatch(c)' /\ CachedIsSound(c)'
  BY <1>1, <1>3, <1>4 DEF BegunByDispatch, CachedIsSound, DerivedFrom
<1>9. ASSUME ~call[c].touched
      PROVE  /\ prepared.ok /\ prepared.fresh /\ Prepared(prepared.command)
             /\ call[c].dispatches # 0 => prepared.command = raw
  <2>1. /\ call[c].dispatches = 0 => raw = Raw(raw.payload)
        /\ call[c].dispatches # 0 => Prepared(raw)
    BY <1>9 DEF EnvelopeIInv, UntouchedIsPrepared
  <2>2. ~Rejected(raw)
    BY <1>1, <2>1, RawAndPreparedPass
  <2>3. prepared.ok /\ prepared.fresh /\ prepared.command = Extended(raw)
    BY <1>4, <2>2
  <2> QED
    BY <1>1, <2>1, <2>3, ExtendedIsPrepared
<1>10. UntouchedIsPrepared(c)'
  <2>1. ~call[c].touched => call[c].runs = call[c].dispatches
    BY DEF EnvelopeIInv, UntouchedIsPrepared
  <2>2. call'[c].dispatches # 0
    BY <1>1, <1>3
  <2>3. ~call'[c].touched => call'[c].runs = call'[c].dispatches
    BY <1>1, <1>3, <1>4, <1>9, <2>1
  <2>4. ~call'[c].touched => /\ Prepared(call'[c].command)
                             /\ \A e \in call'[c].cache : e.snapshot = call'[c].command
    BY <1>1, <1>3, <1>4, <1>9
  <2> QED
    BY <2>2, <2>3, <2>4 DEF UntouchedIsPrepared, Prepared
<1>11. UntouchedEventsAgree(c)'
  <2>1. UntouchedEventsAgree(c)
    BY DEF EnvelopeIInv
  <2>2. call'[c].dispatches # 0 /\ call'[c].touched = call[c].touched
    BY <1>1, <1>3
  <2>3. ~call[c].touched /\ call[c].dispatches # 0 => call'[c].command = call[c].command
    BY <1>3, <1>9
  <2> QED
    BY <1>2, <2>1, <2>2, <2>3 DEF UntouchedEventsAgree, EventExtensions, EventExtension
<1>12. \A d \in Enveloped :
         BegunByDispatch(d)' /\ CachedIsSound(d)' /\ UntouchedIsPrepared(d)' /\ UntouchedEventsAgree(d)'
  BY <1>2, <1>3, <1>8, <1>10, <1>11, OthersRest
<1> QED
  BY <1>6, <1>7, <1>12 DEF EnvelopeIInv

LEMMA TouchInv ==
  ASSUME EnvelopeIInv, NEW c \in Enveloped, NEW changed \in Edits(call[c].command), Touch(c, changed)
  PROVE  EnvelopeIInv'
<1>1. /\ call \in [Enveloped -> EnvelopeCalls] /\ clock \in Nat /\ enriched \in Seq(EnrichedEvents)
      /\ call[c] \in EnvelopeCalls /\ call[c].command \in EnvelopeCommands
  BY DEF EnvelopeIInv, EnvelopeTypeOK, EnvelopeCalls
<1>2. /\ call' = [call EXCEPT ![c].command = changed, ![c].touched = TRUE]
      /\ enriched' = enriched /\ clock' = clock
  BY DEF Touch
<1>3. call'[c] = [call[c] EXCEPT !.command = changed, !.touched = TRUE]
      /\ \A d \in Enveloped \ {c} : call'[d] = call[d]
  BY <1>1, <1>2
<1>4. changed \in EnvelopeCommands
  <2>1. CASE changed \in {[call[c].command EXCEPT !.payload = payload] : payload \in Payloads}
    BY <1>1, <2>1 DEF EnvelopeCommands
  <2>2. CASE \E p \in CommandPlugins, payload \in Payloads, valid \in BOOLEAN :
               changed = [call[c].command EXCEPT !.ext[p] = {[stamp |-> 0, of |-> payload, valid |-> valid]}]
    <3>1. PICK p \in CommandPlugins, payload \in Payloads, valid \in BOOLEAN :
               changed = [call[c].command EXCEPT !.ext[p] = {[stamp |-> 0, of |-> payload, valid |-> valid]}]
      BY <2>2
    <3>2. {[stamp |-> 0, of |-> payload, valid |-> valid]} \in SUBSET Extensions
      BY DEF Extensions
    <3> QED
      BY <1>1, <3>1, <3>2 DEF EnvelopeCommands
  <2> QED
    BY <2>1, <2>2 DEF Edits
<1>5. /\ call'[c] \in EnvelopeCalls
      /\ call'[c].phase = call[c].phase /\ call'[c].cache = call[c].cache
      /\ call'[c].dispatches = call[c].dispatches /\ call'[c].touched
  BY <1>1, <1>3, <1>4 DEF EnvelopeCalls
<1>6. EnvelopeTypeOK'
  <2>1. \A d \in Enveloped : call'[d] \in EnvelopeCalls
    BY <1>1, <1>3, <1>5
  <2> QED
    BY <1>1, <1>2, <2>1 DEF EnvelopeTypeOK
<1>7. EventsAreSound'
  BY <1>2 DEF EnvelopeIInv, EventsAreSound, DerivedFrom
<1>8. BegunByDispatch(c)' /\ CachedIsSound(c)' /\ UntouchedIsPrepared(c)' /\ UntouchedEventsAgree(c)'
  <2>1. BegunByDispatch(c) /\ CachedIsSound(c) /\ UntouchedEventsAgree(c)
    BY DEF EnvelopeIInv
  <2>2. BegunByDispatch(c)' /\ CachedIsSound(c)'
    BY <1>5, <2>1 DEF BegunByDispatch, CachedIsSound, DerivedFrom
  <2>3. UntouchedIsPrepared(c)'
    BY <1>5 DEF UntouchedIsPrepared
  <2>4. UntouchedEventsAgree(c)'
    BY <1>2, <1>5, <2>1 DEF UntouchedEventsAgree
  <2> QED
    BY <2>2, <2>3, <2>4
<1>9. \A d \in Enveloped :
        BegunByDispatch(d)' /\ CachedIsSound(d)' /\ UntouchedIsPrepared(d)' /\ UntouchedEventsAgree(d)'
  BY <1>2, <1>3, <1>8, OthersRest
<1> QED
  BY <1>6, <1>7, <1>9 DEF EnvelopeIInv

\* The extensions of an event are those of the prepared command, and sound.
LEMMA PreparedExtensions ==
  ASSUME NEW prepared, prepared.command \in EnvelopeCommands,
         NEW c \in Enveloped, call[c].touched \in BOOLEAN,
         DerivedFrom(prepared.command.ext, prepared.command.payload),
         NEW e, prepared.cache = {e}, e.own = prepared.command.ext,
         NEW k \in 1..Len(HeaderWriters[prepared.command.payload]), k \in Nat
  PROVE  /\ PrepareEvent(c, prepared, k) \in EnrichedEvents
         /\ PrepareEvent(c, prepared, k).of = c
         /\ PrepareEvent(c, prepared, k).touched = call[c].touched
         /\ PrepareEvent(c, prepared, k).ext = EventExtensions(prepared.command)
         /\ DerivedFrom(PrepareEvent(c, prepared, k).ext, PrepareEvent(c, prepared, k).payload)
<1>1. /\ prepared.command.payload \in Payloads
      /\ prepared.command.ext \in [CommandPlugins -> SUBSET Extensions]
  BY DEF EnvelopeCommands
<1>2. HeaderWriters[prepared.command.payload][k] \in SUBSET EnvelopePlugins
  <2>1. HeaderWriters[prepared.command.payload] \in Seq(SUBSET EnvelopePlugins)
    BY <1>1, EnvelopeAssumption
  <2> QED
    BY <2>1
<1>3. (CHOOSE entry \in prepared.cache : TRUE) = e
  OBVIOUS
<1>4. PrepareEvent(c, prepared, k) =
        [of |-> c, number |-> k, payload |-> prepared.command.payload, touched |-> call[c].touched,
         headers |-> HeaderWriters[prepared.command.payload][k], ext |-> EventExtensions(prepared.command)]
  BY <1>3 DEF PrepareEvent, EventExtensions
<1>5. ASSUME NEW p \in EnvelopePlugins
      PROVE  /\ EventExtension(prepared.command.ext, p, prepared.command) \in SUBSET Extensions
             /\ \A v \in EventExtension(prepared.command.ext, p, prepared.command) :
                  v.of = prepared.command.payload /\ v.valid
  <2>1. CASE p \in CommandPlugins
    BY <1>1, <2>1 DEF EventExtension, DerivedFrom
  <2>2. CASE p \notin CommandPlugins
    <3>1. [stamp |-> 0, of |-> prepared.command.payload, valid |-> TRUE] \in Extensions
      BY <1>1 DEF Extensions
    <3> QED
      BY <2>2, <3>1 DEF EventExtension
  <2> QED
    BY <2>1, <2>2
<1>6. /\ EventExtensions(prepared.command) \in [EnvelopePlugins -> SUBSET Extensions]
      /\ DerivedFrom(EventExtensions(prepared.command), prepared.command.payload)
  BY <1>5 DEF EventExtensions, DerivedFrom
<1>7. PrepareEvent(c, prepared, k) \in EnrichedEvents
  BY <1>1, <1>2, <1>4, <1>6 DEF EnrichedEvents
<1> QED
  BY <1>4, <1>6, <1>7

LEMMA ProcessEnvelopeInv ==
  ASSUME EnvelopeIInv, NEW c \in Enveloped, ProcessEnvelope(c) PROVE EnvelopeIInv'
<1> DEFINE raw == call[c].command
           prepared == PrepareCommand(raw, call[c].cache)
           count == Len(HeaderWriters[prepared.command.payload])
           fails == ~prepared.ok \/ \E k \in 1 .. count : Collides(prepared.command.payload, k)
           next == [phase |-> IF fails THEN "failed" ELSE "done", command |-> prepared.command,
                    cache |-> prepared.cache, touched |-> call[c].touched,
                    dispatches |-> call[c].dispatches,
                    runs |-> call[c].runs + IF prepared.fresh THEN 1 ELSE 0]
           added == [k \in 1 .. count |-> PrepareEvent(c, prepared, k)]
<1>1. /\ call \in [Enveloped -> EnvelopeCalls] /\ clock \in Nat /\ enriched \in Seq(EnrichedEvents)
      /\ call[c] \in EnvelopeCalls
      /\ raw \in EnvelopeCommands /\ call[c].touched \in BOOLEAN
      /\ call[c].dispatches \in Nat /\ call[c].runs \in Nat
      /\ call[c].cache \in SUBSET [snapshot : EnvelopeCommands, own : [CommandPlugins -> SUBSET Extensions]]
  <2> HIDE DEF fails, prepared, next, added
  <2>1. call \in [Enveloped -> EnvelopeCalls] /\ clock \in Nat /\ enriched \in Seq(EnrichedEvents)
    BY DEF EnvelopeIInv, EnvelopeTypeOK
  <2>2. call[c] \in EnvelopeCalls
    BY ONLY <2>1, c \in Enveloped
  <2>3. \A v \in EnvelopeCalls : /\ v.command \in EnvelopeCommands
                                 /\ v.touched \in BOOLEAN
                                 /\ v.dispatches \in Nat
                                 /\ v.runs \in Nat
    BY DEF EnvelopeCalls
  <2>4. \A v \in EnvelopeCalls :
          v.cache \in SUBSET [snapshot : EnvelopeCommands, own : [CommandPlugins -> SUBSET Extensions]]
    BY Zenon DEF EnvelopeCalls
  <2> QED
    BY ONLY <2>1, <2>2, <2>3, <2>4 DEF raw
<1>2. /\ call[c].phase = "awaiting"
      /\ call' = [call EXCEPT ![c].phase = IF fails THEN "failed" ELSE "done",
                              ![c].command = prepared.command, ![c].cache = prepared.cache,
                              ![c].runs = Ran(c, prepared)]
      /\ clock' = IF prepared.fresh THEN clock + 1 ELSE clock
      /\ enriched' = IF fails THEN enriched ELSE enriched \o added
  BY DEF ProcessEnvelope
<1>3. call'[c] = next /\ \A d \in Enveloped \ {c} : call'[d] = call[d]
  <2> HIDE DEF fails, prepared
  <2>1. Ran(c, prepared) = call[c].runs + IF prepared.fresh THEN 1 ELSE 0
    BY DEF Ran
  <2>2. call' = [call EXCEPT ![c] = [@ EXCEPT !.phase = IF fails THEN "failed" ELSE "done",
                                              !.command = prepared.command, !.cache = prepared.cache,
                                              !.runs = Ran(c, prepared)]]
    BY <1>1, <1>2
  <2>3. /\ call'[c] = [call[c] EXCEPT !.phase = IF fails THEN "failed" ELSE "done",
                                      !.command = prepared.command, !.cache = prepared.cache,
                                      !.runs = Ran(c, prepared)]
        /\ \A d \in Enveloped \ {c} : call'[d] = call[d]
    BY <1>1, <2>2
  <2> QED
    BY <1>1, <2>1, <2>3 DEF EnvelopeCalls
<1> HIDE DEF prepared, fails, added
<1>4. /\ CachedIsSound(c) /\ UntouchedIsPrepared(c) /\ UntouchedEventsAgree(c) /\ BegunByDispatch(c)
      /\ EventsAreSound
  BY DEF EnvelopeIInv
<1>5. \A e \in call[c].cache : /\ call[c].cache = {e}
                               /\ e.own = e.snapshot.ext /\ DerivedFrom(e.own, e.snapshot.payload)
  BY <1>4 DEF CachedIsSound
<1>6. /\ prepared.ok \in BOOLEAN /\ prepared.fresh \in BOOLEAN
      /\ prepared.command \in EnvelopeCommands
      /\ prepared.cache \in SUBSET [snapshot : EnvelopeCommands, own : [CommandPlugins -> SUBSET Extensions]]
      /\ \A e \in prepared.cache : /\ prepared.cache = {e}
                                   /\ e.own = e.snapshot.ext
                                   /\ DerivedFrom(e.own, e.snapshot.payload)
      /\ prepared.ok => /\ prepared.cache # {}
                        /\ \A e \in prepared.cache : e.snapshot = prepared.command
      /\ ~prepared.ok => prepared.command = raw /\ ~prepared.fresh
      /\ prepared.fresh => ~Unchanged(raw, call[c].cache)
      /\ prepared.ok /\ ~prepared.fresh => prepared.command = raw
      /\ Unchanged(raw, call[c].cache) =>
           prepared.ok /\ ~prepared.fresh /\ prepared.cache = call[c].cache
  <2>1. Unchanged(raw, call[c].cache) =>
          prepared = [ok |-> TRUE, fresh |-> FALSE, command |-> raw, cache |-> call[c].cache]
    BY DEF PrepareCommand, prepared
  <2> QED
    BY <1>1, <1>5, <2>1, PreparedIsSound DEF prepared
<1>7. /\ call'[c] \in EnvelopeCalls
      /\ call'[c].phase \in {"failed", "done"}
      /\ call'[c].command = prepared.command /\ call'[c].cache = prepared.cache
      /\ call'[c].touched = call[c].touched /\ call'[c].dispatches = call[c].dispatches
      /\ call'[c].runs = call[c].runs + IF prepared.fresh THEN 1 ELSE 0
  BY <1>1, <1>3, <1>6 DEF EnvelopeCalls
<1>8. count \in Nat
  <2>1. HeaderWriters[prepared.command.payload] \in Seq(SUBSET EnvelopePlugins)
    BY <1>6, EnvelopeAssumption DEF EnvelopeCommands
  <2> QED
    BY <2>1
<1>9. ASSUME ~fails, NEW k \in 1..count
      PROVE  /\ PrepareEvent(c, prepared, k) \in EnrichedEvents
             /\ PrepareEvent(c, prepared, k).of = c
             /\ PrepareEvent(c, prepared, k).touched = call[c].touched
             /\ PrepareEvent(c, prepared, k).ext = EventExtensions(prepared.command)
             /\ DerivedFrom(PrepareEvent(c, prepared, k).ext, PrepareEvent(c, prepared, k).payload)
  <2>1. prepared.ok
    BY <1>9 DEF fails
  <2>2. PICK e : e \in prepared.cache
    BY <1>6, <2>1
  <2>3. /\ prepared.cache = {e} /\ e.own = prepared.command.ext
        /\ DerivedFrom(prepared.command.ext, prepared.command.payload)
    BY <1>6, <2>1, <2>2
  <2>4. k \in 1..Len(HeaderWriters[prepared.command.payload]) /\ k \in Nat
    BY <1>8
  <2> QED
    BY <1>1, <1>6, <2>3, <2>4, PreparedExtensions
<1> HIDE DEF count
<1>10. ~fails => /\ added \in Seq(EnrichedEvents) /\ Len(added) = count
                 /\ \A k \in 1..count : added[k] = PrepareEvent(c, prepared, k)
  BY <1>8, <1>9 DEF added
<1>11. /\ enriched' \in Seq(EnrichedEvents) /\ Len(enriched) \in Nat
       /\ \A i \in 1..Len(enriched) : i \in 1..Len(enriched') /\ enriched'[i] = enriched[i]
       /\ \A i \in 1..Len(enriched') : i \notin 1..Len(enriched) =>
            \E k \in 1..count : ~fails /\ enriched'[i] = PrepareEvent(c, prepared, k)
  <2>1. CASE fails
    BY <1>1, <1>2, <2>1
  <2>2. CASE ~fails
    <3>1. /\ enriched' \in Seq(EnrichedEvents) /\ Len(enriched') = Len(enriched) + count
          /\ Len(enriched) \in Nat
          /\ \A i \in 1..Len(enriched') : enriched'[i] = IF i <= Len(enriched) THEN enriched[i]
                                                        ELSE added[i - Len(enriched)]
      <4>1. enriched' = enriched \o added
        BY <1>2, <2>2
      <4>2. added \in Seq(EnrichedEvents) /\ Len(added) = count
        BY <1>10, <2>2
      <4>3. /\ enriched' \in Seq(EnrichedEvents) /\ Len(enriched') = Len(enriched) + Len(added)
            /\ \A i \in 1..Len(enriched) + Len(added) :
                 enriched'[i] = IF i <= Len(enriched) THEN enriched[i] ELSE added[i - Len(enriched)]
        BY <1>1, <4>1, <4>2, ConcatProperties
      <4> QED
        BY <1>1, <4>2, <4>3, LenProperties
    <3>2. ASSUME NEW i \in 1..Len(enriched'), i \notin 1..Len(enriched)
          PROVE  \E k \in 1..count : enriched'[i] = PrepareEvent(c, prepared, k)
      <4>1. i - Len(enriched) \in 1..count /\ ~(i <= Len(enriched))
        BY <1>8, <3>1, <3>2
      <4> QED
        BY <1>10, <2>2, <3>1, <4>1
    <3>3. \A i \in 1..Len(enriched) : i \in 1..Len(enriched') /\ enriched'[i] = enriched[i]
      BY <1>8, <3>1
    <3> QED
      BY <2>2, <3>1, <3>2, <3>3
  <2> QED
    BY <2>1, <2>2
<1>12. \A i \in 1..Len(enriched') : i \notin 1..Len(enriched) =>
         /\ enriched'[i].of = c /\ enriched'[i].touched = call[c].touched
         /\ enriched'[i].ext = EventExtensions(prepared.command)
         /\ DerivedFrom(enriched'[i].ext, enriched'[i].payload)
  BY <1>9, <1>11
<1>13. EnvelopeTypeOK'
  <2>1. \A d \in Enveloped : call'[d] \in EnvelopeCalls
    BY <1>1, <1>3, <1>7
  <2> QED
    BY <1>1, <1>2, <1>6, <1>11, <2>1 DEF EnvelopeTypeOK
<1>14. EventsAreSound'
  <2> SUFFICES ASSUME NEW i \in 1..Len(enriched')
               PROVE  DerivedFrom(enriched'[i].ext, enriched'[i].payload)
    BY DEF EventsAreSound, DerivedFrom
  <2>1. CASE i \in 1..Len(enriched)
    BY <1>4, <1>11, <2>1 DEF EventsAreSound
  <2>2. CASE i \notin 1..Len(enriched)
    BY <1>12, <2>2
  <2> QED
    BY <2>1, <2>2
<1>15. BegunByDispatch(c)' /\ CachedIsSound(c)'
  <2>1. call[c].dispatches # 0
    BY <1>2, <1>4 DEF BegunByDispatch
  <2> QED
    BY <1>6, <1>7, <2>1 DEF BegunByDispatch, CachedIsSound, DerivedFrom
<1>16. ASSUME ~call[c].touched
       PROVE  /\ call[c].dispatches # 0 /\ Prepared(raw)
              /\ \A e \in call[c].cache : e.snapshot = raw
              /\ ~prepared.fresh /\ prepared.command = raw /\ prepared.cache = call[c].cache
  <2>1. call[c].dispatches # 0
    BY <1>2, <1>4 DEF BegunByDispatch
  <2>2. Prepared(raw) /\ \A e \in call[c].cache : e.snapshot = raw
    BY <1>4, <1>16, <2>1 DEF UntouchedIsPrepared
  <2>3. call[c].cache # {}
    BY <1>2, <1>4 DEF CachedIsSound
  <2>4. Unchanged(raw, call[c].cache)
    BY <2>2, <2>3 DEF Unchanged
  <2> QED
    BY <1>6, <2>1, <2>2, <2>4
<1>17. UntouchedIsPrepared(c)'
  <2>1. ~call[c].touched => call[c].runs = call[c].dispatches
    BY <1>4 DEF UntouchedIsPrepared
  <2>2. call[c].dispatches # 0
    BY <1>2, <1>4 DEF BegunByDispatch
  <2>3. ~call'[c].touched => call'[c].runs = call'[c].dispatches
    BY <1>1, <1>7, <1>16, <2>1
  <2>4. ~call'[c].touched => /\ Prepared(call'[c].command)
                             /\ \A e \in call'[c].cache : e.snapshot = call'[c].command
    BY <1>7, <1>16
  <2> QED
    BY <1>7, <2>2, <2>3, <2>4 DEF UntouchedIsPrepared, Prepared
<1>18. ASSUME NEW d \in Enveloped \ {c} PROVE UntouchedEventsAgree(d)'
  <2>1. UntouchedEventsAgree(d) /\ call'[d] = call[d]
    BY <1>3 DEF EnvelopeIInv
  <2>2. \A i \in 1..Len(enriched') : enriched'[i].of = d => i \in 1..Len(enriched) /\ enriched'[i] = enriched[i]
    BY <1>11, <1>12
  <2>3. call'[d].dispatches = 0 => \A i \in 1..Len(enriched') : enriched'[i].of # d
    BY <2>1, <2>2 DEF UntouchedEventsAgree
  <2>4. ~call'[d].touched => \A i \in 1..Len(enriched') : enriched'[i].of = d =>
           ~enriched'[i].touched /\ enriched'[i].ext = EventExtensions(call'[d].command)
    BY <2>1, <2>2 DEF UntouchedEventsAgree
  <2>5. \A i, j \in 1..Len(enriched') :
          /\ enriched'[i].of = d /\ enriched'[j].of = d
          /\ ~enriched'[i].touched /\ ~enriched'[j].touched
          => enriched'[i].ext = enriched'[j].ext
    <3> SUFFICES ASSUME NEW i \in 1..Len(enriched'), NEW j \in 1..Len(enriched'),
                        enriched'[i].of = d, enriched'[j].of = d,
                        ~enriched'[i].touched, ~enriched'[j].touched
                 PROVE  enriched'[i].ext = enriched'[j].ext
      OBVIOUS
    <3>1. /\ i \in 1..Len(enriched) /\ enriched'[i] = enriched[i]
          /\ j \in 1..Len(enriched) /\ enriched'[j] = enriched[j]
      BY <2>2
    <3> QED
      BY <2>1, <3>1 DEF UntouchedEventsAgree
  <2> QED
    BY <2>3, <2>4, <2>5 DEF UntouchedEventsAgree, EventExtensions, EventExtension
<1>19. UntouchedEventsAgree(c)'
  <2>1. call'[c].dispatches # 0
    BY <1>2, <1>4, <1>7 DEF BegunByDispatch
  <2>2. ~call[c].touched => \A i \in 1..Len(enriched') : enriched'[i].of = c =>
           ~enriched'[i].touched /\ enriched'[i].ext = EventExtensions(call'[c].command)
    <3> SUFFICES ASSUME ~call[c].touched, NEW i \in 1..Len(enriched'), enriched'[i].of = c
                 PROVE  ~enriched'[i].touched /\ enriched'[i].ext = EventExtensions(raw)
      BY <1>7, <1>16
    <3>1. CASE i \in 1..Len(enriched)
      BY <1>4, <1>11, <3>1 DEF UntouchedEventsAgree
    <3>2. CASE i \notin 1..Len(enriched)
      BY <1>12, <1>16, <3>2
    <3> QED
      BY <3>1, <3>2
  <2>3. \A i, j \in 1..Len(enriched') :
          /\ enriched'[i].of = c /\ enriched'[j].of = c
          /\ ~enriched'[i].touched /\ ~enriched'[j].touched
          => enriched'[i].ext = enriched'[j].ext
    <3> SUFFICES ASSUME NEW i \in 1..Len(enriched'), NEW j \in 1..Len(enriched'),
                        enriched'[i].of = c, enriched'[j].of = c,
                        ~enriched'[i].touched, ~enriched'[j].touched
                 PROVE  enriched'[i].ext = enriched'[j].ext
      OBVIOUS
    <3>1. CASE ~call[c].touched
      BY <2>2, <3>1
    <3>2. CASE call[c].touched
      <4>1. i \in 1..Len(enriched) /\ j \in 1..Len(enriched)
        BY <1>12, <3>2
      <4>2. enriched'[i] = enriched[i] /\ enriched'[j] = enriched[j]
        BY <1>11, <4>1
      <4> QED
        BY <1>4, <4>1, <4>2 DEF UntouchedEventsAgree
    <3> QED
      BY <1>1, <3>1, <3>2
  <2> QED
    BY <1>7, <2>1, <2>2, <2>3 DEF UntouchedEventsAgree, EventExtensions, EventExtension
<1>20. \A d \in Enveloped \ {c} : BegunByDispatch(d)' /\ CachedIsSound(d)' /\ UntouchedIsPrepared(d)'
  <2> SUFFICES ASSUME NEW d \in Enveloped \ {c}
               PROVE  BegunByDispatch(d)' /\ CachedIsSound(d)' /\ UntouchedIsPrepared(d)'
    OBVIOUS
  <2>1. /\ call'[d] = call[d]
        /\ BegunByDispatch(d) /\ CachedIsSound(d) /\ UntouchedIsPrepared(d)
    BY <1>3 DEF EnvelopeIInv
  <2>2. BegunByDispatch(d)' /\ CachedIsSound(d)'
    BY <2>1 DEF BegunByDispatch, CachedIsSound, DerivedFrom
  <2>3. UntouchedIsPrepared(d)'
    BY <2>1 DEF UntouchedIsPrepared, Raw, Prepared
  <2> QED
    BY <2>2, <2>3
<1> QED
  BY <1>13, <1>14, <1>15, <1>17, <1>18, <1>19, <1>20 DEF EnvelopeIInv

LEMMA EnvelopeStepInv == EnvelopeIInv /\ [EnvelopeNext]_envelopeVars => EnvelopeIInv'
<1> SUFFICES ASSUME EnvelopeIInv, [EnvelopeNext]_envelopeVars PROVE EnvelopeIInv'
  OBVIOUS
<1>1. CASE EnvelopeNext
  BY <1>1, DispatchEnvelopeInv, ProcessEnvelopeInv, TouchInv DEF EnvelopeNext
<1>2. CASE UNCHANGED envelopeVars
  <2>1. call' = call /\ enriched' = enriched /\ clock' = clock
    BY <1>2 DEF envelopeVars
  <2>2. EnvelopeTypeOK' /\ EventsAreSound'
    BY <2>1 DEF EnvelopeIInv, EnvelopeTypeOK, EventsAreSound, DerivedFrom
  <2>3. \A c \in Enveloped :
          BegunByDispatch(c)' /\ CachedIsSound(c)' /\ UntouchedIsPrepared(c)' /\ UntouchedEventsAgree(c)'
    BY <2>1, OthersRest
  <2> QED
    BY <2>2, <2>3 DEF EnvelopeIInv
<1> QED
  BY <1>1, <1>2

LEMMA ExtensionsMatch == EnvelopeIInv => ExtensionsMatchTheCommand
<1> SUFFICES ASSUME EnvelopeIInv PROVE ExtensionsMatchTheCommand
  OBVIOUS
<1>1. /\ DOMAIN enriched = 1..Len(enriched)
      /\ \A i \in 1..Len(enriched) : /\ enriched[i].of \in Enveloped
                                     /\ enriched[i].ext \in [EnvelopePlugins -> SUBSET Extensions]
  <2>1. enriched \in Seq(EnrichedEvents)
    BY DEF EnvelopeIInv, EnvelopeTypeOK
  <2>2. DOMAIN enriched = 1..Len(enriched) /\ \A i \in 1..Len(enriched) : enriched[i] \in EnrichedEvents
    BY <2>1
  <2> QED
    BY <2>2 DEF EnrichedEvents
<1>2. \A i \in DOMAIN enriched : \A p \in EnvelopePlugins : \A v \in enriched[i].ext[p] :
        v.of = enriched[i].payload /\ v.valid
  BY <1>1 DEF EnvelopeIInv, EventsAreSound, DerivedFrom
<1>3. \A i, j \in DOMAIN enriched :
        enriched[i].of = enriched[j].of /\ ~enriched[i].touched /\ ~enriched[j].touched =>
          enriched[i].ext = enriched[j].ext
  BY <1>1 DEF EnvelopeIInv, UntouchedEventsAgree
<1>4. \A c \in Enveloped : ~call[c].touched => call[c].runs = call[c].dispatches
  BY DEF EnvelopeIInv, UntouchedIsPrepared
<1> QED
  BY <1>2, <1>3, <1>4 DEF ExtensionsMatchTheCommand

(* Envelope plugins, for any commands, plugins, payloads and changes made in *)
(* flight: what an event carries of a plugin was derived from the payload    *)
(* its handler got, and a command nobody changed is extended once a dispatch *)
(* and keeps its first stamp (packages/aggregate/src/envelopePlugins.ts).    *)
THEOREM ExtensionsMatchForAny == EnvelopeSpec => []ExtensionsMatchTheCommand
<1>1. EnvelopeSpec => []EnvelopeIInv
  BY EnvelopeInitInv, EnvelopeStepInv, PTL DEF EnvelopeSpec
<1>2. EnvelopeIInv => ExtensionsMatchTheCommand
  BY ExtensionsMatch
<1> QED
  BY <1>1, <1>2, PTL

-----------------------------------------------------------------------------
(* The builder of SagaDefinition.                                          *)

Handlers == UNION {[T -> Nat] : T \in SUBSET Tokens}

Drafts == [start : BOOLEAN, correlateBy : Nat \cup {NoToken}, triggers : Seq(Nat),
           responses : Handlers, errors : Handlers, retries : Handlers,
           correlations : Seq(Nat), handlers : Seq(Nat)]

Builts == [start : BOOLEAN, correlateBy : Nat \cup {NoToken}, triggers : Seq(Nat),
           responses : Handlers, errors : Handlers, retries : Handlers, calls : Nat]

BuilderOps == {"onResponses", "onErrors", "onRetries", "on", "correlate", "start",
               "correlateBy", "triggeredBy", "build"}

IntentsOfATurn ==
  [type : {"one-way"}, request : {NoToken}, policy : {0, 1}]
    \cup [type : {"request"}, request : Requests, policy : {0, 1},
          response : Tokens, retry : Tokens \cup {NoToken}, error : Tokens]

DefinitionTypeOK ==
  /\ stage \in {"open", "awaiting", "correlated"}
  /\ draft \in Drafts
  /\ definitions \in Seq(Builts)
  /\ calls \in Seq([op : BuilderOps, key : Tokens \cup {NoToken}])
  /\ handlerTurn \in {"none", "running", "returned"}
  /\ intents \in Seq(IntentsOfATurn)
  /\ taken \in Seq(Requests \cup {NoToken})
  /\ terminal \in [Requests -> BOOLEAN]

\* A map of handlers holds the last call for each token.
KeepsLast(map, op, bound) ==
  \A t \in Tokens : (IF t \in DOMAIN map THEN map[t] ELSE 0) = LastCall(op, t, bound)

\* The draft says what was called so far, and its clauses came in their order.
DraftKeepsItsCalls ==
  /\ KeepsLast(draft.responses, "onResponses", Len(calls))
  /\ KeepsLast(draft.errors, "onErrors", Len(calls))
  /\ KeepsLast(draft.retries, "onRetries", Len(calls))
  /\ Lists(draft.triggers, "triggeredBy", Len(calls))
  /\ Lists(draft.handlers, "on", Len(calls))
  /\ Lists(draft.correlations, "correlate", Len(calls))

ClausesInOrder ==
  /\ stage # "open" => draft.start
  /\ stage = "correlated" \/ draft.triggers # <<>> => draft.start /\ draft.correlateBy # NoToken

\* What a definition keeps, and that all that were built do.
KeepsItsCalls(d) ==
  /\ d.calls <= Len(calls)
  /\ KeepsLast(d.responses, "onResponses", d.calls)
  /\ KeepsLast(d.errors, "onErrors", d.calls)
  /\ KeepsLast(d.retries, "onRetries", d.calls)
  /\ Lists(d.triggers, "triggeredBy", d.calls)
  /\ d.triggers # <<>> => d.start /\ d.correlateBy # NoToken

BuiltsKeepTheirCalls == \A i \in DOMAIN definitions : KeepsItsCalls(definitions[i])

BuilderIInv == DraftKeepsItsCalls /\ ClausesInOrder /\ BuiltsKeepTheirCalls

\* Before a turn nothing is emitted; a turn is of what was built.
TurnInOrder ==
  /\ handlerTurn = "none" => intents = <<>> /\ taken = <<>>
  /\ handlerTurn # "none" => definitions # <<>>
  /\ Len(taken) <= Len(intents)
  /\ \A i \in DOMAIN intents : intents[i].type = "request" => terminal[intents[i].request]

DefinitionIInv == DefinitionTypeOK /\ BuilderIInv /\ TurnInOrder /\ RequestsCanBeAnswered

-----------------------------------------------------------------------------
(* A call of the builder.                                                  *)

Called(op, key) == calls' = Append(calls, [op |-> op, key |-> key])

LEMMA CallsGrow ==
  ASSUME DefinitionTypeOK, NEW o \in BuilderOps, NEW k \in Tokens \cup {NoToken}, Called(o, k)
  PROVE  /\ calls' \in Seq([op : BuilderOps, key : Tokens \cup {NoToken}])
         /\ Len(calls') = Len(calls) + 1 /\ Len(calls) \in Nat
         /\ \A i \in 1..Len(calls) : calls'[i] = calls[i]
         /\ calls'[Len(calls) + 1] = [op |-> o, key |-> k]
<1>1. calls \in Seq([op : BuilderOps, key : Tokens \cup {NoToken}])
  BY DEF DefinitionTypeOK
<1>2. [op |-> o, key |-> k] \in [op : BuilderOps, key : Tokens \cup {NoToken}]
  OBVIOUS
<1> QED
  BY <1>1, <1>2 DEF Called

LEMMA LastCallStays ==
  ASSUME DefinitionTypeOK, NEW o \in BuilderOps, NEW k \in Tokens \cup {NoToken}, Called(o, k),
         NEW op, NEW t, NEW n \in Nat, n <= Len(calls)
  PROVE  LastCall(op, t, n)' = LastCall(op, t, n)
<1>1. \A i \in 1..n : calls'[i] = calls[i]
  <2>1. Len(calls) \in Nat /\ \A i \in 1..Len(calls) : calls'[i] = calls[i]
    BY CallsGrow
  <2> QED
    BY <2>1
<1>2. {i \in 1..n : calls'[i].op = op /\ calls'[i].key = t} = {i \in 1..n : calls[i].op = op /\ calls[i].key = t}
  BY <1>1
<1> DEFINE at == {i \in 1..n : calls[i].op = op /\ calls[i].key = t}
           later == {i \in 1..n : calls'[i].op = op /\ calls'[i].key = t}
<1>3. LastCall(op, t, n)' = IF later = {} THEN 0 ELSE CHOOSE i \in later : \A j \in later : j <= i
  BY DEF LastCall
<1>4. LastCall(op, t, n) = IF at = {} THEN 0 ELSE CHOOSE i \in at : \A j \in at : j <= i
  BY DEF LastCall
<1> QED
  BY <1>2, <1>3, <1>4

LEMMA NewLastCall ==
  ASSUME DefinitionTypeOK, NEW o \in BuilderOps, NEW k \in Tokens \cup {NoToken}, Called(o, k),
         NEW op, NEW t
  PROVE  LastCall(op, t, Len(calls))' = IF op = o /\ t = k THEN Len(calls) + 1 ELSE LastCall(op, t, Len(calls))
<1> PICK n : n = Len(calls)
  OBVIOUS
<1>0. Len(calls') = n + 1
  BY CallsGrow
<1> DEFINE at == {i \in 1..n : calls[i].op = op /\ calls[i].key = t}
           later == {i \in 1..(n + 1) : calls'[i].op = op /\ calls'[i].key = t}
<1>1. n \in Nat /\ (\A i \in 1..n : calls'[i] = calls[i]) /\ calls'[n + 1] = [op |-> o, key |-> k]
  BY CallsGrow
<1>2. later = IF op = o /\ t = k THEN at \cup {n + 1} ELSE at
  <2>1. \A i \in 1..(n + 1) : i \in 1..n \/ i = n + 1
    BY <1>1
  <2> QED
    BY <1>1, <2>1
<1>3. LastCall(op, t, Len(calls))' = IF later = {} THEN 0 ELSE CHOOSE i \in later : \A j \in later : j <= i
  BY <1>0 DEF LastCall
<1>4. LastCall(op, t, n) = IF at = {} THEN 0 ELSE CHOOSE i \in at : \A j \in at : j <= i
  BY <1>0 DEF LastCall
<1>5. CASE op = o /\ t = k
  <2>1. n + 1 \in later /\ (\A j \in later : j <= n + 1) /\ later \subseteq Nat
    BY <1>1, <1>2, <1>5
  <2> HIDE DEF later
  <2>2. ASSUME NEW i \in later, \A j \in later : j <= i PROVE i = n + 1
    <3>1. n + 1 <= i /\ i <= n + 1 /\ i \in Nat /\ n + 1 \in Nat
      BY <2>1, <2>2, <1>1
    <3> QED
      BY <3>1
  <2>3. (CHOOSE i \in later : \A j \in later : j <= i) = n + 1
    BY <2>1, <2>2
  <2> QED
    BY <1>3, <1>5, <2>1, <2>3, <1>0
<1>6. CASE ~ (op = o /\ t = k)
  BY <1>2, <1>0, <1>3, <1>4, <1>6
<1> QED
  BY <1>5, <1>6

LEMMA ListsStays ==
  ASSUME DefinitionTypeOK, NEW o \in BuilderOps, NEW k \in Tokens \cup {NoToken}, Called(o, k),
         NEW list, NEW op, NEW n \in Nat, n <= Len(calls), Lists(list, op, n)
  PROVE  Lists(list, op, n)'
<1>1. \A i \in 1..n : calls'[i] = calls[i]
  <2>1. Len(calls) \in Nat /\ \A i \in 1..Len(calls) : calls'[i] = calls[i]
    BY CallsGrow
  <2> QED
    BY <2>1
<1>2. {i \in 1..n : calls'[i].op = op} = {i \in 1..n : calls[i].op = op}
  BY <1>1
<1> QED
  BY <1>2 DEF Lists

LEMMA ListsMore ==
  ASSUME DefinitionTypeOK, NEW o \in BuilderOps, NEW k \in Tokens \cup {NoToken}, Called(o, k),
         NEW list \in Seq(Nat), NEW op, Lists(list, op, Len(calls)),
         NEW grown, grown = IF op = o THEN Append(list, Len(calls) + 1) ELSE list
  PROVE  Lists(grown, op, Len(calls))'
<1> PICK n : n = Len(calls)
  OBVIOUS
<1>0. Len(calls') = n + 1
  BY CallsGrow
<1>1. n \in Nat /\ (\A i \in 1..n : calls'[i] = calls[i]) /\ calls'[n + 1] = [op |-> o, key |-> k]
  BY CallsGrow
<1>2. {i \in 1..(n + 1) : calls'[i].op = op} =
        {i \in 1..n : calls[i].op = op} \cup (IF op = o THEN {n + 1} ELSE {})
  <2>1. \A i \in 1..(n + 1) : i \in 1..n \/ i = n + 1
    BY <1>1
  <2> QED
    BY <1>1, <2>1
<1>3. ToSet(list) = {i \in 1..n : calls[i].op = op}
      /\ \A i, j \in DOMAIN list : i < j => list[i] < list[j]
  BY DEF Lists
<1>4. CASE op # o
  BY <1>0, <1>2, <1>3, <1>4 DEF Lists
<1>5. CASE op = o
  <2> DEFINE longer == Append(list, n + 1)
  <2>1. /\ DOMAIN list = 1..Len(list) /\ Len(list) \in Nat /\ DOMAIN longer = 1..(Len(list) + 1)
        /\ (\A i \in 1..Len(list) : longer[i] = list[i] /\ list[i] \in ToSet(list)) /\ longer[Len(list) + 1] = n + 1
    BY <1>1 DEF ToSet
  <2>2. ToSet(longer) = ToSet(list) \cup {n + 1}
    <3>1. ToSet(longer) = {longer[i] : i \in 1..(Len(list) + 1)} /\ ToSet(list) = {list[i] : i \in 1..Len(list)}
      BY <2>1 DEF ToSet
    <3>2. \A i \in 1..(Len(list) + 1) : i \in 1..Len(list) \/ i = Len(list) + 1
      BY <2>1
    <3>3. Len(list) + 1 \in 1..(Len(list) + 1) /\ \A i \in 1..Len(list) : i \in 1..(Len(list) + 1)
      BY <2>1
    <3> HIDE DEF longer
    <3> QED
      BY <2>1, <3>1, <3>2, <3>3
  <2>3. \A i, j \in DOMAIN longer : i < j => longer[i] < longer[j]
    <3>1. ASSUME NEW i \in DOMAIN longer, NEW j \in DOMAIN longer, i < j PROVE longer[i] < longer[j]
      <4>1. i \in 1..Len(list) /\ longer[i] = list[i] /\ list[i] \in 1..n
        BY <3>1, <2>1, <1>3
      <4>2. CASE j = Len(list) + 1
        BY <4>1, <4>2, <2>1, <1>1
      <4>3. CASE j # Len(list) + 1
        <5>1. j \in 1..Len(list) /\ longer[j] = list[j]
          BY <4>3, <3>1, <2>1
        <5> QED
          BY <4>1, <5>1, <3>1, <1>3, <2>1
      <4> QED
        BY <4>2, <4>3
    <3> QED
      BY <3>1
  <2> HIDE DEF longer
  <2>4. Lists(longer, op, Len(calls))'
    <3>1. ToSet(longer) = {i \in 1..(n + 1) : calls'[i].op = op}
      BY <2>2, <1>2, <1>3, <1>5
    <3> QED
      BY <3>1, <2>3, <1>0 DEF Lists
  <2> QED
    BY <2>4, <1>5 DEF longer
<1> QED
  BY <1>4, <1>5


LEMMA LastKept ==
  ASSUME DefinitionTypeOK, NEW o \in BuilderOps, NEW k \in Tokens \cup {NoToken}, Called(o, k),
         NEW map, NEW op, KeepsLast(map, op, Len(calls)), op # o
  PROVE  KeepsLast(map, op, Len(calls))'
<1>1. ASSUME NEW t \in Tokens PROVE LastCall(op, t, Len(calls))' = LastCall(op, t, Len(calls))
  BY NewLastCall
<1>2. \A t \in Tokens : (IF t \in DOMAIN map THEN map[t] ELSE 0) = LastCall(op, t, Len(calls))
  BY DEF KeepsLast
<1>3. \A t \in Tokens : (IF t \in DOMAIN map THEN map[t] ELSE 0) = LastCall(op, t, Len(calls))'
  BY <1>1, <1>2
<1> QED
  BY <1>3 DEF KeepsLast

LEMMA LastMerged ==
  ASSUME DefinitionTypeOK, NEW o \in BuilderOps, NEW k \in Tokens, Called(o, k),
         NEW map, KeepsLast(map, o, Len(calls)), NEW later, later = Merged(map, k)
  PROVE  KeepsLast(later, o, Len(calls))'
<1>1. ASSUME NEW t \in Tokens
      PROVE  LastCall(o, t, Len(calls))' = IF t = k THEN Len(calls) + 1 ELSE LastCall(o, t, Len(calls))
  BY NewLastCall
<1>2. \A t \in Tokens : (IF t \in DOMAIN map THEN map[t] ELSE 0) = LastCall(o, t, Len(calls))
  BY DEF KeepsLast
<1>3. /\ DOMAIN later = DOMAIN map \cup {k}
      /\ \A t \in DOMAIN later : later[t] = IF t = k THEN Len(calls) + 1 ELSE map[t]
  BY DEF Merged
<1>4. \A t \in Tokens : (IF t \in DOMAIN later THEN later[t] ELSE 0) = LastCall(o, t, Len(calls))'
  BY <1>1, <1>2, <1>3
<1> QED
  BY <1>4 DEF KeepsLast

LEMMA MergedIsMap ==
  ASSUME DefinitionTypeOK, NEW map \in Handlers, NEW k \in Tokens
  PROVE  Merged(map, k) \in Handlers
<1>1. PICK T \in SUBSET Tokens : map \in [T -> Nat]
  BY DEF Handlers
<1>2. Len(calls) + 1 \in Nat
  BY DEF DefinitionTypeOK
<1>3. Merged(map, k) \in [T \cup {k} -> Nat]
  BY <1>1, <1>2 DEF Merged
<1> QED
  BY <1>3 DEF Handlers

\* The draft after a call, whichever it is.
DraftAfter(o, k) ==
  /\ draft' \in Drafts
  /\ draft'.responses = IF o = "onResponses" THEN Merged(draft.responses, k) ELSE draft.responses
  /\ draft'.errors = IF o = "onErrors" THEN Merged(draft.errors, k) ELSE draft.errors
  /\ draft'.retries = IF o = "onRetries" THEN Merged(draft.retries, k) ELSE draft.retries
  /\ draft'.triggers = IF "triggeredBy" = o THEN Append(draft.triggers, Len(calls) + 1) ELSE draft.triggers
  /\ draft'.handlers = IF "on" = o THEN Append(draft.handlers, Len(calls) + 1) ELSE draft.handlers
  /\ draft'.correlations = IF "correlate" = o THEN Append(draft.correlations, Len(calls) + 1)
                           ELSE draft.correlations

LEMMA DraftKept ==
  ASSUME DefinitionTypeOK, DraftKeepsItsCalls, NEW o \in BuilderOps, NEW k \in Tokens \cup {NoToken},
         Called(o, k), DraftAfter(o, k), o \in {"onResponses", "onErrors", "onRetries"} => k \in Tokens
  PROVE  DraftKeepsItsCalls'
<1>2. /\ KeepsLast(draft.responses, "onResponses", Len(calls))
      /\ KeepsLast(draft.errors, "onErrors", Len(calls))
      /\ KeepsLast(draft.retries, "onRetries", Len(calls))
      /\ Lists(draft.triggers, "triggeredBy", Len(calls))
      /\ Lists(draft.handlers, "on", Len(calls))
      /\ Lists(draft.correlations, "correlate", Len(calls))
  BY DEF DraftKeepsItsCalls
<1>3. /\ draft.triggers \in Seq(Nat) /\ draft.handlers \in Seq(Nat) /\ draft.correlations \in Seq(Nat)
  BY DEF DefinitionTypeOK, Drafts
<1>5. ASSUME NEW map, NEW later, NEW op \in {"onResponses", "onErrors", "onRetries"}, KeepsLast(map, op, Len(calls)),
             later = IF o = op THEN Merged(map, k) ELSE map
      PROVE  KeepsLast(later, op, Len(calls))'
  <2>1. CASE o = op
    BY <2>1, <1>5, LastMerged
  <2>2. CASE o # op
    BY <2>2, <1>5, LastKept
  <2> QED
    BY <2>1, <2>2
<1>6. ASSUME NEW list \in Seq(Nat), NEW later, NEW op, Lists(list, op, Len(calls)),
             later = IF op = o THEN Append(list, Len(calls) + 1) ELSE list
      PROVE  Lists(later, op, Len(calls))'
  BY <1>6, ListsMore
<1> PICK responses, errors, retries, triggers, handlers, correlations :
      /\ responses = draft'.responses /\ errors = draft'.errors /\ retries = draft'.retries
      /\ triggers = draft'.triggers /\ handlers = draft'.handlers /\ correlations = draft'.correlations
  OBVIOUS
<1>7. /\ KeepsLast(responses, "onResponses", Len(calls))'
      /\ KeepsLast(errors, "onErrors", Len(calls))'
      /\ KeepsLast(retries, "onRetries", Len(calls))'
  BY <1>2, <1>5 DEF DraftAfter
<1>8. /\ Lists(triggers, "triggeredBy", Len(calls))'
      /\ Lists(handlers, "on", Len(calls))'
      /\ Lists(correlations, "correlate", Len(calls))'
  BY <1>2, <1>3, <1>6 DEF DraftAfter
<1> QED
  BY <1>7, <1>8 DEF DraftKeepsItsCalls

LEMMA BuiltStays ==
  ASSUME DefinitionTypeOK, NEW o \in BuilderOps, NEW k \in Tokens \cup {NoToken}, Called(o, k),
         NEW map, NEW op, NEW n \in Nat, n <= Len(calls), KeepsLast(map, op, n)
  PROVE  KeepsLast(map, op, n)'
<1>1. \A t \in Tokens : LastCall(op, t, n)' = LastCall(op, t, n)
  BY LastCallStays
<1>2. \A t \in Tokens : (IF t \in DOMAIN map THEN map[t] ELSE 0) = LastCall(op, t, n)
  BY DEF KeepsLast
<1>3. \A t \in Tokens : (IF t \in DOMAIN map THEN map[t] ELSE 0) = LastCall(op, t, n)'
  BY <1>1, <1>2
<1> QED
  BY <1>3 DEF KeepsLast

LEMMA BuiltKeeps ==
  ASSUME DefinitionTypeOK, NEW o \in BuilderOps, NEW k \in Tokens \cup {NoToken}, Called(o, k),
         NEW d \in Builts, KeepsItsCalls(d)
  PROVE  KeepsItsCalls(d)'
<1>1. d.calls \in Nat /\ d.calls <= Len(calls)
  BY DEF Builts, KeepsItsCalls
<1>2. Len(calls') = Len(calls) + 1 /\ Len(calls) \in Nat
  BY CallsGrow
<1> PICK n : n = d.calls
  OBVIOUS
<1>3. /\ KeepsLast(d.responses, "onResponses", n)'
      /\ KeepsLast(d.errors, "onErrors", n)'
      /\ KeepsLast(d.retries, "onRetries", n)'
  BY <1>1, BuiltStays DEF KeepsItsCalls
<1>4. Lists(d.triggers, "triggeredBy", n)'
  BY <1>1, ListsStays DEF KeepsItsCalls
<1> QED
  BY <1>1, <1>2, <1>3, <1>4 DEF KeepsItsCalls

LEMMA TurnRests ==
  ASSUME DefinitionIInv, NEW o \in BuilderOps, NEW k \in Tokens \cup {NoToken}, Call(o, k)
  PROVE  /\ Called(o, k) /\ TurnInOrder' /\ RequestsCanBeAnswered'
         /\ handlerTurn' \in {"none", "running", "returned"} /\ intents' \in Seq(IntentsOfATurn)
         /\ taken' \in Seq(Requests \cup {NoToken}) /\ terminal' \in [Requests -> BOOLEAN]
<1>1. /\ Called(o, k) /\ handlerTurn = "none"
      /\ handlerTurn' = handlerTurn /\ intents' = intents /\ taken' = taken /\ terminal' = terminal
  BY DEF Call, Called, turnVars
<1>2. intents = <<>> /\ taken = <<>>
  BY <1>1 DEF DefinitionIInv, TurnInOrder
<1>3. intents' = <<>> /\ taken' = <<>> /\ handlerTurn' = "none"
  BY <1>1, <1>2
<1>4. DOMAIN intents' = {} /\ DOMAIN taken' = {} /\ Len(taken') <= Len(intents')
  BY <1>3
<1>5. TurnInOrder' /\ RequestsCanBeAnswered'
  BY <1>3, <1>4 DEF TurnInOrder, RequestsCanBeAnswered
<1> QED
  BY <1>1, <1>5 DEF DefinitionIInv, DefinitionTypeOK

LEMMA DraftingKeeps ==
  ASSUME DefinitionIInv, NEW o \in BuilderOps, NEW k \in Tokens \cup {NoToken}, Call(o, k), DraftAfter(o, k),
         o \in {"onResponses", "onErrors", "onRetries"} => k \in Tokens,
         UNCHANGED definitions, stage' \in {"open", "awaiting", "correlated"}, ClausesInOrder'
  PROVE  DefinitionIInv'
<1>1. DefinitionTypeOK /\ DraftKeepsItsCalls /\ BuiltsKeepTheirCalls
  BY DEF DefinitionIInv, BuilderIInv
<1>2. Called(o, k) /\ TurnInOrder' /\ RequestsCanBeAnswered'
  BY TurnRests
<1>3. DefinitionTypeOK'
  <2>1. calls' \in Seq([op : BuilderOps, key : Tokens \cup {NoToken}])
    BY <1>1, <1>2, CallsGrow
  <2>2. draft' \in Drafts /\ definitions' \in Seq(Builts)
    BY <1>1 DEF DraftAfter, DefinitionTypeOK
  <2> QED
    BY <2>1, <2>2, TurnRests DEF DefinitionTypeOK
<1>4. DraftKeepsItsCalls'
  BY <1>1, <1>2, DraftKept
<1>5. BuiltsKeepTheirCalls'
  <2>1. \A i \in DOMAIN definitions : definitions[i] \in Builts
    BY <1>1 DEF DefinitionTypeOK
  <2>2. ASSUME NEW i \in DOMAIN definitions, NEW d, d = definitions[i] PROVE KeepsItsCalls(d)'
    BY <1>1, <1>2, <2>1, <2>2, BuiltKeeps DEF BuiltsKeepTheirCalls
  <2>3. ASSUME NEW i \in DOMAIN definitions' PROVE KeepsItsCalls(definitions[i])'
    <3> PICK d : d = definitions[i]
      OBVIOUS
    <3>1. KeepsItsCalls(d)' /\ d = definitions'[i]
      BY <2>2
    <3> QED
      BY <3>1 DEF KeepsItsCalls
  <2> QED
    BY <2>3 DEF BuiltsKeepTheirCalls
<1> QED
  BY <1>2, <1>3, <1>4, <1>5 DEF DefinitionIInv, BuilderIInv

LEMMA BuildingKeeps ==
  ASSUME DefinitionIInv, Build
  PROVE  DefinitionIInv'
<1> DEFINE built == [start |-> draft.start, correlateBy |-> draft.correlateBy,
        triggers |-> draft.triggers, responses |-> draft.responses,
        errors |-> draft.errors, retries |-> draft.retries, calls |-> Len(calls)]
<1> PICK o \in BuilderOps : o = "build"
  BY DEF BuilderOps
<1> PICK k \in Tokens \cup {NoToken} : k = NoToken
  OBVIOUS
<1>1. /\ stage # "awaiting" /\ Call(o, k) /\ stage' = stage /\ draft' = draft
      /\ definitions' = Append(definitions, built)
  BY DEF Build
<1>2. DefinitionTypeOK /\ DraftKeepsItsCalls /\ BuiltsKeepTheirCalls /\ ClausesInOrder
  BY DEF DefinitionIInv, BuilderIInv
<1>3. /\ Called(o, k) /\ TurnInOrder' /\ RequestsCanBeAnswered'
      /\ handlerTurn' \in {"none", "running", "returned"} /\ intents' \in Seq(IntentsOfATurn)
      /\ taken' \in Seq(Requests \cup {NoToken}) /\ terminal' \in [Requests -> BOOLEAN]
  BY <1>1, TurnRests
<1>4. Len(calls') = Len(calls) + 1 /\ Len(calls) \in Nat
      /\ calls' \in Seq([op : BuilderOps, key : Tokens \cup {NoToken}])
  BY <1>2, <1>3, CallsGrow
<1>5. built \in Builts
  BY <1>2, <1>4 DEF DefinitionTypeOK, Drafts, Builts
<1>6. KeepsItsCalls(built)
  <2>1. /\ built.start = draft.start /\ built.correlateBy = draft.correlateBy
        /\ built.triggers = draft.triggers /\ built.responses = draft.responses
        /\ built.errors = draft.errors /\ built.retries = draft.retries /\ built.calls = Len(calls)
    OBVIOUS
  <2> HIDE DEF built
  <2>2. /\ KeepsLast(built.responses, "onResponses", built.calls)
        /\ KeepsLast(built.errors, "onErrors", built.calls)
        /\ KeepsLast(built.retries, "onRetries", built.calls)
        /\ Lists(built.triggers, "triggeredBy", built.calls)
    BY <1>2, <2>1, Zenon DEF DraftKeepsItsCalls
  <2>3. built.triggers # <<>> => built.start /\ built.correlateBy # NoToken
    BY <1>2, <2>1, Zenon DEF ClausesInOrder
  <2>4. built.calls <= Len(calls)
    BY <1>4, <2>1
  <2> QED
    BY <2>2, <2>3, <2>4 DEF KeepsItsCalls
<1> HIDE DEF built
<1>7. DefinitionTypeOK'
  <2>1. definitions \in Seq(Builts)
    BY <1>2 DEF DefinitionTypeOK
  <2>2. definitions' \in Seq(Builts)
    BY <1>1, <1>5, <2>1
  <2> QED
    BY <1>1, <1>2, <1>3, <1>4, <2>2 DEF DefinitionTypeOK
<1>8. DraftKeepsItsCalls'
  <2>1. draft \in Drafts
    BY <1>2 DEF DefinitionTypeOK
  <2>2. DraftAfter(o, k)
    BY <1>1, <2>1 DEF DraftAfter
  <2> QED
    BY <1>2, <1>3, <2>2, DraftKept
<1>9. BuiltsKeepTheirCalls'
  <2>1. /\ definitions \in Seq(Builts)
        /\ DOMAIN definitions' = DOMAIN definitions \cup {Len(definitions) + 1}
        /\ (\A i \in DOMAIN definitions : definitions'[i] = definitions[i])
        /\ definitions'[Len(definitions) + 1] = built
    <3>1. definitions \in Seq(Builts)
      BY <1>2 DEF DefinitionTypeOK
    <3> QED
      BY <1>1, <1>5, <3>1
  <2>2. \A i \in DOMAIN definitions' : definitions'[i] \in Builts /\ KeepsItsCalls(definitions'[i])
    <3>1. \A i \in DOMAIN definitions : definitions[i] \in Builts /\ KeepsItsCalls(definitions[i])
      BY <1>2, <2>1 DEF BuiltsKeepTheirCalls
    <3> QED
      BY <1>5, <1>6, <2>1, <3>1
  <2>3. ASSUME NEW i \in DOMAIN definitions' PROVE KeepsItsCalls(definitions[i])'
    <3>0. PICK d : d = definitions'[i]
      OBVIOUS
    <3>1. d \in Builts /\ KeepsItsCalls(d)
      BY <2>2, <2>3, <3>0
    <3>2. KeepsItsCalls(d)'
      BY <1>2, <1>3, <3>1, BuiltKeeps
    <3> QED
      BY <3>0, <3>2 DEF KeepsItsCalls
  <2> QED
    BY <2>3 DEF BuiltsKeepTheirCalls
<1>10. ClausesInOrder'
  BY <1>1, <1>2 DEF ClausesInOrder
<1> QED
  BY <1>3, <1>7, <1>8, <1>9, <1>10 DEF DefinitionIInv, BuilderIInv

LEMMA DraftTypes ==
  ASSUME DefinitionTypeOK
  PROVE  /\ draft \in Drafts /\ Len(calls) + 1 \in Nat
         /\ stage \in {"open", "awaiting", "correlated"}
         /\ \A k \in Tokens : /\ Merged(draft.responses, k) \in Handlers
                             /\ Merged(draft.errors, k) \in Handlers
                             /\ Merged(draft.retries, k) \in Handlers
<1>1. draft \in Drafts /\ Len(calls) + 1 \in Nat /\ stage \in {"open", "awaiting", "correlated"}
  BY DEF DefinitionTypeOK
<1>2. draft.responses \in Handlers /\ draft.errors \in Handlers /\ draft.retries \in Handlers
  BY <1>1 DEF Drafts
<1> QED
  BY <1>1, <1>2, MergedIsMap

LEMMA OnResponsesKeeps ==
  ASSUME DefinitionIInv, NEW t \in Tokens, OnResponses(t)
  PROVE  DefinitionIInv'
<1> PICK o \in BuilderOps : o = "onResponses"
  BY DEF BuilderOps
<1> PICK k \in Tokens \cup {NoToken} : k = t
  OBVIOUS
<1>1. DefinitionTypeOK /\ ClausesInOrder
  BY DEF DefinitionIInv, BuilderIInv
<1>2. Call(o, k) /\ UNCHANGED definitions
  BY DEF OnResponses
<1>3. DraftAfter(o, k)
  BY <1>1, DraftTypes DEF OnResponses, DraftAfter, Drafts
<1>4. stage' \in {"open", "awaiting", "correlated"} /\ ClausesInOrder'
  BY <1>1, DraftTypes DEF OnResponses, ClausesInOrder, Drafts
<1> QED
  BY <1>2, <1>3, <1>4, DraftingKeeps

LEMMA OnErrorsKeeps ==
  ASSUME DefinitionIInv, NEW t \in Tokens, OnErrors(t)
  PROVE  DefinitionIInv'
<1> PICK o \in BuilderOps : o = "onErrors"
  BY DEF BuilderOps
<1> PICK k \in Tokens \cup {NoToken} : k = t
  OBVIOUS
<1>1. DefinitionTypeOK /\ ClausesInOrder
  BY DEF DefinitionIInv, BuilderIInv
<1>2. Call(o, k) /\ UNCHANGED definitions
  BY DEF OnErrors
<1>3. DraftAfter(o, k)
  BY <1>1, DraftTypes DEF OnErrors, DraftAfter, Drafts
<1>4. stage' \in {"open", "awaiting", "correlated"} /\ ClausesInOrder'
  BY <1>1, DraftTypes DEF OnErrors, ClausesInOrder, Drafts
<1> QED
  BY <1>2, <1>3, <1>4, DraftingKeeps

LEMMA OnRetriesKeeps ==
  ASSUME DefinitionIInv, NEW t \in Tokens, OnRetries(t)
  PROVE  DefinitionIInv'
<1> PICK o \in BuilderOps : o = "onRetries"
  BY DEF BuilderOps
<1> PICK k \in Tokens \cup {NoToken} : k = t
  OBVIOUS
<1>1. DefinitionTypeOK /\ ClausesInOrder
  BY DEF DefinitionIInv, BuilderIInv
<1>2. Call(o, k) /\ UNCHANGED definitions
  BY DEF OnRetries
<1>3. DraftAfter(o, k)
  BY <1>1, DraftTypes DEF OnRetries, DraftAfter, Drafts
<1>4. stage' \in {"open", "awaiting", "correlated"} /\ ClausesInOrder'
  BY <1>1, DraftTypes DEF OnRetries, ClausesInOrder, Drafts
<1> QED
  BY <1>2, <1>3, <1>4, DraftingKeeps

LEMMA AddHandlersKeeps ==
  ASSUME DefinitionIInv, AddHandlers
  PROVE  DefinitionIInv'
<1> PICK o \in BuilderOps : o = "on"
  BY DEF BuilderOps
<1> PICK k \in Tokens \cup {NoToken} : k = NoToken
  OBVIOUS
<1>1. DefinitionTypeOK /\ ClausesInOrder
  BY DEF DefinitionIInv, BuilderIInv
<1>2. Call(o, k) /\ UNCHANGED definitions
  BY DEF AddHandlers
<1>3. DraftAfter(o, k)
  <2>1. draft \in Drafts /\ draft.handlers \in Seq(Nat) /\ Len(calls) + 1 \in Nat
    BY <1>1, DraftTypes DEF Drafts
  <2>2. PICK longer : longer = Append(draft.handlers, Len(calls) + 1)
    OBVIOUS
  <2>3. longer \in Seq(Nat)
    BY <2>1, <2>2
  <2>4. draft' = [draft EXCEPT !.handlers = longer]
    BY <2>2 DEF AddHandlers
  <2>5. draft' \in Drafts
    BY <2>1, <2>3, <2>4 DEF Drafts
  <2>6. /\ draft'.responses = draft.responses /\ draft'.errors = draft.errors
        /\ draft'.retries = draft.retries /\ draft'.triggers = draft.triggers
        /\ draft'.handlers = longer /\ draft'.correlations = draft.correlations
    BY <2>1, <2>4 DEF Drafts
  <2> QED
    BY <2>2, <2>5, <2>6 DEF DraftAfter
<1>4. stage' \in {"open", "awaiting", "correlated"} /\ ClausesInOrder'
  BY <1>1, DraftTypes DEF AddHandlers, ClausesInOrder, Drafts
<1> QED
  BY <1>2, <1>3, <1>4, DraftingKeeps

LEMMA AddCorrelationKeeps ==
  ASSUME DefinitionIInv, AddCorrelation
  PROVE  DefinitionIInv'
<1> PICK o \in BuilderOps : o = "correlate"
  BY DEF BuilderOps
<1> PICK k \in Tokens \cup {NoToken} : k = NoToken
  OBVIOUS
<1>1. DefinitionTypeOK /\ ClausesInOrder
  BY DEF DefinitionIInv, BuilderIInv
<1>2. Call(o, k) /\ UNCHANGED definitions
  BY DEF AddCorrelation
<1>3. DraftAfter(o, k)
  <2>1. draft \in Drafts /\ draft.correlations \in Seq(Nat) /\ Len(calls) + 1 \in Nat
    BY <1>1, DraftTypes DEF Drafts
  <2>2. PICK longer : longer = Append(draft.correlations, Len(calls) + 1)
    OBVIOUS
  <2>3. longer \in Seq(Nat)
    BY <2>1, <2>2
  <2>4. draft' = [draft EXCEPT !.correlations = longer]
    BY <2>2 DEF AddCorrelation
  <2>5. draft' \in Drafts
    BY <2>1, <2>3, <2>4 DEF Drafts
  <2>6. /\ draft'.responses = draft.responses /\ draft'.errors = draft.errors
        /\ draft'.retries = draft.retries /\ draft'.triggers = draft.triggers
        /\ draft'.handlers = draft.handlers /\ draft'.correlations = longer
    BY <2>1, <2>4 DEF Drafts
  <2> QED
    BY <2>2, <2>5, <2>6 DEF DraftAfter
<1>4. stage' \in {"open", "awaiting", "correlated"} /\ ClausesInOrder'
  BY <1>1, DraftTypes DEF AddCorrelation, ClausesInOrder, Drafts
<1> QED
  BY <1>2, <1>3, <1>4, DraftingKeeps

LEMMA StartKeeps ==
  ASSUME DefinitionIInv, Start
  PROVE  DefinitionIInv'
<1> PICK o \in BuilderOps : o = "start"
  BY DEF BuilderOps
<1> PICK k \in Tokens \cup {NoToken} : k = NoToken
  OBVIOUS
<1>1. DefinitionTypeOK /\ ClausesInOrder
  BY DEF DefinitionIInv, BuilderIInv
<1>2. Call(o, k) /\ UNCHANGED definitions
  BY DEF Start
<1>3. DraftAfter(o, k)
  BY <1>1, DraftTypes DEF Start, DraftAfter, Drafts
<1>4. stage' \in {"open", "awaiting", "correlated"} /\ ClausesInOrder'
  BY <1>1, DraftTypes DEF Start, ClausesInOrder, Drafts
<1> QED
  BY <1>2, <1>3, <1>4, DraftingKeeps

LEMMA CorrelateByKeeps ==
  ASSUME DefinitionIInv, CorrelateBy
  PROVE  DefinitionIInv'
<1> PICK o \in BuilderOps : o = "correlateBy"
  BY DEF BuilderOps
<1> PICK k \in Tokens \cup {NoToken} : k = NoToken
  OBVIOUS
<1>1. DefinitionTypeOK /\ ClausesInOrder
  BY DEF DefinitionIInv, BuilderIInv
<1>2. Call(o, k) /\ UNCHANGED definitions
  BY DEF CorrelateBy
<1>3. DraftAfter(o, k)
  <2>1. draft \in Drafts
    BY <1>1, DraftTypes
  <2>2. PICK n \in Nat : n = Len(calls) + 1
    BY <1>1, DraftTypes
  <2>3. draft' = [draft EXCEPT !.correlateBy = n]
    BY <2>2 DEF CorrelateBy
  <2>4. draft' \in Drafts
    BY <2>1, <2>3 DEF Drafts
  <2>5. /\ draft'.responses = draft.responses /\ draft'.errors = draft.errors
        /\ draft'.retries = draft.retries /\ draft'.triggers = draft.triggers
        /\ draft'.handlers = draft.handlers /\ draft'.correlations = draft.correlations
    BY <2>1, <2>3 DEF Drafts
  <2> QED
    BY <2>4, <2>5 DEF DraftAfter
<1>4. stage' \in {"open", "awaiting", "correlated"} /\ ClausesInOrder'
  <2>1. draft \in Drafts
    BY <1>1, DraftTypes
  <2>2. PICK n \in Nat : n = Len(calls) + 1
    BY <1>1, DraftTypes
  <2>3. draft' = [draft EXCEPT !.correlateBy = n] /\ stage # "open" /\ stage' = "correlated"
    BY <2>2 DEF CorrelateBy
  <2>4. draft'.correlateBy = n /\ draft'.start = draft.start
    BY <2>1, <2>3 DEF Drafts
  <2>5. n # NoToken
    BY <2>2, DefinitionAssumption
  <2>6. draft.start
    BY <1>1, <2>3 DEF ClausesInOrder
  <2> QED
    BY <2>3, <2>4, <2>5, <2>6 DEF ClausesInOrder
<1> QED
  BY <1>2, <1>3, <1>4, DraftingKeeps

LEMMA TriggeredByKeeps ==
  ASSUME DefinitionIInv, TriggeredBy
  PROVE  DefinitionIInv'
<1> PICK o \in BuilderOps : o = "triggeredBy"
  BY DEF BuilderOps
<1> PICK k \in Tokens \cup {NoToken} : k = NoToken
  OBVIOUS
<1>1. DefinitionTypeOK /\ ClausesInOrder
  BY DEF DefinitionIInv, BuilderIInv
<1>2. Call(o, k) /\ UNCHANGED definitions
  BY DEF TriggeredBy
<1>3. DraftAfter(o, k)
  <2>1. draft \in Drafts /\ draft.triggers \in Seq(Nat) /\ Len(calls) + 1 \in Nat
    BY <1>1, DraftTypes DEF Drafts
  <2>2. PICK longer : longer = Append(draft.triggers, Len(calls) + 1)
    OBVIOUS
  <2>3. longer \in Seq(Nat)
    BY <2>1, <2>2
  <2>4. draft' = [draft EXCEPT !.triggers = longer]
    BY <2>2 DEF TriggeredBy
  <2>5. draft' \in Drafts
    BY <2>1, <2>3, <2>4 DEF Drafts
  <2>6. /\ draft'.responses = draft.responses /\ draft'.errors = draft.errors
        /\ draft'.retries = draft.retries /\ draft'.triggers = longer
        /\ draft'.handlers = draft.handlers /\ draft'.correlations = draft.correlations
    BY <2>1, <2>4 DEF Drafts
  <2> QED
    BY <2>2, <2>5, <2>6 DEF DraftAfter
<1>4. stage' \in {"open", "awaiting", "correlated"} /\ ClausesInOrder'
  BY <1>1, DraftTypes DEF TriggeredBy, ClausesInOrder, Drafts
<1> QED
  BY <1>2, <1>3, <1>4, DraftingKeeps

-----------------------------------------------------------------------------
(* A turn of a handler.                                                    *)

LEMMA BuilderRests ==
  ASSUME DefinitionIInv, UNCHANGED <<stage, draft, definitions, calls>>
  PROVE  BuilderIInv'
<1>1. DraftKeepsItsCalls /\ ClausesInOrder /\ BuiltsKeepTheirCalls
  BY DEF DefinitionIInv, BuilderIInv
<1>2. stage' = stage /\ draft' = draft /\ definitions' = definitions /\ calls' = calls
  OBVIOUS
<1>3. ASSUME NEW op, NEW t, NEW n PROVE LastCall(op, t, n)' = LastCall(op, t, n)
  BY <1>2 DEF LastCall
<1>4. ASSUME NEW map, NEW op, NEW n, KeepsLast(map, op, n) PROVE KeepsLast(map, op, n)'
  BY <1>3, <1>4 DEF KeepsLast
<1>5. ASSUME NEW list, NEW op, NEW n, Lists(list, op, n) PROVE Lists(list, op, n)'
  BY <1>2, <1>5 DEF Lists
<1>6. DraftKeepsItsCalls'
  BY <1>1, <1>2, <1>4, <1>5 DEF DraftKeepsItsCalls
<1>7. ASSUME NEW d, KeepsItsCalls(d) PROVE KeepsItsCalls(d)'
  BY <1>2, <1>4, <1>5, <1>7 DEF KeepsItsCalls
<1>8. BuiltsKeepTheirCalls'
  BY <1>1, <1>2, <1>7 DEF BuiltsKeepTheirCalls
<1>9. ClausesInOrder'
  BY <1>1, <1>2 DEF ClausesInOrder
<1> QED
  BY <1>6, <1>8, <1>9 DEF BuilderIInv

LEMMA TurnsKeepTypes ==
  ASSUME DefinitionIInv, UNCHANGED <<stage, draft, definitions, calls>>,
         handlerTurn' \in {"none", "running", "returned"}, intents' \in Seq(IntentsOfATurn),
         taken' \in Seq(Requests \cup {NoToken}), terminal' \in [Requests -> BOOLEAN]
  PROVE  DefinitionTypeOK'
BY DEF DefinitionIInv, DefinitionTypeOK

\* What a request needs of the definition its turn runs.
Answerable(intent) == intent.type = "request" =>
  /\ HandlerOf("response", intent.response) # {}
  /\ HandlerOf("error", intent.error) # {}
  /\ intent.retry # NoToken => intent.retry \in DOMAIN Definition.retries

LEMMA BeginTurnKeeps ==
  ASSUME DefinitionIInv, BeginTurn
  PROVE  DefinitionIInv'
<1>1. /\ handlerTurn = "none" /\ definitions # <<>> /\ handlerTurn' = "running"
      /\ UNCHANGED <<stage, draft, definitions, calls, intents, taken, terminal>>
  BY DEF BeginTurn
<1>2. DefinitionTypeOK /\ TurnInOrder
  BY DEF DefinitionIInv
<1>3. DefinitionTypeOK' /\ BuilderIInv'
  BY <1>1, <1>2, TurnsKeepTypes, BuilderRests DEF DefinitionTypeOK
<1>4. intents' = <<>> /\ taken' = <<>>
  BY <1>1, <1>2 DEF TurnInOrder
<1>5. DOMAIN intents' = {} /\ DOMAIN taken' = {} /\ Len(taken') <= Len(intents')
  BY <1>4
<1>6. TurnInOrder' /\ RequestsCanBeAnswered'
  BY <1>1, <1>5 DEF TurnInOrder, RequestsCanBeAnswered
<1> QED
  BY <1>3, <1>6 DEF DefinitionIInv

LEMMA EmitKeeps ==
  ASSUME DefinitionIInv, NEW intent \in IntentsOfATurn, Emit(intent), Answerable(intent),
         terminal' \in [Requests -> BOOLEAN],
         \A r \in Requests : terminal[r] => terminal'[r],
         intent.type = "request" => ~terminal[intent.request] /\ terminal'[intent.request]
  PROVE  DefinitionIInv'
<1> DEFINE n == Len(intents) + 1
<1>1. /\ handlerTurn # "none" /\ intents' = Append(intents, intent)
      /\ UNCHANGED <<stage, draft, definitions, calls, handlerTurn, taken>>
  BY DEF Emit
<1>2. DefinitionTypeOK /\ TurnInOrder /\ RequestsCanBeAnswered
  BY DEF DefinitionIInv
<1>3. intents \in Seq(IntentsOfATurn) /\ taken \in Seq(Requests \cup {NoToken})
  BY <1>2 DEF DefinitionTypeOK
<1>4. /\ Len(intents) \in Nat /\ Len(taken) \in Nat
      /\ DOMAIN intents = 1..Len(intents) /\ DOMAIN taken = 1..Len(taken)
      /\ DOMAIN intents' = 1..n /\ Len(intents') = n
      /\ \A i \in DOMAIN intents : intents'[i] = intents[i] /\ intents[i] \in IntentsOfATurn
      /\ intents'[n] = intent /\ intents' \in Seq(IntentsOfATurn)
  BY <1>1, <1>3
<1>5. \A i \in DOMAIN intents' : i \in DOMAIN intents \/ i = n
  BY <1>4
<1>6. Len(taken) <= Len(intents)
  BY <1>2 DEF TurnInOrder
<1> HIDE DEF n
<1>7. DefinitionTypeOK' /\ BuilderIInv'
  BY <1>1, <1>2, <1>4, TurnsKeepTypes, BuilderRests DEF DefinitionTypeOK
<1>8. TurnInOrder'
  <2>1. \A i \in DOMAIN intents' : intents'[i].type = "request" => terminal'[intents'[i].request]
    <3>1. ASSUME NEW i \in DOMAIN intents, intents[i].type = "request" PROVE terminal'[intents[i].request]
      <4>1. intents[i].request \in Requests
        BY <3>1, <1>4 DEF IntentsOfATurn
      <4>2. terminal[intents[i].request]
        BY <3>1, <1>2 DEF TurnInOrder
      <4> QED
        BY <4>1, <4>2
    <3> QED
      BY <3>1, <1>4, <1>5
  <2>2. Len(taken') <= Len(intents')
    BY <1>1, <1>4, <1>6 DEF n
  <2>3. handlerTurn' # "none" /\ definitions' # <<>>
    BY <1>1, <1>2 DEF TurnInOrder
  <2> QED
    BY <2>1, <2>2, <2>3 DEF TurnInOrder
<1>9. RequestsCanBeAnswered'
  <2>1. /\ \A i, j \in DOMAIN intents :
             intents[i].type = "request" /\ intents[i].request = intents[j].request => i = j
        /\ \A i \in DOMAIN intents : Answerable(intents[i])
        /\ \A i \in DOMAIN taken : taken[i] = intents[i].request
    BY <1>2 DEF RequestsCanBeAnswered, Answerable
  <2>2. \A i \in DOMAIN intents : intents[i].type = "request" =>
          intents[i].request \in Requests /\ intents[i].request # NoToken
    BY <1>4, DefinitionAssumption DEF IntentsOfATurn
  <2>3. \A i \in DOMAIN intents : intents[i].type # "request" => intents[i].request = NoToken
    BY <1>4 DEF IntentsOfATurn
  <2>4. IF intent.type = "request" THEN intent.request \in Requests /\ intent.request # NoToken
        ELSE intent.request = NoToken
    BY DefinitionAssumption DEF IntentsOfATurn
  <2>5. \A i \in DOMAIN intents : intents[i].type = "request" => terminal[intents[i].request]
    BY <1>2 DEF TurnInOrder
  <2>6. ASSUME NEW i \in DOMAIN intents, intents[i].request = intent.request
        PROVE  intents[i].type # "request" /\ intent.type # "request"
    <3>1. CASE intent.type = "request"
      <4>1. ~terminal[intents[i].request] /\ intents[i].request # NoToken
        BY <2>6, <3>1, <2>4
      <4> QED
        BY <4>1, <2>3, <2>5
    <3>2. CASE intent.type # "request"
      BY <3>2, <2>2, <2>4, <2>6
    <3> QED
      BY <3>1, <3>2
  <2>7. \A i, j \in DOMAIN intents' :
          intents'[i].type = "request" /\ intents'[i].request = intents'[j].request => i = j
    BY <2>1, <2>6, <1>4, <1>5
  <2>8. \A i \in DOMAIN intents' : Answerable(intents'[i])
    BY <2>1, <1>4, <1>5
  <2>9. ASSUME NEW i \in DOMAIN intents', intents'[i].type = "request"
        PROVE  (/\ HandlerOf("response", intents[i].response) # {}
                /\ HandlerOf("error", intents[i].error) # {}
                /\ intents[i].retry # NoToken => intents[i].retry \in DOMAIN Definition.retries)'
    <3>1. Definition' = Definition
      BY <1>1 DEF Definition
    <3>2. ASSUME NEW phase, NEW token PROVE HandlerOf(phase, token)' = HandlerOf(phase, token)
      BY <3>1 DEF HandlerOf
    <3> QED
      BY <2>8, <2>9, <3>1, <3>2 DEF Answerable
  <2>10. \A i \in DOMAIN taken' : taken'[i] = intents'[i].request
    <3>1. \A i \in DOMAIN taken : i \in DOMAIN intents
      BY <1>4, <1>6
    <3> QED
      BY <2>1, <3>1, <1>1, <1>4
  <2> QED
    BY <2>7, <2>9, <2>10 DEF RequestsCanBeAnswered
<1> QED
  BY <1>7, <1>8, <1>9 DEF DefinitionIInv

LEMMA EmitOneWayKeeps ==
  ASSUME DefinitionIInv, EmitOneWay
  PROVE  DefinitionIInv'
<1> PICK intent : intent = [type |-> "one-way", request |-> NoToken, policy |-> 0]
  OBVIOUS
<1>1. Emit(intent) /\ terminal' = terminal
  BY DEF EmitOneWay
<1>2. intent \in IntentsOfATurn /\ intent.type # "request"
  BY DEF IntentsOfATurn
<1>3. Answerable(intent)
  BY <1>2 DEF Answerable
<1>4. terminal' \in [Requests -> BOOLEAN] /\ \A r \in Requests : terminal[r] => terminal'[r]
  BY <1>1 DEF DefinitionIInv, DefinitionTypeOK
<1> QED
  BY <1>1, <1>2, <1>3, <1>4, EmitKeeps

LEMMA NamespacesAreOfHandlers ==
  ASSUME DefinitionTypeOK, definitions # <<>>
  PROVE  /\ Namespace("response") \subseteq Tokens \cap DOMAIN Definition.responses
         /\ Namespace("error") \subseteq Tokens \cap DOMAIN Definition.errors
         /\ Namespace("retry") \subseteq Tokens \cap DOMAIN Definition.retries
<1>1. Definition \in Builts
  <2>1. definitions \in Seq(Builts)
    BY DEF DefinitionTypeOK
  <2>2. Len(definitions) \in DOMAIN definitions
    BY <2>1
  <2> QED
    BY <2>1, <2>2 DEF Definition, Last
<1>2. \A map \in Handlers : DOMAIN map \subseteq Tokens
  BY DEF Handlers
<1>3. /\ DOMAIN Definition.responses \subseteq Tokens /\ DOMAIN Definition.errors \subseteq Tokens
      /\ DOMAIN Definition.retries \subseteq Tokens
  BY <1>1, <1>2 DEF Builts
<1> HIDE DEF Definition
<1>4. ASSUME NEW t, t \in Namespace("response") PROVE t \in DOMAIN Definition.responses
  BY <1>4 DEF Namespace, PhaseOf
<1>5. ASSUME NEW t, t \in Namespace("error") PROVE t \in DOMAIN Definition.errors
  BY <1>5 DEF Namespace, PhaseOf
<1>6. ASSUME NEW t, t \in Namespace("retry") PROVE t \in DOMAIN Definition.retries
  BY <1>6 DEF Namespace, PhaseOf
<1> QED
  BY <1>3, <1>4, <1>5, <1>6

LEMMA OnErrorKeeps ==
  ASSUME DefinitionIInv, handlerTurn # "none", NEW r \in Requests,
         NEW response \in Namespace("response"), NEW error \in Namespace("error"),
         NEW retry \in Namespace("retry") \cup {NoToken}, OnError(r, response, retry, error)
  PROVE  DefinitionIInv'
<1> PICK intent : intent = [type |-> "request", request |-> r, policy |-> 0,
                            response |-> response, retry |-> retry, error |-> error]
  OBVIOUS
<1>1. ~terminal[r] /\ Emit(intent) /\ terminal' = [terminal EXCEPT ![r] = TRUE]
  BY DEF OnError
<1>2. DefinitionTypeOK /\ definitions # <<>>
  BY DEF DefinitionIInv, TurnInOrder
<1>3. /\ response \in Tokens \cap DOMAIN Definition.responses
      /\ error \in Tokens \cap DOMAIN Definition.errors
      /\ retry # NoToken => retry \in Tokens \cap DOMAIN Definition.retries
  BY <1>2, NamespacesAreOfHandlers
<1>4. intent \in IntentsOfATurn /\ intent.request = r
  BY <1>3 DEF IntentsOfATurn
<1>5. Answerable(intent)
  <2>1. intent.response = response /\ intent.error = error /\ intent.retry = retry
    OBVIOUS
  <2>2. HandlerOf("response", response) # {}
    BY <1>3 DEF HandlerOf
  <2>3. HandlerOf("error", error) # {}
    BY <1>3 DEF HandlerOf
  <2> QED
    BY <1>3, <2>1, <2>2, <2>3 DEF Answerable
<1>6. /\ terminal' \in [Requests -> BOOLEAN] /\ terminal'[r]
      /\ \A x \in Requests : terminal[x] => terminal'[x]
  BY <1>1, <1>2 DEF DefinitionTypeOK
<1> QED
  BY <1>1, <1>4, <1>5, <1>6, EmitKeeps

LEMMA OverrideKeeps ==
  ASSUME DefinitionIInv, NEW i \in Nat, Override(i)
  PROVE  DefinitionIInv'
<1>1. /\ i \in DOMAIN intents /\ intents' = [intents EXCEPT ![i].policy = 1]
      /\ UNCHANGED <<stage, draft, definitions, calls, handlerTurn, taken, terminal>>
  BY DEF Override
<1>2. DefinitionTypeOK /\ TurnInOrder /\ RequestsCanBeAnswered
  BY DEF DefinitionIInv
<1>3. intents \in Seq(IntentsOfATurn)
  BY <1>2 DEF DefinitionTypeOK
<1>4. DOMAIN intents' = DOMAIN intents /\ Len(intents') = Len(intents)
  BY <1>1, <1>3
<1>5. ASSUME NEW j \in DOMAIN intents
      PROVE  /\ intents'[j] \in IntentsOfATurn /\ intents'[j].type = intents[j].type
             /\ intents'[j].request = intents[j].request
             /\ intents[j].type = "request" =>
                  /\ intents'[j].response = intents[j].response /\ intents'[j].error = intents[j].error
                  /\ intents'[j].retry = intents[j].retry
  <2>1. intents[j] \in IntentsOfATurn /\ intents'[j] = IF j = i THEN [intents[j] EXCEPT !.policy = 1] ELSE intents[j]
    BY <1>1, <1>3
  <2> QED
    BY <2>1 DEF IntentsOfATurn
<1>6. intents' \in Seq(IntentsOfATurn)
  BY <1>1, <1>3, <1>4, <1>5
<1>7. DefinitionTypeOK' /\ BuilderIInv'
  BY <1>1, <1>2, <1>6, TurnsKeepTypes, BuilderRests DEF DefinitionTypeOK
<1>8. TurnInOrder'
  <2>1. handlerTurn # "none"
    BY <1>1, <1>2 DEF TurnInOrder
  <2> QED
    BY <2>1, <1>1, <1>2, <1>4, <1>5 DEF TurnInOrder
<1>9. RequestsCanBeAnswered'
  <2>1. ASSUME NEW j \in DOMAIN intents', intents'[j].type = "request"
        PROVE  (/\ HandlerOf("response", intents[j].response) # {}
                /\ HandlerOf("error", intents[j].error) # {}
                /\ intents[j].retry # NoToken => intents[j].retry \in DOMAIN Definition.retries)'
    <3>1. Definition' = Definition
      BY <1>1 DEF Definition
    <3>2. ASSUME NEW phase, NEW token PROVE HandlerOf(phase, token)' = HandlerOf(phase, token)
      BY <3>1 DEF HandlerOf
    <3> QED
      BY <1>2, <1>4, <1>5, <2>1, <3>1, <3>2 DEF RequestsCanBeAnswered
  <2>2. \A j, l \in DOMAIN intents' :
          intents'[j].type = "request" /\ intents'[j].request = intents'[l].request => j = l
    BY <1>2, <1>4, <1>5 DEF RequestsCanBeAnswered
  <2>3. \A j \in DOMAIN taken' : taken'[j] = intents'[j].request
    <3>1. taken \in Seq(Requests \cup {NoToken}) /\ Len(taken) <= Len(intents)
      BY <1>2 DEF DefinitionTypeOK, TurnInOrder
    <3>2. \A j \in DOMAIN taken : j \in DOMAIN intents
      BY <1>3, <3>1
    <3> QED
      BY <3>2, <1>1, <1>2, <1>5 DEF RequestsCanBeAnswered
  <2> QED
    BY <2>1, <2>2, <2>3 DEF RequestsCanBeAnswered
<1> QED
  BY <1>7, <1>8, <1>9 DEF DefinitionIInv

LEMMA HandlerReturnedKeeps ==
  ASSUME DefinitionIInv, HandlerReturned
  PROVE  DefinitionIInv'
<1>1. /\ handlerTurn' = "returned" /\ handlerTurn = "running"
      /\ taken' = [i \in DOMAIN intents |-> intents[i].request]
      /\ UNCHANGED <<stage, draft, definitions, calls, intents, terminal>>
  BY DEF HandlerReturned
<1>2. DefinitionTypeOK /\ TurnInOrder /\ RequestsCanBeAnswered
  BY DEF DefinitionIInv
<1>3. intents \in Seq(IntentsOfATurn)
  BY <1>2 DEF DefinitionTypeOK
<1>4. \A i \in DOMAIN intents : intents[i].request \in Requests \cup {NoToken}
  BY <1>3 DEF IntentsOfATurn
<1>5. taken' \in Seq(Requests \cup {NoToken}) /\ Len(taken') = Len(intents) /\ DOMAIN taken' = DOMAIN intents
  BY <1>1, <1>3, <1>4
<1>6. DefinitionTypeOK' /\ BuilderIInv'
  BY <1>1, <1>2, <1>5, TurnsKeepTypes, BuilderRests DEF DefinitionTypeOK
<1>7. TurnInOrder'
  BY <1>1, <1>2, <1>3, <1>5 DEF TurnInOrder
<1>8. RequestsCanBeAnswered'
  <2>1. Definition' = Definition
    BY <1>1 DEF Definition
  <2>2. ASSUME NEW phase, NEW token PROVE HandlerOf(phase, token)' = HandlerOf(phase, token)
    BY <2>1 DEF HandlerOf
  <2> QED
    BY <1>1, <1>2, <1>5, <2>1, <2>2 DEF RequestsCanBeAnswered
<1> QED
  BY <1>6, <1>7, <1>8 DEF DefinitionIInv

LEMMA DefinitionStarts ==
  ASSUME DefinitionInit
  PROVE  DefinitionIInv
<1>1. /\ stage = "open" /\ definitions = <<>> /\ calls = <<>> /\ handlerTurn = "none"
      /\ intents = <<>> /\ taken = <<>> /\ terminal = [r \in Requests |-> FALSE]
      /\ draft = [start |-> FALSE, correlateBy |-> NoToken, triggers |-> <<>>,
                  responses |-> NoHandlers, errors |-> NoHandlers, retries |-> NoHandlers,
                  correlations |-> <<>>, handlers |-> <<>>]
  BY DEF DefinitionInit
<1>2. NoHandlers \in Handlers /\ DOMAIN NoHandlers = {}
  <2>1. NoHandlers \in [{} -> Nat] /\ {} \in SUBSET Tokens
    BY DEF NoHandlers
  <2> QED
    BY <2>1 DEF Handlers, NoHandlers
<1>3. draft \in Drafts
  BY <1>1, <1>2 DEF Drafts
<1>4. DefinitionTypeOK
  BY <1>1, <1>3 DEF DefinitionTypeOK
<1>5. DraftKeepsItsCalls
  <2>1. Len(calls) = 0
    BY <1>1
  <2>2. \A op, t : LastCall(op, t, 0) = 0
    BY DEF LastCall
  <2>3. \A op : KeepsLast(NoHandlers, op, 0)
    BY <1>2, <2>2 DEF KeepsLast
  <2>4. \A op : Lists(<<>>, op, 0)
    BY DEF Lists, ToSet
  <2> QED
    BY <1>1, <2>1, <2>3, <2>4 DEF DraftKeepsItsCalls
<1>6. ClausesInOrder /\ BuiltsKeepTheirCalls
  BY <1>1 DEF ClausesInOrder, BuiltsKeepTheirCalls
<1>7. TurnInOrder /\ RequestsCanBeAnswered
  BY <1>1 DEF TurnInOrder, RequestsCanBeAnswered
<1> QED
  BY <1>4, <1>5, <1>6, <1>7 DEF DefinitionIInv, BuilderIInv

LEMMA DefinitionStep ==
  ASSUME DefinitionIInv, [DefinitionNext]_definitionVars
  PROVE  DefinitionIInv'
<1>1. CASE BuilderNext
  BY <1>1, OnResponsesKeeps, OnErrorsKeeps, OnRetriesKeeps, AddHandlersKeeps, AddCorrelationKeeps,
     StartKeeps, CorrelateByKeeps, TriggeredByKeeps, BuildingKeeps DEF BuilderNext
<1>2. CASE TurnNext
  <2>1. CASE BeginTurn \/ EmitOneWay \/ HandlerReturned
    BY <2>1, BeginTurnKeeps, EmitOneWayKeeps, HandlerReturnedKeeps
  <2>2. CASE \E phase \in {"response", "error"}, t \in Tokens : BeginCallback(phase, t)
    BY <2>2, BeginTurnKeeps DEF BeginCallback
  <2>3. CASE /\ handlerTurn # "none"
             /\ \E r \in Requests, response \in Namespace("response"), error \in Namespace("error"),
                   retry \in Namespace("retry") \cup {NoToken} : OnError(r, response, retry, error)
    BY <2>3, OnErrorKeeps
  <2>4. CASE \E i \in 1..Cardinality(Requests) + 1 : Override(i)
    BY <2>4, OverrideKeeps
  <2> QED
    BY <1>2, <2>1, <2>2, <2>3, <2>4 DEF TurnNext
<1>3. CASE UNCHANGED definitionVars
  <2>1. /\ stage' = stage /\ draft' = draft /\ definitions' = definitions /\ calls' = calls
        /\ handlerTurn' = handlerTurn /\ intents' = intents /\ taken' = taken /\ terminal' = terminal
    BY <1>3 DEF definitionVars
  <2>2. BuilderIInv'
    BY <2>1, BuilderRests
  <2>3. DefinitionTypeOK' /\ TurnInOrder'
    BY <2>1 DEF DefinitionIInv, DefinitionTypeOK, TurnInOrder
  <2>4. RequestsCanBeAnswered'
    <3>1. Definition' = Definition
      BY <2>1 DEF Definition
    <3>2. ASSUME NEW phase, NEW token PROVE HandlerOf(phase, token)' = HandlerOf(phase, token)
      BY <3>1 DEF HandlerOf
    <3> QED
      BY <2>1, <3>1, <3>2 DEF DefinitionIInv, RequestsCanBeAnswered
  <2> QED
    BY <2>2, <2>3, <2>4 DEF DefinitionIInv
<1> QED
  BY <1>1, <1>2, <1>3 DEF DefinitionNext

LEMMA BuiltsSayTheirCalls ==
  ASSUME DefinitionIInv
  PROVE  SagasRunAsBuilt
<1>1. DraftKeepsItsCalls /\ BuiltsKeepTheirCalls
  BY DEF DefinitionIInv, BuilderIInv
<1>2. DefinitionsKeepTheirCalls
  BY <1>1 DEF DefinitionsKeepTheirCalls, DraftKeepsItsCalls, BuiltsKeepTheirCalls, KeepsItsCalls,
              KeepsLast, HandlersOf, CorrelationsOf
<1> QED
  BY <1>2 DEF SagasRunAsBuilt, DefinitionIInv

(* In every behaviour of the saga builder, whatever the tokens, the requests *)
(* and the bound on the calls: a definition holds of each token the handler  *)
(* registered last before build(), all its triggers in order and none        *)
(* without start() and correlateBy(); its lists of handlers and correlations *)
(* are those of all calls so far; and a turn emits each request once, with   *)
(* handlers for its answers in the definition it runs.                       *)
THEOREM EverySagaRunsAsBuilt == DefinitionSpec => []SagasRunAsBuilt
<1>1. DefinitionSpec => []DefinitionIInv
  BY DefinitionStarts, DefinitionStep, PTL DEF DefinitionSpec
<1> QED
  BY <1>1, BuiltsSayTheirCalls, PTL
=============================================================================
