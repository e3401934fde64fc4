---------------------------- MODULE SagaScheduler ----------------------------
(***************************************************************************)
(* The in-memory scheduler of the saga runtime's reference adapters: a      *)
(* trigger is kept by its id alone, and drainDue() turns the time since its *)
(* run time into occurrences, of which the misfire mode keeps some.  Times  *)
(* are whole ticks; interval 0 is a trigger without intervalMs.             *)
(***************************************************************************)
EXTENDS Naturals, Sequences, SequencesExt, FiniteSets

CONSTANTS
  TriggerIds,     \* numbered, so that they sort as the ids do
  Intervals,      \* the values of intervalMs, 0 for none
  CatchUpBounds,  \* the values of maxCatchUpCount
  MaxTime,        \* bound of the clock
  MaxSchedules    \* bound of the times a trigger is scheduled

\* toFinitePositiveInteger() drops every other count and interval.
ASSUME SchedulerAssumption ==
  /\ TriggerIds \subseteq Nat /\ IsFiniteSet(TriggerIds)
  /\ Intervals \subseteq Nat /\ CatchUpBounds \subseteq Nat \ {0}
  /\ MaxTime \in Nat

VARIABLES
  scheduled,  \* [trigger id -> trigger], those that are scheduled
  now,        \* the nowIso passed to the scheduler
  schedules,  \* history: how many times schedule() was called
  ran         \* history: the occurrences handed out, in order

schedulerVars == <<scheduled, now, schedules, ran>>

SchedulerInit ==
  scheduled = [i \in {} |-> 0] /\ now = 0 /\ schedules = 0 /\ ran = <<>>

\* "first" and "number" identify the call of schedule() and are history.
NewTrigger(saga, runAt, interval, misfire, bound, number) ==
  [saga |-> saga, runAt |-> runAt, interval |-> interval, misfire |-> misfire,
   bound |-> bound, first |-> runAt, number |-> number]

Scheduled(table, id, trigger) ==
  [i \in DOMAIN table \cup {id} |-> IF i = id THEN trigger ELSE table[i]]

Cancelled(table, id) == [i \in DOMAIN table \ {id} |-> table[i]]

-----------------------------------------------------------------------------
DueOccurrences(t) ==
  LET count == IF t.interval = 0 THEN 1 ELSE (now - t.runAt) \div t.interval + 1
  IN [i \in 1..count |-> t.runAt + (i - 1) * t.interval]

Executions(t) ==
  LET due == DueOccurrences(t)
      bounded == IF t.bound < Len(due) THEN t.bound ELSE Len(due)
  IN IF now = t.runAt THEN SubSeq(due, 1, 1)
     ELSE CASE t.misfire = "skip_until_next" -> <<>>
            [] t.misfire = "latest_only" -> SubSeq(due, Len(due), Len(due))
            [] t.misfire = "catch_up_bounded" -> SubSeq(due, 1, bounded)
            [] t.misfire = "catch_up_all" -> due

\* Mutant of NextRunAt: the last occurrence handed out comes again.
NextRunAtRepeats(t) == t.runAt + (Len(DueOccurrences(t)) - 1) * t.interval

\* The run time after every occurrence that is due, run or skipped.
NextRunAt(t) == t.runAt + Len(DueOccurrences(t)) * t.interval

DueIds == {i \in DOMAIN scheduled : scheduled[i].runAt <= now}

DueOrder(i, j) ==
  \/ scheduled[i].runAt < scheduled[j].runAt
  \/ scheduled[i].runAt = scheduled[j].runAt /\ i < j

\* The triggers that are due, in this order; there is one way to sort them.
DueInOrder ==
  {order \in SetToSeqs(DueIds) : \A p, q \in DOMAIN order : p < q => DueOrder(order[p], order[q])}

RunsOf(i) ==
  LET times == Executions(scheduled[i])
  IN [e \in DOMAIN times |-> [number |-> scheduled[i].number, at |-> times[e]]]

DrainDue ==
  LET kept == {i \in DOMAIN scheduled : i \notin DueIds \/ scheduled[i].interval > 0}
  IN /\ DueIds # {}
     /\ \E order \in DueInOrder :
          ran' = ran \o FlattenSeq([p \in DOMAIN order |-> RunsOf(order[p])])
     /\ scheduled' = [i \in kept |->
                        IF i \in DueIds
                        THEN [scheduled[i] EXCEPT !.runAt = NextRunAt(scheduled[i])]
                        ELSE scheduled[i]]
     /\ UNCHANGED <<now, schedules>>

\* schedule() and cancel() called by the application on the adapter.
Schedule(id, interval, misfire, bound) ==
  /\ schedules < MaxSchedules
  /\ schedules' = schedules + 1
  /\ scheduled' = Scheduled(scheduled, id,
       NewTrigger(0, now + 1, interval, misfire, bound, schedules + 1))
  /\ UNCHANGED <<now, ran>>

Cancel(id) ==
  /\ id \in DOMAIN scheduled
  /\ scheduled' = Cancelled(scheduled, id)
  /\ UNCHANGED <<now, schedules, ran>>

TimePasses == now < MaxTime /\ now' = now + 1 /\ UNCHANGED <<scheduled, schedules, ran>>

MisfireModes == {"skip_until_next", "latest_only", "catch_up_bounded", "catch_up_all"}

SchedulerNext ==
  \/ DrainDue \/ TimePasses
  \/ \E id \in TriggerIds : Cancel(id)
  \/ \E id \in TriggerIds, interval \in Intervals, misfire \in MisfireModes, bound \in CatchUpBounds :
       Schedule(id, interval, misfire, bound)

SchedulerSpec == SchedulerInit /\ [][SchedulerNext]_schedulerVars

-----------------------------------------------------------------------------
(* However late and however often the scheduler is drained, an occurrence of *)
(* a trigger is handed out at most once and never before its time, and one   *)
(* that catches up on all has handed out every occurrence before its next.   *)
OccurrencesOnce ==
  /\ \A i, j \in DOMAIN ran : ran[i] = ran[j] => i = j
  /\ \A i \in DOMAIN ran : ran[i].at <= now
  /\ \A id \in DOMAIN scheduled :
       LET t == scheduled[id]
           past == {at \in t.first..MaxTime :
                      /\ t.interval > 0 /\ at < t.runAt
                      /\ (at - t.first) % t.interval = 0}
       IN t.misfire = "catch_up_all" =>
            \A at \in past : \E i \in DOMAIN ran : ran[i] = [number |-> t.number, at |-> at]
=============================================================================
