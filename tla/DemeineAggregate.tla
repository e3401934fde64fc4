-------------------------- MODULE DemeineAggregate --------------------------
(***************************************************************************)
(* The aggregate of the Demeine bridge: commands are sunk into a queue of   *)
(* concurrency one, each is processed when its input has resolved, and the  *)
(* events it applied wait in an array that callers read and clear.  The     *)
(* state of the aggregate is the events it has folded; an event is the pair *)
(* of its command and its number.                                           *)
(***************************************************************************)
EXTENDS Naturals, Sequences, SequencesExt

CONSTANTS
  SunkCommands,     \* the commands
  NotACommand,      \* no command
  Readers,          \* the callers of getUncommittedEventsAsync()
  EventsDecided     \* [SunkCommands -> the events it decides on]

ASSUME DemeineAssumption ==
  /\ NotACommand \notin SunkCommands
  /\ EventsDecided \in [SunkCommands -> Nat]

VARIABLES
  commandQueue,     \* the queue's waiting tasks, _queue.size of them
  running,          \* the task in hand, or NotACommand
  input,            \* [SunkCommands -> the promise or command passed to _sink()]
  result,           \* [SunkCommands -> what has become of the command]
  aggregate,        \* [state, version, uncommitted]
  read,             \* [Readers -> their last call]
  sunk,             \* history: the commands in the order of the _sink() calls
  cleared           \* history: the commands settled at the last clear

demeineVars == <<commandQueue, running, input, result, aggregate, read, sunk, cleared>>

DemeineInit ==
  /\ commandQueue = <<>> /\ running = NotACommand
  /\ input = [c \in SunkCommands |-> "pending"]
  /\ result = [c \in SunkCommands |-> "none"]
  /\ aggregate = [state |-> <<>>, version |-> 0, uncommitted |-> <<>>]
  /\ read = [r \in Readers |-> [phase |-> "new", before |-> {}, events |-> <<>>]]
  /\ sunk = <<>> /\ cleared = {}

CommandSettled(c) == result[c] \in {"done", "failed"}
Idle == running = NotACommand /\ commandQueue = <<>>

-----------------------------------------------------------------------------
\* _sink() adopts its input at once and queues the rest; a queue with nothing
\* in hand starts the task in the call.
Sink(c) ==
  /\ result[c] = "none"
  /\ sunk' = Append(sunk, c)
  /\ result' = [result EXCEPT ![c] = "sunk"]
  /\ IF running = NotACommand
     THEN running' = c /\ UNCHANGED commandQueue
     ELSE commandQueue' = Append(commandQueue, c) /\ UNCHANGED running
  /\ UNCHANGED <<input, aggregate, read, cleared>>

\* The inputs resolve, or reject, in any order, before or after their turn.
InputSettles(c, how) ==
  /\ input[c] = "pending" /\ result[c] # "none"
  /\ input' = [input EXCEPT ![c] = how]
  /\ UNCHANGED <<commandQueue, running, result, aggregate, read, sunk, cleared>>

\* Mutant of StartNext: a task whose input has resolved goes first.
StartReady ==
  LET ready == SelectSeq(commandQueue, LAMBDA c : input[c] # "pending")
      chosen == IF ready = <<>> THEN Head(commandQueue) ELSE Head(ready)
  IN IF commandQueue = <<>> THEN running' = NotACommand /\ UNCHANGED commandQueue
     ELSE running' = chosen /\ commandQueue' = Remove(commandQueue, chosen)

StartNext ==
  IF commandQueue = <<>>
  THEN running' = NotACommand /\ UNCHANGED commandQueue
  ELSE running' = Head(commandQueue) /\ commandQueue' = Tail(commandQueue)

\* The promise of _sink() settles and the queue takes its next task.
Settles(c, how) ==
  /\ result' = [result EXCEPT ![c] = how]
  /\ StartNext
  /\ UNCHANGED <<input, read, sunk>>

\* The input rejects, or lacks its type or this aggregate's id.
Refuse(c) ==
  /\ running = c /\ result[c] = "sunk" /\ input[c] = "bad"
  /\ Settles(c, "failed")
  /\ UNCHANGED <<aggregate, cleared>>

\* The command is passed to a sink of the host, which processes it later.
PassToSink(c) ==
  /\ running = c /\ result[c] = "sunk" /\ input[c] = "ready"
  /\ result' = [result EXCEPT ![c] = "passed"]
  /\ UNCHANGED <<commandQueue, running, input, aggregate, read, sunk, cleared>>

AppliedBy(c, count) ==
  LET events == [k \in 1..count |-> <<c, k>>]
  IN [state |-> aggregate.state \o events,
      version |-> aggregate.version + count,
      uncommitted |-> aggregate.uncommitted \o events]

\* process() converts all events before it applies the first.
Processed(c) ==
  /\ Settles(c, "done")
  /\ aggregate' = AppliedBy(c, EventsDecided[c]) /\ UNCHANGED cleared

\* It throws: before an event is applied, or between two of them.
Throws(c, count) ==
  /\ count < EventsDecided[c]
  /\ Settles(c, "failed")
  /\ aggregate' = AppliedBy(c, count) /\ UNCHANGED cleared

\* An operational error clears what is pending, earlier commands' events too,
\* and rolls nothing back.
ThrowsOperational(c, count) ==
  /\ count < EventsDecided[c]
  /\ Settles(c, "failed")
  /\ aggregate' = [AppliedBy(c, count) EXCEPT !.uncommitted = <<>>]
  /\ cleared' = {d \in SunkCommands : CommandSettled(d)} \cup {c}

ProcessCommand(c) ==
  /\ running = c /\ \/ result[c] = "sunk" /\ input[c] = "ready"
                    \/ result[c] = "passed"
  /\ \/ Processed(c)
     \/ \E count \in 0..1 : Throws(c, count) \/ ThrowsOperational(c, count)

\* The host's sink gives the command up, or answers without processing it.
SinkAnswers(c) ==
  /\ running = c /\ result[c] = "passed"
  /\ Settles(c, "failed")
  /\ UNCHANGED <<aggregate, cleared>>

-----------------------------------------------------------------------------
ReadUncommittedAsync(r) ==
  /\ read[r].phase \in {"new", "cleared"}
  /\ read' = [read EXCEPT ![r].phase = "waiting", ![r].before = ToSet(sunk)]
  /\ UNCHANGED <<commandQueue, running, input, result, aggregate, sunk, cleared>>

\* onIdle() resolves; its continuation runs later.
ReadFindsIdle(r) ==
  /\ read[r].phase = "waiting" /\ Idle
  /\ read' = [read EXCEPT ![r].phase = "idle"]
  /\ UNCHANGED <<commandQueue, running, input, result, aggregate, sunk, cleared>>

\* Only the waiting tasks are checked again, not the one in hand.
ReadReturns(r) ==
  /\ read[r].phase = "idle"
  /\ read' = IF commandQueue # <<>> THEN [read EXCEPT ![r].phase = "waiting"]
             ELSE [read EXCEPT ![r].phase = "done", ![r].events = aggregate.uncommitted]
  /\ UNCHANGED <<commandQueue, running, input, result, aggregate, sunk, cleared>>

\* The caller has committed what a read returned and clears it.
ClearUncommittedEvents(r) ==
  /\ read[r].phase = "done"
  /\ read' = [read EXCEPT ![r].phase = "cleared"]
  /\ aggregate' = [aggregate EXCEPT !.uncommitted = <<>>]
  /\ cleared' = {d \in SunkCommands : CommandSettled(d)}
  /\ UNCHANGED <<commandQueue, running, input, result, sunk>>

DemeineNext ==
  \/ \E c \in SunkCommands :
       \/ Sink(c) \/ \E how \in {"ready", "bad"} : InputSettles(c, how)
       \/ Refuse(c) \/ PassToSink(c) \/ ProcessCommand(c) \/ SinkAnswers(c)
  \/ \E r \in Readers : ReadUncommittedAsync(r) \/ ReadFindsIdle(r) \/ ReadReturns(r)
                      \/ ClearUncommittedEvents(r)

DemeineSpec == DemeineInit /\ [][DemeineNext]_demeineVars

-----------------------------------------------------------------------------
(* Commands take effect one at a time, in the order of their _sink() calls,  *)
(* in whatever order their inputs resolve and whichever of them fail; and a  *)
(* read returns only when every command sunk before it has settled, with all *)
(* events of those that nothing has cleared (packages/demeine-interop/       *)
(* README.md: 78-90).  An operational error clears the events of the         *)
(* commands before it as well: the state keeps them.                         *)
CommandsTakeTurns ==
  LET order(c) == CHOOSE i \in DOMAIN sunk : sunk[i] = c
  IN /\ \A i, j \in DOMAIN sunk : i < j /\ CommandSettled(sunk[j]) => CommandSettled(sunk[i])
     /\ \A i, j \in DOMAIN aggregate.state : i < j =>
          \/ order(aggregate.state[i][1]) < order(aggregate.state[j][1])
          \/ /\ aggregate.state[i][1] = aggregate.state[j][1]
             /\ aggregate.state[i][2] < aggregate.state[j][2]
     /\ \A r \in Readers : read[r].phase = "done" =>
          \A c \in read[r].before :
            /\ CommandSettled(c)
            /\ result[c] = "done" /\ c \notin cleared =>
                 \A k \in 1..EventsDecided[c] : <<c, k>> \in ToSet(read[r].events)
=============================================================================
