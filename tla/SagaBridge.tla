----------------------------- MODULE SagaBridge ------------------------------
(***************************************************************************)
(* createSagaExecutionBridge() over the reference adapters: dispatch() runs *)
(* the handlers an event matches one after the other, each of them awaited  *)
(* with the definition state the dispatch has seen, records the event and   *)
(* every intent in the saga aggregate, and lets the adapters schedule,      *)
(* cancel and execute.  Any number of dispatches are in flight.  A restart  *)
(* loses what the bridge keeps in memory; the states behind its getters,    *)
(* the executions and the triggers are kept.                                *)
(***************************************************************************)
EXTENDS SagaAggregate, SagaScheduler, FiniteSets

CONSTANTS
  Dispatches,   \* the dispatch() calls
  DispatchOf,   \* [saga, matches, misfire]: how many handlers the event of a call
                \* matches, and the misfire mode of its scheduler policy
  Outputs,      \* the intents a handler may return
  MaxRestarts   \* bound of the restarts

VARIABLES
  sagaState,       \* [saga -> the handler runs its definition state has folded]
  aggregateState,  \* [saga -> state of the saga aggregate]
  intentSequence,  \* intentSequenceBySaga
  executions,      \* [execution id -> [owner, status]], the execution projection
  turn,            \* [Dispatches -> where the call is]
  effects,         \* the execute() calls that have not returned
  restarts,
  writes,          \* history: [saga -> the handler runs written, in order]
  intentCount,     \* history: [saga -> the intents its handlers returned]
  answers,         \* history: what execute() returned or threw, by owner
  overlapped       \* history: the sagas two dispatches were in flight for

ASSUME BridgeAssumption ==
  /\ IsFiniteSet(Dispatches)
  /\ \A d \in Dispatches : DispatchOf[d].saga # NoSaga
  /\ \A intents \in Outputs : intents \in Seq(ToSet(intents))

bridgeVars == <<sagaState, aggregateState, intentSequence, executions, turn, effects,
                restarts, writes, intentCount, answers, overlapped>>

BridgeSagas == {DispatchOf[d].saga : d \in Dispatches}
InFlight(d) == turn[d].phase \in {"handler", "effects"}

IsSideEffect(intent) == intent.type \notin {"schedule", "cancel", "dispatch"}

BridgeInit ==
  /\ sagaState = [s \in BridgeSagas |-> <<>>]
  /\ aggregateState = [s \in BridgeSagas |-> CreateInitialState]
  /\ intentSequence = [s \in BridgeSagas |-> 0]
  /\ executions = [e \in {} |-> 0]
  /\ turn = [d \in Dispatches |-> [phase |-> "new", match |-> 0, state |-> <<>>]]
  /\ effects = {}
  /\ restarts = 0
  /\ writes = [s \in BridgeSagas |-> <<>>]
  /\ intentCount = [s \in BridgeSagas |-> 0]
  /\ answers = [o \in {} |-> 0]
  /\ overlapped = {}

-----------------------------------------------------------------------------
\* No handler matches: nothing is recorded.
DispatchUnhandled(d) ==
  /\ turn[d].phase = "new" /\ DispatchOf[d].matches = 0
  /\ turn' = [turn EXCEPT ![d].phase = "done"]
  /\ UNCHANGED <<sagaState, aggregateState, intentSequence, executions, effects,
                 restarts, writes, intentCount, answers, overlapped>>

\* ensureAggregateInstance() and the observation of the event.
Observed(state, saga) ==
  LET created == IF Created(state) THEN state
                 ELSE Applied(state, [type |-> "createInstance", id |-> saga,
                                      lifecycle |-> "active"])
  IN Applied(created, [type |-> "observeSourceEvent"])

\* Mutant of GetSagaState: starts from the initial state every time.
GetInitialState(saga) == <<>>

GetSagaState(saga) == sagaState[saga]

\* The definition state is read once, before the first handler is awaited.
DispatchBegins(d) ==
  LET s == DispatchOf[d].saga
  IN /\ turn[d].phase = "new" /\ DispatchOf[d].matches > 0
     /\ aggregateState' = [aggregateState EXCEPT ![s] = Observed(@, s)]
     /\ turn' = [turn EXCEPT ![d] = [phase |-> "handler", match |-> 1,
                                     state |-> GetSagaState(s)]]
     /\ overlapped' = overlapped \cup
          {t \in {s} : \E e \in Dispatches : InFlight(e) /\ DispatchOf[e].saga = t}
     /\ UNCHANGED <<sagaState, intentSequence, executions, effects, restarts, writes,
                    intentCount, answers>>

\* A handler throws: the dispatch rejects, what earlier handlers wrote stays.
HandlerThrows(d) ==
  /\ turn[d].phase = "handler"
  /\ turn' = [turn EXCEPT ![d].phase = "failed"]
  /\ UNCHANGED <<sagaState, aggregateState, intentSequence, executions, effects,
                 restarts, writes, intentCount, answers, overlapped>>

-----------------------------------------------------------------------------
IntentId(saga, n) == <<saga, n>>

\* The intents are recorded in the aggregate one by one, under the next ids.
IntentsRecorded(state, intents) ==
  FoldLeft(LAMBDA acc, intent : Applied(acc, [type |-> "recordIntentLifecycle",
                                              intent |-> intent.type]),
           state, intents)

\* runReferenceAdapterFlowV1 schedules and cancels in the order of the intents.
TriggersAfter(table, intents, saga, misfire) ==
  FoldLeft(LAMBDA acc, intent :
             CASE intent.type = "schedule" ->
                    Scheduled(acc, intent.id,
                      NewTrigger(saga, now + intent.delay, 0, misfire, 1, schedules + 1))
               [] intent.type = "cancel" -> Cancelled(acc, intent.id)
               [] OTHER -> acc,
           table, intents)

\* The state is written, every intent recorded, triggers scheduled, executions
\* set to in_progress and execute() called, with no await in between.
HandlerReturns(d, intents) ==
  LET s == DispatchOf[d].saga
      run == <<d, turn[d].match>>
      state == Append(turn[d].state, run)
      started == {<<IntentId(s, intentSequence[s] + i), <<run, i>>>> :
                    i \in {j \in DOMAIN intents : IsSideEffect(intents[j])}}
      ids == {e[1] : e \in started}
      ownerOf(id) == (CHOOSE e \in started : e[1] = id)[2]
  IN /\ turn[d].phase = "handler"
     /\ turn' = [turn EXCEPT ![d] = [phase |-> "effects", match |-> @.match, state |-> state]]
     /\ sagaState' = [sagaState EXCEPT ![s] = state]
     /\ writes' = [writes EXCEPT ![s] = Append(@, run)]
     /\ aggregateState' = [aggregateState EXCEPT ![s] = IntentsRecorded(@, intents)]
     /\ intentSequence' = [intentSequence EXCEPT ![s] = @ + Len(intents)]
     /\ intentCount' = [intentCount EXCEPT ![s] = @ + Len(intents)]
     /\ scheduled' = TriggersAfter(scheduled, intents, s, DispatchOf[d].misfire)
     /\ schedules' = schedules + Cardinality({i \in DOMAIN intents :
                                                intents[i].type = "schedule"})
     /\ executions' = [e \in DOMAIN executions \cup ids |->
                         IF e \in ids THEN [owner |-> ownerOf(e), status |-> "in_progress"]
                         ELSE executions[e]]
     /\ effects' = effects \cup started
     /\ UNCHANGED <<restarts, answers, overlapped, now, ran>>

Own(d) == {e \in effects : e[2][1] = <<d, turn[d].match>>}

Answer(e, what) ==
  /\ e \in effects
  /\ effects' = effects \ {e}
  /\ answers' = [o \in DOMAIN answers \cup {e[2]} |->
                   IF o = e[2] THEN what ELSE answers[o]]

\* Mutant of Recorded: results are dropped once a sibling has thrown.
RecordedUnlessFailed(e, status) ==
  IF turn[e[2][1][1]].phase = "failed" THEN executions
  ELSE [executions EXCEPT ![e[1]] = [owner |-> e[2], status |-> status]]

\* Each execution is updated as its own execute() returns, whatever the others do.
Recorded(e, status) == [executions EXCEPT ![e[1]] = [owner |-> e[2], status |-> status]]

EffectReturns(e, status) ==
  /\ Answer(e, status)
  /\ executions' = Recorded(e, status)
  /\ UNCHANGED <<sagaState, aggregateState, intentSequence, turn, restarts, writes,
                 intentCount, overlapped>>

\* execute() rejects: so does the dispatch, the other effects go on.
EffectThrows(e) ==
  /\ Answer(e, "threw")
  /\ turn' = [turn EXCEPT ![e[2][1][1]].phase = "failed"]
  /\ UNCHANGED <<sagaState, aggregateState, intentSequence, executions, restarts,
                 writes, intentCount, overlapped>>

\* All have returned: the next handler, with the state this dispatch has made.
TurnAdvances(d) ==
  /\ turn[d].phase = "effects" /\ Own(d) = {}
  /\ turn' = [turn EXCEPT ![d] =
       IF @.match < DispatchOf[d].matches
       THEN [phase |-> "handler", match |-> @.match + 1, state |-> @.state]
       ELSE [@ EXCEPT !.phase = "done"]]
  /\ UNCHANGED <<sagaState, aggregateState, intentSequence, executions, effects,
                 restarts, writes, intentCount, answers, overlapped>>

\* The process dies and a new bridge is created over the stored states.
Restart ==
  /\ restarts < MaxRestarts
  /\ restarts' = restarts + 1
  /\ intentSequence' = [s \in BridgeSagas |-> 0]
  /\ turn' = [d \in Dispatches |-> IF InFlight(d) THEN [turn[d] EXCEPT !.phase = "failed"]
                                   ELSE turn[d]]
  /\ effects' = {}
  /\ UNCHANGED <<sagaState, aggregateState, executions, writes, intentCount, answers,
                 overlapped>>

BridgeStep ==
  \/ \E d \in Dispatches :
       DispatchUnhandled(d) \/ DispatchBegins(d) \/ HandlerThrows(d) \/ TurnAdvances(d)
  \/ \E e \in effects : EffectThrows(e) \/ \E s \in {"succeeded", "failed"} : EffectReturns(e, s)
  \/ Restart

BridgeNext ==
  \/ BridgeStep /\ UNCHANGED schedulerVars
  \/ \E d \in Dispatches, intents \in Outputs : HandlerReturns(d, intents)

BridgeSpec == BridgeInit /\ SchedulerInit /\ [][BridgeNext]_<<bridgeVars, schedulerVars>>

-----------------------------------------------------------------------------
\* What the runs of a saga's handlers leave in its definition state.
StateIsFolded == \A s \in BridgeSagas \ overlapped : sagaState[s] = writes[s]

\* What the events and intents of a saga leave in its aggregate.
EverythingIsCounted == \A s \in BridgeSagas :
  LET begun == {d \in Dispatches : DispatchOf[d].saga = s /\ turn[d].match > 0}
      a == aggregateState[s]
  IN /\ a.totals["events"] = Cardinality(begun)
     /\ a.totals["intents"] = intentCount[s]
     /\ a.version = (IF begun = {} THEN 0 ELSE 1) + Cardinality(begun) + intentCount[s]

\* An execution shows the answer its own execute() gave, and stays in progress
\* only while that call runs, threw, or died with the process.
ExecutionsAreHonest == \A id \in DOMAIN executions :
  LET e == executions[id]
  IN IF e.status = "in_progress"
     THEN \/ <<id, e.owner>> \in effects
          \/ restarts > 0
          \/ e.owner \in DOMAIN answers /\ answers[e.owner] = "threw"
     ELSE e.owner \in DOMAIN answers /\ answers[e.owner] = e.status

(* As long as no two dispatches of a saga were in flight together, its       *)
(* definition state has folded every handler run that returned, in order,    *)
(* across failed handlers, failed effects and restarts; even when dispatches *)
(* overlap, its aggregate has counted every event that was dispatched and    *)
(* every intent that was returned; and an effect that throws does not hide   *)
(* how its siblings ended (sagaExecutionBridge.ts:297-374).                  *)
BridgeKeepsTheRecord == StateIsFolded /\ EverythingIsCounted /\ ExecutionsAreHonest
=============================================================================
