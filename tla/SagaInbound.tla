----------------------------- MODULE SagaInbound -----------------------------
(***************************************************************************)
(* The saga inbound router: route() chains a command behind the last one of *)
(* its single-flight key, a barrier holds a lane until enough commands of   *)
(* its step were routed, and the command is processed against the state     *)
(* read after beforeProcess() returned.                                     *)
(***************************************************************************)
EXTENDS SagaAggregate, FiniteSets

CONSTANTS
  Calls,      \* the route() calls
  CallOf,     \* [saga, key, command, barrier] of each of them
  NoCall,     \* no call is in flight
  NoBarrier,  \* the waiting policy is arrival_order
  NoStep      \* barrier_gated without a step id

\* An instance is created with an id, a barrier takes a number of calls.
ASSUME InboundAssumption ==
  /\ NoCall \notin Calls
  /\ \A c \in Calls :
       LET command == CallOf[c].command
       IN \/ command.type = "createInstance"
             /\ command.id # NoSaga /\ command.lifecycle \in Lifecycles
          \/ command.type = "recordStateTransition" /\ command.to \in Lifecycles
          \/ command.type \in
               {"observeSourceEvent", "recordIntentLifecycle", "recordActivityLifecycle"}
  /\ \A c \in Calls :
       CallOf[c].barrier \notin {NoBarrier, NoStep} => CallOf[c].barrier.size \in Nat

VARIABLES
  phase,         \* [Calls -> "new", "queued", "before", "done", "failed" or "refused"]
  inFlightByKey, \* [key -> the call last routed, NoCall when it has settled]
  waitsFor,      \* [Calls -> the call it waits for]
  barriers,      \* barrierByStepKey: [<<key, step>> -> [gate, arrived, required]]
  gateOf,        \* the gate a call waits for, named after the call that opened it
  released,      \* the gates released
  instance,      \* stateBySaga
  arrivals       \* history: the calls that joined a lane, in that order

inboundVars == <<phase, inFlightByKey, waitsFor, barriers, gateOf, released,
                 instance, arrivals>>

Sagas == {CallOf[c].saga : c \in Calls}
Settled(c) == phase[c] \in {"done", "failed", "refused"}

InboundInit ==
  /\ phase = [c \in Calls |-> "new"]
  /\ inFlightByKey = [k \in {CallOf[c].key : c \in Calls} |-> NoCall]
  /\ waitsFor = [c \in Calls |-> NoCall]
  /\ barriers = [step \in {} |-> 0]
  /\ gateOf = [c \in Calls |-> NoCall]
  /\ released = {NoCall}
  /\ instance = [s \in Sagas |-> CreateInitialState]
  /\ arrivals = <<>>

-----------------------------------------------------------------------------
\* A barrier without a step id is refused before the call joins its lane.
RouteRefused(c) ==
  /\ phase[c] = "new" /\ CallOf[c].barrier = NoStep
  /\ phase' = [phase EXCEPT ![c] = "refused"]
  /\ UNCHANGED <<inFlightByKey, waitsFor, barriers, gateOf, released, instance, arrivals>>

JoinLane(c) ==
  /\ phase[c] = "new"
  /\ phase' = [phase EXCEPT ![c] = "queued"]
  /\ waitsFor' = [waitsFor EXCEPT ![c] = inFlightByKey[CallOf[c].key]]
  /\ inFlightByKey' = [inFlightByKey EXCEPT ![CallOf[c].key] = c]
  /\ arrivals' = Append(arrivals, c)
  /\ UNCHANGED instance

Route(c) ==
  /\ JoinLane(c) /\ CallOf[c].barrier = NoBarrier
  /\ UNCHANGED <<barriers, gateOf, released>>

\* The first arrival opens the gate of its step and fixes how many it takes,
\* the last one releases and forgets it: one more opens a new gate.
Arrived(c, step) ==
  IF step \in DOMAIN barriers THEN [barriers[step] EXCEPT !.arrived = @ + 1]
  ELSE [gate |-> c, arrived |-> 1, required |-> CallOf[c].barrier.size]

\* Mutant of Releases: one arrival too many is awaited.
ReleasesLate(barrier) == barrier.arrived > barrier.required

Releases(barrier) == barrier.arrived >= barrier.required

RouteToBarrier(c) ==
  /\ JoinLane(c) /\ CallOf[c].barrier \notin {NoBarrier, NoStep}
  /\ LET step == <<CallOf[c].key, CallOf[c].barrier.step>>
         next == Arrived(c, step)
         kept == IF Releases(next) THEN DOMAIN barriers \ {step}
                 ELSE DOMAIN barriers \cup {step}
     IN /\ gateOf' = [gateOf EXCEPT ![c] = next.gate]
        /\ released' = IF Releases(next) THEN released \cup {next.gate} ELSE released
        /\ barriers' = [s \in kept |-> IF s = step THEN next ELSE barriers[s]]

Waits(c) == phase[c] = "queued" /\ (waitsFor[c] # NoCall => Settled(waitsFor[c]))

\* The call before it has settled and its gate is open: beforeProcess() is called.
EnterCall(c) ==
  /\ Waits(c) /\ gateOf[c] \in released
  /\ phase' = [phase EXCEPT ![c] = "before"]
  /\ UNCHANGED <<inFlightByKey, waitsFor, barriers, gateOf, released, instance, arrivals>>

\* Mutant of Cleared: forgets the lane although a newer call has joined it.
ClearedAlways(c, lane) == NoCall

\* clearIfCurrent: the lane is forgotten unless another call has joined it.
Cleared(c, lane) == IF lane = c THEN NoCall ELSE lane

SettleCall(c, how) ==
  /\ phase[c] = "before"
  /\ phase' = [phase EXCEPT ![c] = how]
  /\ inFlightByKey' = [inFlightByKey EXCEPT ![CallOf[c].key] = Cleared(c, @)]
  /\ UNCHANGED <<waitsFor, barriers, gateOf, released, arrivals>>

\* The state is read, folded and written in one synchronous stretch.
Process(c) ==
  LET s == CallOf[c].saga
  IN /\ SettleCall(c, "done")
     /\ ~Rejects(instance[s], CallOf[c].command)
     /\ instance' = [instance EXCEPT ![s] = Applied(@, CallOf[c].command)]

\* beforeProcess() or the aggregate throws; the calls behind go on.
Fail(c) == SettleCall(c, "failed") /\ UNCHANGED instance

InboundNext == \E c \in Calls :
  \/ RouteRefused(c) \/ Route(c) \/ RouteToBarrier(c)
  \/ EnterCall(c) \/ Process(c) \/ Fail(c)

InboundSpec == InboundInit /\ [][InboundNext]_inboundVars

\* Calls go on by themselves once routed; beforeProcess() returns.
InboundFairness == \A c \in Calls :
  WF_inboundVars(EnterCall(c)) /\ WF_inboundVars(Process(c) \/ Fail(c))

-----------------------------------------------------------------------------
Before(c, d) == \E i, j \in DOMAIN arrivals :
                  i < j /\ arrivals[i] = c /\ arrivals[j] = d

\* Fewer commands of the step arrived than the call that opened its gate asked for.
StepIncomplete(c) ==
  /\ gateOf[c] # NoCall
  /\ Cardinality({d \in Calls : gateOf[d] = gateOf[c]}) < CallOf[gateOf[c]].barrier.size

(* Single flight: beforeProcess() of a command is never entered before every *)
(* command routed earlier under its key has settled, whatever failed or was  *)
(* forgotten in between, and never before as many commands of its step       *)
(* arrived as the call that opened the gate asked for.                       *)
InboundInOrder ==
  /\ \A c, d \in Calls :
       /\ Before(c, d) /\ CallOf[c].key = CallOf[d].key
       /\ phase[d] \in {"before", "done", "failed"}
       => Settled(c)
  /\ \A c \in Calls : phase[c] \in {"before", "done", "failed"} => ~StepIncomplete(c)

(* The audit trail of a saga has no hole: the transitions kept follow from   *)
(* one another and end in the current lifecycle, nothing but the creation    *)
(* comes before them, and a terminal lifecycle was entered once.             *)
AuditTrailIsContinuous == \A s \in Sagas :
  LET trail == instance[s].recent["transitions"]
      total == instance[s].totals["transitions"]
  IN /\ \A i \in 1..Len(trail) - 1 : trail[i].from = trail[i + 1].to
     /\ \A i \in DOMAIN trail : trail[i].from \notin TerminalLifecycles
     /\ trail # <<>> => trail[1].to = instance[s].lifecycle
     /\ Created(instance[s]) =>
          instance[s].version = 1 + total + instance[s].totals["events"]
                                  + instance[s].totals["intents"]
                                  + instance[s].totals["activities"]

\* A call of the lane, c or one before it, waits for arrivals that did not come.
HeldByGate(c) == \E d \in Calls :
  /\ CallOf[d].key = CallOf[c].key /\ ~Settled(d) /\ StepIncomplete(d)
  /\ d = c \/ Before(d, c)

(* Every routed command settles, unless a barrier of its lane still waits    *)
(* for arrivals: neither a failed command nor a cleared lane leaves one      *)
(* behind.                                                                   *)
OnlyAGateBlocks == \A c \in Calls :
  phase[c] = "queued" ~> Settled(c) \/ HeldByGate(c)
=============================================================================
