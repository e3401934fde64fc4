--------------------------- MODULE MCLaneScheduler ---------------------------
(***************************************************************************)
(* Small instances of the three mechanisms that serialise work: the lane    *)
(* scheduler and the saga inbound router by key, the Demeine aggregate by   *)
(* its queue.  They share no state: a behaviour exercises one of them.      *)
(***************************************************************************)
EXTENDS LaneScheduler, SagaInbound, DemeineAggregate

CONSTANTS r1, r2, r3, k1, k2, o1, o2, s1, s2, c1, c2, c3, c4, c5, c6

VARIABLE part

\* Three moves that follow from one another, the last by another key, fill a
\* window of two and one more.  Of three commands at a barrier of two, one comes
\* in excess and opens a gate nobody releases; one command names no step.
MCCallOf ==
  LET create(s) == [type |-> "createInstance", id |-> s, lifecycle |-> "active"]
      move(f, t) == [type |-> "recordStateTransition", from |-> f, to |-> t]
      call(key, command, barrier) ==
        [saga |-> s1, key |-> key, command |-> command, barrier |-> barrier]
      pair == [step |-> 1, size |-> 2]
  IN [c \in Calls |->
        CASE c = c1 -> call(s1, create(s1), NoBarrier)
          [] c = c2 -> call(s1, move("active", "idle"), pair)
          [] c = c3 -> call(s1, move("idle", "active"), pair)
          [] c = c4 -> call(s2, move("active", "completed"), NoBarrier)
          [] c = c5 -> call(s1, [type |-> "recordIntentLifecycle"], pair)
          [] c = c6 -> call(s1, [type |-> "recordActivityLifecycle"], NoStep)]

\* One command of two events, and the others of one.
MCEventsDecided == [c \in SunkCommands |-> IF c = c2 THEN 2 ELSE 1]

MCInit == part \in {"lanes", "inbound", "demeine"} /\ Init /\ InboundInit /\ DemeineInit

MCNext ==
  \/ part = "lanes" /\ Next /\ UNCHANGED <<inboundVars, demeineVars, part>>
  \/ part = "inbound" /\ InboundNext /\ UNCHANGED <<vars, demeineVars, part>>
  \/ part = "demeine" /\ DemeineNext /\ UNCHANGED <<vars, inboundVars, part>>

MCSpec ==
  /\ MCInit /\ [][MCNext]_<<vars, inboundVars, demeineVars, part>>
  /\ \A r \in Runs : WF_vars(Start(r)) /\ WF_vars(Settle(r))
  /\ InboundFairness
=============================================================================
