---------------------------- MODULE SagaAggregate ----------------------------
(***************************************************************************)
(* The saga aggregate of @redemeine/saga-runtime: what its commands reject  *)
(* and what its events do to the state, as operators the inbound router     *)
(* and the execution bridge fold with.  Time stamps and payloads are left   *)
(* out; a record of a window is the event that was recorded.                *)
(***************************************************************************)
EXTENDS Naturals, Sequences

CONSTANTS
  NoSaga,        \* the id of a state no instance was created in
  WindowLimit    \* how many records each recent window keeps

\* normalizeWindowLimit
ASSUME WindowAssumption == WindowLimit \in Nat

Lifecycles == {"idle", "active", "completed", "failed", "cancelled"}
TerminalLifecycles == {"completed", "failed", "cancelled"}

Windows == {"transitions", "events", "intents", "activities"}

CreateInitialState ==
  [id |-> NoSaga, lifecycle |-> "idle", version |-> 0,
   totals |-> [w \in Windows |-> 0], recent |-> [w \in Windows |-> <<>>]]

\* Newest first, the oldest beyond the limit forgotten.
AppendRecentWindow(window, value) ==
  LET grown == <<value>> \o window
  IN SubSeq(grown, 1, IF Len(grown) < WindowLimit THEN Len(grown) ELSE WindowLimit)

\* The window a command is recorded in.
WindowOf(command) ==
  CASE command.type = "observeSourceEvent" -> "events"
    [] command.type = "recordStateTransition" -> "transitions"
    [] command.type = "recordIntentLifecycle" -> "intents"
    [] command.type = "recordActivityLifecycle" -> "activities"

Created(state) == state.id # NoSaga

\* Mutant of Rejects: the state a transition starts from is not compared.
RejectsAnyFrom(state, command) ==
  \/ command.type = "createInstance" /\ Created(state)
  \/ command.type # "createInstance" /\ ~Created(state)
  \/ /\ command.type = "recordStateTransition"
     /\ state.lifecycle \in TerminalLifecycles \/ command.from = command.to

Rejects(state, command) ==
  \/ command.type = "createInstance" /\ Created(state)
  \/ command.type # "createInstance" /\ ~Created(state)
  \/ /\ command.type = "recordStateTransition"
     /\ \/ state.lifecycle \in TerminalLifecycles
        \/ command.from # state.lifecycle
        \/ command.from = command.to

\* A command that is not rejected emits one event, which is applied at once.
Applied(state, command) ==
  IF command.type = "createInstance"
  THEN [state EXCEPT !.id = command.id, !.lifecycle = command.lifecycle,
                     !.version = @ + 1]
  ELSE LET w == WindowOf(command)
       IN [state EXCEPT
             !.lifecycle = IF w = "transitions" THEN command.to ELSE @,
             !.version = @ + 1,
             !.totals[w] = @ + 1,
             !.recent[w] = AppendRecentWindow(@, command)]
=============================================================================
