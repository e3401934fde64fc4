---------------------------- MODULE LiveAggregate ----------------------------
(***************************************************************************)
(* Mirage and Depot: instances of one aggregate, hydrated from its stream,  *)
(* that decide commands on their own state and keep what they decided as    *)
(* pending events until a save() has appended them.  Interceptors, append   *)
(* plugins and the store are awaited, so that dispatches and saves overlap. *)
(* The state of an aggregate is the events it has folded.                   *)
(***************************************************************************)
EXTENDS Naturals, Sequences, SequencesExt

CONSTANTS
  Mirages,          \* the instances
  Dispatched,       \* the commands
  EventCount,       \* [Dispatched -> the events it decides on]
  SaveCalls,        \* the calls of save(), numbered as they are made
  MaxDepotFaults    \* bound of failed calls, lost replies and crashes

ASSUME DepotAssumption == EventCount \in [Dispatched -> Nat]

VARIABLES
  stream,      \* the events stored: [id, base, clean]
  mirage,      \* [Mirages -> the MirageCore]
  command,     \* [Dispatched -> where the command is]
  save,        \* [SaveCalls -> where the call is]
  handed,      \* history: ids of the events given to onAfterCommit, in order
  depotFaults

depotVars == <<stream, mirage, command, save, handed, depotFaults>>

Ids(events) == [i \in DOMAIN events |-> events[i].id]

\* overlapped is history: events were applied while a save awaited.
NotLoaded == [live |-> FALSE, state |-> <<>>, version |-> 0, pending |-> <<>>,
              overlapped |-> FALSE]
NotCalled == [phase |-> "new", on |-> 0, events |-> <<>>, expected |-> 0]
Ended == [NotCalled EXCEPT !.phase = "ended"]

DepotInit ==
  /\ stream = <<>>
  /\ mirage = [m \in Mirages |-> NotLoaded]
  /\ command = [c \in Dispatched |-> [phase |-> "new", on |-> 0]]
  /\ save = [s \in SaveCalls |-> NotCalled]
  /\ handed = <<>>
  /\ depotFaults = 0

DepotFault == depotFaults < MaxDepotFaults /\ depotFaults' = depotFaults + 1

-----------------------------------------------------------------------------
\* The stream from an event on, counted from one.
ReadStream(fromVersion) == SubSeq(stream, fromVersion, Len(stream))

\* A snapshot that covers so many events, and the events after it.
HydratedFrom(snapshot) == Ids(SubSeq(stream, 1, snapshot)) \o Ids(ReadStream(snapshot + 1))

Get(m, snapshot) ==
  /\ ~mirage[m].live
  /\ LET state == HydratedFrom(snapshot)
     IN mirage' = [mirage EXCEPT ![m] = [NotLoaded EXCEPT !.live = TRUE, !.state = state,
                                           !.version = Len(state)]]
  /\ UNCHANGED <<stream, command, save, handed, depotFaults>>

\* The instance is given up, with its calls, or dies with its process.
Discard(m) ==
  /\ mirage[m].live /\ DepotFault
  /\ mirage' = [mirage EXCEPT ![m] = NotLoaded]
  /\ command' = [c \in Dispatched |-> IF command[c] = [phase |-> "before", on |-> m]
                                      THEN [phase |-> "failed", on |-> m] ELSE command[c]]
  /\ save' = [s \in SaveCalls |-> IF save[s].on = m THEN Ended
                                  ELSE save[s]]
  /\ UNCHANGED <<stream, handed>>

-----------------------------------------------------------------------------
\* dispatch(): the interceptors are awaited.
Dispatch(c, m) ==
  /\ mirage[m].live /\ command[c].phase = "new"
  /\ command' = [command EXCEPT ![c] = [phase |-> "before", on |-> m]]
  /\ UNCHANGED <<stream, mirage, save, handed, depotFaults>>

Saving(m) == \E s \in SaveCalls : save[s].on = m /\ save[s].phase \in {"prepare", "append", "stored"}

\* The command is decided on the state there is now, and its events are
\* applied one by one: one that fails leaves the ones before it applied.
Execute(c, applied) ==
  LET m == command[c].on
      decided == [k \in 1..applied |->
                    [id |-> <<c, k>>, base |-> mirage[m].state,
                     clean |-> ~mirage[m].overlapped /\ ~Saving(m)]]
  IN /\ command[c].phase = "before" /\ applied <= EventCount[c]
     /\ mirage' = [mirage EXCEPT
                     ![m].state = @ \o Ids(decided),
                     ![m].version = @ + applied,
                     ![m].pending = @ \o decided,
                     ![m].overlapped = @ \/ (applied > 0 /\ Saving(m))]
     /\ command' = [command EXCEPT ![c].phase = IF applied = EventCount[c] THEN "done" ELSE "failed"]
     /\ UNCHANGED <<stream, save, handed, depotFaults>>

-----------------------------------------------------------------------------
\* The pending events and the count stored before them, read together.
Save(s, m) ==
  /\ mirage[m].live /\ save[s].phase = "new"
  /\ \A t \in SaveCalls : t < s => save[t].phase # "new"
  /\ save' = [save EXCEPT ![s] =
                [phase |-> "prepare", on |-> m, events |-> mirage[m].pending,
                 expected |-> mirage[m].version - Len(mirage[m].pending)]]
  /\ UNCHANGED <<stream, mirage, command, handed, depotFaults>>

BeforeAppendReturns(s) ==
  /\ save[s].phase = "prepare"
  /\ save' = [save EXCEPT ![s].phase = "append"]
  /\ UNCHANGED <<stream, mirage, command, handed, depotFaults>>

\* Mutant of SaveFails: pending events are cleared in any case.
SaveFailsAndClears(s) ==
  /\ save' = [save EXCEPT ![s] = Ended]
  /\ mirage' = [mirage EXCEPT ![save[s].on].pending = <<>>]

\* The call rejects, with the pending events as they are.
SaveFails(s) == save' = [save EXCEPT ![s] = Ended] /\ UNCHANGED mirage

BeforeAppendFails(s) ==
  /\ save[s].phase = "prepare" /\ SaveFails(s) /\ DepotFault
  /\ UNCHANGED <<stream, command, handed>>

\* saveEvents() compares and appends in one step.
SaveEvents(s) ==
  /\ save[s].phase = "append"
  /\ IF Len(stream) = save[s].expected
     THEN /\ stream' = stream \o save[s].events
          /\ save' = [save EXCEPT ![s].phase = "stored"] /\ UNCHANGED mirage
     ELSE SaveFails(s) /\ UNCHANGED stream
  /\ UNCHANGED <<command, handed, depotFaults>>

\* It fails before it writes, or after.
SaveEventsFails(s) ==
  /\ save[s].phase = "append" /\ SaveFails(s) /\ DepotFault
  /\ stream' \in {stream, IF Len(stream) = save[s].expected THEN stream \o save[s].events ELSE stream}
  /\ UNCHANGED <<command, handed>>

\* What the plugins are given after the commit.
Committed(s) == save[s].events

\* The append returns: everything pending is cleared and onAfterCommit called;
\* if that fails the call rejects, but nothing is taken back.
Saved(s) ==
  /\ save[s].phase = "stored"
  /\ mirage' = [mirage EXCEPT ![save[s].on].pending = <<>>]
  /\ handed' = handed \o Ids(Committed(s))
  /\ save' = [save EXCEPT ![s] = Ended]
  /\ UNCHANGED <<stream, command, depotFaults>>

DepotNext ==
  \/ \E m \in Mirages :
       \/ \E snapshot \in 0..Len(stream) : Get(m, snapshot)
       \/ Discard(m)
       \/ \E c \in Dispatched : Dispatch(c, m)
       \/ \E s \in SaveCalls : Save(s, m)
  \/ \E c \in Dispatched : \E applied \in 0..EventCount[c] : Execute(c, applied)
  \/ \E s \in SaveCalls :
       \/ BeforeAppendReturns(s) \/ BeforeAppendFails(s)
       \/ SaveEvents(s) \/ SaveEventsFails(s) \/ Saved(s)

DepotSpec == DepotInit /\ [][DepotNext]_depotVars

-----------------------------------------------------------------------------
\* The events an instance holds and stores, against the stream.
SavesRestOnTheStream ==
  /\ \A m \in Mirages :
       LET baseline == mirage[m].version - Len(mirage[m].pending)
       IN ~mirage[m].overlapped =>
            /\ baseline <= Len(stream)
            /\ mirage[m].state = Ids(SubSeq(stream, 1, baseline)) \o Ids(mirage[m].pending)
  /\ \A i \in DOMAIN stream : stream[i].clean =>
       IsPrefix(stream[i].base, Ids(SubSeq(stream, 1, i - 1)))

\* The events given to onAfterCommit, against the stream.
EffectsFollowCommit ==
  /\ IsInjective(handed)
  /\ \A i \in DOMAIN handed : \E j \in DOMAIN stream : stream[j].id = handed[i]
  /\ depotFaults = 0 => \A j \in DOMAIN stream :
       \/ \E i \in DOMAIN handed : handed[i] = stream[j].id
       \/ \E s \in SaveCalls : save[s].phase = "stored" /\ stream[j].id \in ToSet(Ids(save[s].events))

(* As long as an instance does not dispatch and save at a time, its state is *)
(* what the stream holds up to its baseline and its pending events, through  *)
(* failed saves, lost replies and events that fail half way; and every event *)
(* it stores was decided on exactly the events stored before it, whatever    *)
(* other instances store.  An instance that does both is lossy: it takes     *)
(* events for stored that were cleared unsaved (packages/mirage/README.md:   *)
(* 307-309), and this promises nothing for what it decides afterwards.  But  *)
(* even then onAfterCommit is never given an event that is not stored, nor   *)
(* one twice, and without failures it is given every stored event.           *)
SavesAndEffectsFollowTheStream == SavesRestOnTheStream /\ EffectsFollowCommit
=============================================================================
