--------------------------- MODULE CommandEnvelope ---------------------------
(***************************************************************************)
(* Envelope plugins of a built aggregate.  A dispatched command is prepared:  *)
(* every plugin derives an extension from it, and what was prepared is cached *)
(* by its reference with a copy of its data.  Interceptors and sinks hold the *)
(* command before it is processed; processing prepares it once more and the   *)
(* events it decides on are extended in turn.  Of a command there is its      *)
(* payload and the plugins' extensions, of an extension a stamp that is kept  *)
(* when it is given, and the payload it was derived from.                     *)
(***************************************************************************)
EXTENDS Naturals, Sequences, SequencesExt, FiniteSets

CONSTANTS
  Enveloped,        \* the commands
  EnvelopePlugins,  \* the plugins; all extend events
  CommandPlugins,   \* those that extend commands too
  Payloads,         \* the payloads a command may have
  HeaderWriters,    \* [Payloads -> sequence, one set of header writers an event]
  MaxDispatches,    \* bound of the dispatches of a command
  MaxTouches        \* bound of the changes made to commands in flight

VARIABLES
  call,        \* [Enveloped -> the command, its cache entry, its last call]
  enriched,    \* the events processed, in order
  clock        \* the plugins' clock

envelopeVars == <<call, enriched, clock>>

ASSUME EnvelopeAssumption ==
  /\ CommandPlugins \subseteq EnvelopePlugins
  /\ \A payload \in Payloads : HeaderWriters[payload] \in Seq(SUBSET EnvelopePlugins)

\* An extension that is not there is the empty set.
Raw(payload) == [payload |-> payload, ext |-> [p \in CommandPlugins |-> {}]]

\* touched, dispatches and runs are history: the command was changed in
\* flight, how often it was dispatched and how often the plugins extended it.
EnvelopeInit ==
  /\ \E first \in Payloads :
       call = [c \in Enveloped |-> [phase |-> "new", command |-> Raw(first), cache |-> {},
                                    touched |-> FALSE, dispatches |-> 0, runs |-> 0]]
  /\ enriched = <<>> /\ clock = 0

-----------------------------------------------------------------------------
(* Preparing a command.                                                    *)

\* A plugin keeps a stamp it is given, and rejects one that is not valid.
Derived(given, payload) ==
  {[stamp |-> IF given = {} THEN clock + 1 ELSE (CHOOSE v \in given : TRUE).stamp,
    of |-> payload, valid |-> TRUE]}

Rejected(raw) == \E p \in CommandPlugins : \E v \in raw.ext[p] : ~v.valid

\* Mutant of Unchanged: what was prepared once stays prepared.
UnchangedOnceCached(raw, cache) == cache # {}

\* The data of the object is what it was when it was prepared.
Unchanged(raw, cache) == \E entry \in cache : raw = entry.snapshot

Extended(raw) == [raw EXCEPT !.ext = [p \in CommandPlugins |-> Derived(raw.ext[p], raw.payload)]]

\* prepareCommand(): the object itself, a fresh one, or a failure.
PrepareCommand(raw, cache) ==
  IF Unchanged(raw, cache) THEN [ok |-> TRUE, fresh |-> FALSE, command |-> raw, cache |-> cache]
  ELSE IF Rejected(raw) THEN [ok |-> FALSE, fresh |-> FALSE, command |-> raw, cache |-> cache]
  ELSE [ok |-> TRUE, fresh |-> TRUE, command |-> Extended(raw),
        cache |-> {[snapshot |-> Extended(raw), own |-> Extended(raw).ext]}]

Ran(c, prepared) == call[c].runs + IF prepared.fresh THEN 1 ELSE 0

\* The host dispatches a command, or a copy of what was prepared once more.
DispatchEnvelope(c) ==
  LET prepared == PrepareCommand(call[c].command, {})
  IN /\ call[c].phase # "awaiting" /\ call[c].dispatches < MaxDispatches
     /\ call' = [call EXCEPT ![c] =
          [phase |-> IF prepared.ok THEN "awaiting" ELSE "failed", command |-> prepared.command,
           cache |-> prepared.cache, touched |-> @.touched, dispatches |-> @.dispatches + 1,
           runs |-> Ran(c, prepared)]]
     /\ clock' = IF prepared.fresh THEN clock + 1 ELSE clock
     /\ UNCHANGED enriched

Touches == Cardinality({c \in Enveloped : call[c].touched})

\* An interceptor, a hook or a sink changes the command it was handed.
Touch(c, changed) ==
  /\ call[c].phase = "awaiting" /\ (call[c].touched \/ Touches < MaxTouches)
  /\ changed # call[c].command
  /\ call' = [call EXCEPT ![c].command = changed, ![c].touched = TRUE]
  /\ UNCHANGED <<enriched, clock>>

Edits(command) ==
  {[command EXCEPT !.payload = payload] : payload \in Payloads}
  \cup {[command EXCEPT !.ext[p] = {[stamp |-> 0, of |-> payload, valid |-> valid]}] :
          p \in CommandPlugins, payload \in Payloads, valid \in BOOLEAN}

-----------------------------------------------------------------------------
(* Processing it.                                                          *)

\* A plugin extends an event from its own command extension alone.
EventExtension(own, p, command) ==
  IF p \in CommandPlugins THEN own[p]
  ELSE {[stamp |-> 0, of |-> command.payload, valid |-> TRUE]}

\* One event may have one writer of headers.
Collides(payload, k) == Cardinality(HeaderWriters[payload][k]) > 1

PrepareEvent(c, prepared, k) ==
  LET entry == CHOOSE e \in prepared.cache : TRUE
  IN [of |-> c, number |-> k, payload |-> prepared.command.payload, touched |-> call[c].touched,
      headers |-> HeaderWriters[prepared.command.payload][k],
      ext |-> [p \in EnvelopePlugins |-> EventExtension(entry.own, p, prepared.command)]]

\* The command is prepared again, decided on, and all of its events are
\* extended before the first is applied.
ProcessEnvelope(c) ==
  LET prepared == PrepareCommand(call[c].command, call[c].cache)
      count == Len(HeaderWriters[prepared.command.payload])
      fails == ~prepared.ok \/ \E k \in 1 .. count : Collides(prepared.command.payload, k)
  IN /\ call[c].phase = "awaiting"
     /\ call' = [call EXCEPT ![c].phase = IF fails THEN "failed" ELSE "done",
                             ![c].command = prepared.command, ![c].cache = prepared.cache,
                             ![c].runs = Ran(c, prepared)]
     /\ clock' = IF prepared.fresh THEN clock + 1 ELSE clock
     /\ enriched' = IF fails THEN enriched
                    ELSE enriched \o [k \in 1 .. count |-> PrepareEvent(c, prepared, k)]

EnvelopeNext ==
  \E c \in Enveloped :
    \/ DispatchEnvelope(c) \/ ProcessEnvelope(c)
    \/ \E changed \in Edits(call[c].command) : Touch(c, changed)

EnvelopeSpec == EnvelopeInit /\ [][EnvelopeNext]_envelopeVars

-----------------------------------------------------------------------------
(* However long a command is held and whatever is changed on it, what an     *)
(* event carries of a plugin was derived from the payload its handler got,   *)
(* and from no rejected extension; a command nobody changed is extended once *)
(* a dispatch and keeps its first stamp, so that the events of a dispatch    *)
(* and of its retries agree (packages/aggregate/ENVELOPES.md:113-120).       *)
ExtensionsMatchTheCommand ==
  /\ \A i \in DOMAIN enriched : \A p \in EnvelopePlugins : \A v \in enriched[i].ext[p] :
       v.of = enriched[i].payload /\ v.valid
  /\ \A i, j \in DOMAIN enriched :
       enriched[i].of = enriched[j].of /\ ~enriched[i].touched /\ ~enriched[j].touched =>
         enriched[i].ext = enriched[j].ext
  /\ \A c \in Enveloped : ~call[c].touched => call[c].runs = call[c].dispatches
=============================================================================
