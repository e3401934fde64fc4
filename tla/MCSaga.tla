------------------------------- MODULE MCSaga --------------------------------
(***************************************************************************)
(* Model-checking instance of the saga packages and of the aggregates.      *)
(* The bridge with its adapters, the scheduler under an application of its  *)
(* own, the policy evaluator, the builders of sagas and of aggregates, the  *)
(* audit read model, the depot of live instances, the entities and the      *)
(* envelopes do not share state here: a behaviour exercises one part while  *)
(* the others rest, so that their state spaces add up.                      *)
(***************************************************************************)
EXTENDS SagaBridge, SchedulerPolicy, SagaDefinition, AuditHistory, LiveAggregate,
        EntityTargets, CommandEnvelope, AggregateBuild, TLC

CONSTANTS s1, d1, d2, d3, m1, m2, a1, a2, n1, n2, g1, g2, t1, t2, r1, r2

VARIABLE part

MCDispatchOf ==
  [d \in Dispatches |->
     CASE d = d1 -> [saga |-> s1, matches |-> 2, misfire |-> "latest_only"]
       [] d = d2 -> [saga |-> s1, matches |-> 1, misfire |-> "skip_until_next"]
       [] d = d3 -> [saga |-> s1, matches |-> 0, misfire |-> "latest_only"]]

MCOutputs ==
  LET intent(type) == [type |-> type]
  IN { <<intent("effect"), intent("dispatch"), intent("effect")>>,
       <<[type |-> "cancel", id |-> 1], [type |-> "schedule", id |-> 1, delay |-> 1]>> }

\* One command of two events, and the others of one.
MCEventCount == [c \in Dispatched |-> IF c = a2 THEN 2 ELSE 1]

\* An execution is begun, answered, and then annotated or begun again.
MCAuditRecords ==
  { [status |-> "in_progress", attempt |-> 1, ref |-> FALSE, metadata |-> FALSE],
    [status |-> "succeeded", attempt |-> 2, ref |-> TRUE, metadata |-> FALSE],
    [status |-> "succeeded", attempt |-> 2, ref |-> TRUE, metadata |-> TRUE] }

\* An order with lines under a composite key, notes in a line, and shelves.
Line == [own |-> <<>>, folded |-> <<>>, in |-> [notes |-> <<>>]]
Note == [own |-> <<>>, folded |-> <<>>, in |-> <<>>]
MCRootState ==
  LET shelf == [own |-> [key |-> [of |-> 1, spelt |-> "string"]], folded |-> <<>>, in |-> <<>>]
  IN [own |-> <<>>, folded |-> <<>>, in |-> [lines |-> <<>>, shelves |-> 1 :> shelf]]

MCTargetsByType ==
  LET lines == [mount |-> "lines", kind |-> "list", pk |-> <<"sku", "lot">>, template |-> {Line}]
      notes == [mount |-> "notes", kind |-> "list", pk |-> <<"id">>, template |-> {Note}]
      shelves == [mount |-> "shelves", kind |-> "map", pk |-> <<"key">>, template |-> {}]
  IN [add |-> <<lines>>, added |-> <<lines>>, split |-> <<lines>>, noted |-> <<lines, notes>>,
      note |-> <<lines, notes>>, stock |-> <<shelves>>, drop |-> <<>>, dropped |-> <<>>]

MCDrops == [dropped |-> "added"]

MCSent ==
  LET Keys(of) == {[of |-> of, spelt |-> s] : s \in {"number", "string"}}
      lot(n) == [of |-> n, spelt |-> "number"]
      line(sku, n) == (<<"sku">> :> sku) @@ (<<"lot">> :> lot(n))
      note(sku, n) == (<<"lines", "sku">> :> sku) @@ (<<"lines", "lot">> :> lot(n)) @@ (<<"id">> :> lot(1))
      Command(type, payload) == [type |-> type, payload |-> payload]
  IN UNION {{Command("add", line(sku, n)), Command("note", note(sku, n))} : sku \in Keys(1), n \in 1 .. 2}
     \cup {Command("split", line(lot(1), 1)), Command("drop", line(lot(1), 1)),
           Command("add", <<"sku">> :> lot(1)), Command("stock", <<"key">> :> lot(1))}

\* A split also begins a line of its other half; a stocktake notes that line too.
MCEventsOf(sent) ==
  LET event(type, payload) == [id |-> 0, type |-> type, payload |-> payload]
      p == sent.payload
  IN CASE sent.type = "add" -> <<event("added", p)>>
       [] sent.type = "note" -> <<event("noted", p)>>
       [] sent.type = "drop" -> <<event("dropped", p)>>
       [] sent.type = "stock" -> <<event("stock", p)>>
       [] sent.type = "split" ->
            <<event("split", p), event("added", [p EXCEPT ![<<"lot">>] = [of |-> 2, spelt |-> "string"]])>>

\* Two events, of which the second has a writer of headers; one with the other;
\* and a payload of whose events two plugins write the headers.
MCHeaderWriters == <<<<{}, {g1}>>, <<{g2}>>, <<{}, {g1, g2}>>>>

\* An order of lines with notes in them, whose names are given at every level;
\* the lines are mounted again elsewhere.  A sale extends it, mounts lines of
\* its own, at worst another entity at that point or a command of that name,
\* and mixes in shelves.
MCMounting(at, segment, entity, eventNames, commandNames) ==
  [at |-> at, kind |-> "list", pk |-> <<"id">>, segment |-> <<segment>>, entity |-> entity,
   eventNames |-> eventNames, commandNames |-> commandNames]

MCBuilderCalls ==
  LET note == Package(<<"note">>, <<EventDef("note", <<"noted">>)>>,
                <<CommandDef("note", <<"note">>, <<"noted">>)>>, NoNames, <<"note">> :> <<<<"write">>>>, <<>>)
      notes == MCMounting("notes", "memo", note,
                 <<"noted">> :> <<<<"inner">>>>, <<"note">> :> <<<<"pen">>>>)
      line == Package(<<"line">>, <<EventDef("line", <<"added">>)>>,
                <<CommandDef("line", <<"add">>, <<"added">>)>>,
                <<"notes", "noted">> :> <<<<"remark">>>>, NoNames, <<notes>>)
      shelf == Package(<<"shelf">>, <<EventDef("shelf", <<"filled">>)>>,
                 <<CommandDef("shelf", <<"fill">>, <<"filled">>)>>, NoNames, NoNames, <<>>)
      mixin == Package(<<"mixin">>, <<EventDef("mixin", <<"added">>)>>,
                 <<CommandDef("mixin", <<"mix">>, <<"added">>)>>,
                 <<"shelves", "filled">> :> <<<<"full">>>>, NoNames,
                 <<MCMounting("shelves", "shelf", shelf, NoNames, NoNames)>>)
      mounts(mount) == [op |-> "mount", mount |-> mount]
  IN [order |-> {[op |-> "events", defs |-> <<EventDef("order", <<"added">>), EventDef("order", <<"opened">>)>>],
                 [op |-> "commands", defs |-> <<CommandDef("order", <<"begin">>, <<"added">>)>>],
                 [op |-> "overrideCommandNames", names |-> <<"lines", "add">> :> <<<<"append">>>>],
                 mounts(MCMounting("lines", "line", line, NoNames, <<"notes", "note">> :> <<<<"take">>>>)),
                 mounts(MCMounting("spares", "line", line,
                          <<"added">> :> <<<<"order">>, <<"opened">>>>, NoNames))},
      sale |-> {[op |-> "commands", defs |-> <<CommandDef("sale", <<"lines", "add">>, <<"opened">>)>>],
                [op |-> "overrideEventNames", names |-> <<"opened">> :> <<<<"began">>>>],
                mounts(MCMounting("lines", "line", line, NoNames, <<"add">> :> <<<<"put">>>>)),
                mounts(MCMounting("lines", "line", note, NoNames, NoNames)),
                [op |-> "mixins", mixin |-> mixin]}]

MCAggregateName == [order |-> <<"order">>, sale |-> <<"sale">>]
MCParentsOf == [order |-> {}, sale |-> {"order"}]

sagaVars == <<bridgeVars, schedulerVars, policyVars, definitionVars>>
aggregateVars == <<depotVars, entityVars, envelopeVars, buildVars>>

Init ==
  /\ part \in {"bridge", "scheduler", "policy", "definition", "audit", "depot", "entity", "envelope", "build"}
  /\ BridgeInit /\ SchedulerInit /\ DefinitionInit /\ AuditInit /\ DepotInit /\ EntityInit
  /\ EnvelopeInit /\ BuildInit
  /\ part # "envelope" => call[n1].command.payload = 1
  /\ IF part = "policy" THEN PolicyInit
     ELSE /\ tenants = [t \in Tenants |-> NewTenant(1, 1, 0, 1)]
          /\ capacity = 0 /\ selected = <<>> /\ deferred = <<>>

SagaNext ==
  \/ /\ part = "bridge" /\ BridgeNext
     /\ UNCHANGED <<policyVars, definitionVars>>
  \/ /\ part = "scheduler" /\ SchedulerNext
     /\ UNCHANGED <<bridgeVars, policyVars, definitionVars>>
  \/ /\ part = "policy" /\ PolicyNext
     /\ UNCHANGED <<bridgeVars, schedulerVars, definitionVars>>
  \/ /\ part = "definition" /\ DefinitionNext
     /\ UNCHANGED <<bridgeVars, schedulerVars, policyVars>>

Next ==
  /\ UNCHANGED part
  /\ \/ SagaNext /\ UNCHANGED <<auditVars, aggregateVars>>
     \/ part = "audit" /\ AuditNext /\ UNCHANGED <<sagaVars, aggregateVars>>
     \/ /\ UNCHANGED <<sagaVars, auditVars>>
        /\ \/ part = "depot" /\ DepotNext /\ UNCHANGED <<entityVars, envelopeVars, buildVars>>
           \/ part = "entity" /\ EntityNext /\ UNCHANGED <<depotVars, envelopeVars, buildVars>>
           \/ part = "envelope" /\ EnvelopeNext /\ UNCHANGED <<depotVars, entityVars, buildVars>>
           \/ part = "build" /\ BuildNext /\ UNCHANGED <<depotVars, entityVars, envelopeVars>>

Spec == Init /\ [][Next]_<<part, sagaVars, auditVars, aggregateVars>>

\* The live instances are alike, and so are the tokens and the requests of a
\* definition.
MCSymmetry ==
  Permutations(Mirages)
    \cup {p @@ q : p \in Permutations(Tokens), q \in Permutations(Requests)}
=============================================================================
