-------------------------- MODULE ProjectionRouter ---------------------------
(***************************************************************************)
(* The router of projection dispatch: a route applies the link mutations of   *)
(* its event, resolves the targets linked to the event's aggregate, adds the  *)
(* ones its definition names, and drops those the host does not have.  Every  *)
(* call of the link store and of hasTarget() is awaited, and the routes of    *)
(* several events overlap.                                                    *)
(***************************************************************************)
EXTENDS Naturals, Sequences, SequencesExt, FiniteSets

CONSTANTS
  Routes,       \* the calls of route()
  RouteOf,      \* [Routes -> own, joins, source, named, mutations]: the event is
                \* of the projection's stream, of a reverse rule's, its aggregate,
                \* the set of targets identity and rules name, its mutations
  LinkSources,  \* the aggregates
  LinkTargets,  \* the target documents
  Fleeting      \* those that come and go

\* Mutations are of aggregates and target documents, and an event names finitely
\* many documents; only these come and go.
ASSUME RouterAssumption ==
  /\ Fleeting \subseteq LinkTargets
  /\ \A r \in Routes :
       LET event == RouteOf[r]
       IN /\ event.own \in BOOLEAN /\ event.joins \in BOOLEAN
          /\ event.joins => event.source \in LinkSources
          /\ event.named \subseteq LinkTargets /\ IsFiniteSet(event.named)
          /\ event.mutations \in
               Seq([op : {"add", "remove"}, source : LinkSources, target : LinkTargets])

VARIABLES
  linkTable,    \* [LinkSources -> the targets linked], the default link store
  existing,     \* the targets the host has
  routing,      \* [Routes -> where the call is]
  mutated       \* history: the mutations, in order

routerVars == <<linkTable, existing, routing, mutated>>

\* always and ever are history: the targets linked, and there, all the time
\* and at some time since the call was done with its mutations.
RouterInit ==
  /\ linkTable = [s \in LinkSources |-> {}]
  /\ existing = LinkTargets /\ mutated = <<>>
  /\ routing = [r \in Routes |->
       [phase |-> "new", todo |-> <<>>, targets |-> <<>>, kept |-> <<>>, missing |-> {}, unlinked |-> 0,
        always |-> {}, ever |-> {}, present |-> {}, seen |-> {}]]

-----------------------------------------------------------------------------
AddLink(links, m) == [links EXCEPT ![m.source] = @ \cup {m.target}]

\* Mutant of RemoveLink: the source is forgotten with its first removal.
RemoveLinks(links, m) == [links EXCEPT ![m.source] = IF m.target \in @ THEN {} ELSE @]

RemoveLink(links, m) == [links EXCEPT ![m.source] = @ \ {m.target}]

\* What the mutations say is linked to a source.
LinkedBy(mutations, s) ==
  {t \in LinkTargets : \E i \in DOMAIN mutations :
     /\ mutations[i] = [op |-> "add", source |-> s, target |-> t]
     /\ \A j \in i .. Len(mutations) : mutations[j] # [op |-> "remove", source |-> s, target |-> t]}

\* What the calls under way have seen of the links and of the targets.
Watched(calls) ==
  [r \in Routes |->
     LET here == LinkedBy(mutated', RouteOf[r].source)
     IN IF calls[r].phase \in {"new", "done"} THEN calls[r]
        ELSE [calls[r] EXCEPT !.always = @ \cap here, !.ever = @ \cup here,
                              !.present = @ \cap existing', !.seen = @ \cup existing']]

Moves(r, to) == routing' = Watched([routing EXCEPT ![r] = to])

WatchesAnew(x) ==
  [x EXCEPT !.always = LinkTargets, !.ever = {}, !.present = LinkTargets, !.seen = {}]

\* An event that is none of the definition's has no targets.
RouteBegins(r) ==
  /\ routing[r].phase = "new"
  /\ UNCHANGED <<linkTable, existing, mutated>>
  /\ Moves(r, IF RouteOf[r].own \/ RouteOf[r].joins
              THEN [WatchesAnew(routing[r]) EXCEPT !.phase = "mutating", !.todo = RouteOf[r].mutations]
              ELSE [routing[r] EXCEPT !.phase = "done"])

Mutate(r) ==
  LET m == Head(routing[r].todo)
      after == [WatchesAnew(routing[r]) EXCEPT !.todo = Tail(@)]
  IN /\ routing[r].phase = "mutating" /\ routing[r].todo # <<>>
     /\ linkTable' = IF m.op = "add" THEN AddLink(linkTable, m) ELSE RemoveLink(linkTable, m)
     /\ mutated' = Append(mutated, m) /\ UNCHANGED existing
     /\ Moves(r, IF m.op = "remove" /\ m.target \notin linkTable[m.source]
                 THEN [after EXCEPT !.unlinked = @ + 1] ELSE after)

\* The fanout: each target once.
ResolveRoute(r) ==
  LET links == IF RouteOf[r].joins THEN linkTable[RouteOf[r].source] ELSE {}
      fanout == SetToSeq(RouteOf[r].named \cup links)
  IN /\ routing[r].phase = "mutating" /\ routing[r].todo = <<>>
     /\ UNCHANGED <<linkTable, existing, mutated>>
     /\ Moves(r, [routing[r] EXCEPT !.phase = IF fanout = <<>> THEN "done" ELSE "checking",
                                    !.targets = fanout])

CheckTarget(r) ==
  LET checked == Len(routing[r].kept) + Cardinality(routing[r].missing)
      target == routing[r].targets[checked + 1]
      after == [routing[r] EXCEPT !.phase = IF checked + 1 = Len(routing[r].targets) THEN "done" ELSE @]
  IN /\ routing[r].phase = "checking"
     /\ UNCHANGED <<linkTable, existing, mutated>>
     /\ Moves(r, IF target \in existing THEN [after EXCEPT !.kept = Append(@, target)]
                 ELSE [after EXCEPT !.missing = @ \cup {target}])

\* A document of the host is removed, or created.
TargetChanges(t) ==
  /\ existing' = IF t \in existing THEN existing \ {t} ELSE existing \cup {t}
  /\ UNCHANGED <<linkTable, mutated>>
  /\ routing' = Watched(routing)

RouterNext ==
  \/ \E r \in Routes : RouteBegins(r) \/ Mutate(r) \/ ResolveRoute(r) \/ CheckTarget(r)
  \/ \E t \in Fleeting : TargetChanges(t)

RouterSpec == RouterInit /\ [][RouterNext]_routerVars

-----------------------------------------------------------------------------
(* However routes overlap and targets come and go, a decision holds every     *)
(* target that was linked and there from the route's own last mutation to    *)
(* its end, none that was never linked or named, and none that was never     *)
(* there in between; and a target left out is reported as missing            *)
(* (projection-router-core/src/index.ts:153-229).                             *)
RoutesReachTheLinked ==
  \A r \in Routes : routing[r].phase = "done" /\ (RouteOf[r].own \/ RouteOf[r].joins) =>
    LET c == routing[r]
        named == RouteOf[r].named
        linkedAll == IF RouteOf[r].joins THEN c.always ELSE {}
        linkedEver == IF RouteOf[r].joins THEN c.ever ELSE {}
    IN /\ (named \cup linkedAll) \cap c.present \subseteq ToSet(c.kept)
       /\ ToSet(c.kept) \subseteq (named \cup linkedEver) \cap c.seen
       /\ (named \cup linkedAll) \subseteq ToSet(c.kept) \cup c.missing
=============================================================================
