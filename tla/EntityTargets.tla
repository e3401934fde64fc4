---------------------------- MODULE EntityTargets ----------------------------
(***************************************************************************)
(* The command processor of a built aggregate and the projectors of its     *)
(* mounted entities: a command or an event names the entity it is for by     *)
(* primary keys in its payload, one mount inside the other, and is resolved   *)
(* against the nested state; a new entity is begun from its template, and a   *)
(* projector's result replaces the entity in its place.  An entity is its own *)
(* fields, the events it has folded and the containers mounted in it.        *)
(***************************************************************************)
EXTENDS Naturals, Sequences, SequencesExt, FiniteSets

CONSTANTS
  TargetsByType,    \* [command or event type -> its chain of mounts]
  StaticTypes,      \* the commands that may begin an entity
  EventsOf(_),      \* the events a command's handler returns
  Sent,             \* the commands sent: [type, payload]
  Drops,            \* root events that remove an entity: [event type -> type it addresses]
  RootState,        \* the initial state
  MaxApplied        \* bound of the events applied

VARIABLES
  entityRoot,  \* the state
  journal,     \* the events applied, in order
  decided      \* history: the entity shown to the last handler, and when

entityVars == <<entityRoot, journal, decided>>

EntityInit ==
  /\ entityRoot = RootState /\ journal = <<>>
  /\ decided = [address |-> <<>>, folded |-> <<>>, at |-> 0]

-----------------------------------------------------------------------------
(* Resolving a target.                                                     *)

\* A key is a number or a string: [of, spelt]; they are equal as strings.
Equal(a, b) == a.of = b.of

\* Ancestors carry their mount's name before the key's.
PayloadField(target, field, leaf) == IF leaf THEN <<field>> ELSE <<target.mount, field>>

HasIdentity(target, payload, leaf) ==
  \A f \in ToSet(target.pk) : PayloadField(target, f, leaf) \in DOMAIN payload

Identity(target, payload, leaf) ==
  [f \in ToSet(target.pk) |-> payload[PayloadField(target, f, leaf)]]

\* Mutant of Matches: the first field of a composite key decides.
MatchesFirst(entity, identity, target) == Equal(entity.own[target.pk[1]], identity[target.pk[1]])

Matches(entity, identity, target) ==
  \A f \in ToSet(target.pk) : Equal(entity.own[f], identity[f])

\* The places in a container an identity stands for.
Selected(container, target, identity) ==
  IF target.kind = "map" THEN {identity["key"].of} \cap DOMAIN container
  ELSE {i \in DOMAIN container : Matches(container[i], identity, target)}

Found(entity) == [ok |-> TRUE, entity |-> entity, isNew |-> FALSE, path |-> <<>>, identity |-> <<>>]

\* One mount further down: exactly one entity, or none in a list of which the
\* last mount may begin one.
Descend(found, target, payload, leaf, allowMissing) ==
  IF ~found.ok \/ ~HasIdentity(target, payload, leaf) \/ target.mount \notin DOMAIN found.entity.in
  THEN [found EXCEPT !.ok = FALSE]
  ELSE LET identity == Identity(target, payload, leaf)
           keys == Selected(found.entity.in[target.mount], target, identity)
           At(key) == Append(found.path, [mount |-> target.mount, key |-> key])
       IN CASE Cardinality(keys) = 1 ->
                 LET key == CHOOSE k \in keys : TRUE
                 IN [found EXCEPT !.entity = @.in[target.mount][key], !.path = At(key)]
            [] keys = {} /\ allowMissing /\ leaf /\ target.kind = "list" /\ target.template # {} ->
                 [ok |-> TRUE, entity |-> CHOOSE e \in target.template : TRUE, isNew |-> TRUE, identity |-> identity,
                  path |-> At(Len(found.entity.in[target.mount]) + 1)]
            [] OTHER -> [found EXCEPT !.ok = FALSE]

ResolveEntityTarget(state, payload, chain, allowMissing) ==
  FoldLeft(LAMBDA found, i : Descend(found, chain[i], payload, i = Len(chain), allowMissing),
           Found(state), [i \in DOMAIN chain |-> i])

-----------------------------------------------------------------------------
(* Applying an event.                                                      *)

\* The entities on a path, from the root down.
Along(state, path) ==
  LET node[n \in 0 .. Len(path)] ==
        IF n = 0 THEN state ELSE node[n - 1].in[path[n].mount][path[n].key]
  IN node

Placed(container, key, entity) ==
  IF key \in DOMAIN container THEN [container EXCEPT ![key] = entity] ELSE Append(container, entity)

\* The state with what is at the end of a path replaced, or begun there.
ReplacePath(state, path, replacement) ==
  LET parents == Along(state, Front(path))
      from[n \in 1 .. Len(path) + 1] ==
        IF n > Len(path) THEN replacement
        ELSE [parents[n - 1] EXCEPT !.in[path[n].mount] = Placed(@, path[n].key, from[n + 1])]
  IN from[1]

\* A projector folds the event into the entity it is given.
Projected(entity, event) == [entity EXCEPT !.folded = Append(@, event.id)]

ApplyEntityEvent(state, event, found) ==
  LET initial == IF found.isNew THEN [found.entity EXCEPT !.own = found.identity] ELSE found.entity
  IN ReplacePath(state, found.path, Projected(initial, event))

\* A projector of the root takes an entity out of its list.
Dropped(state, event) ==
  LET target == TargetsByType[Drops[event.type]][1]
  IN [Projected(state, event) EXCEPT !.in[target.mount] =
        SelectSeq(@, LAMBDA e : ~Matches(e, Identity(target, event.payload, TRUE), target))]

EventApplied(state, event) ==
  LET found == ResolveEntityTarget(state, event.payload, TargetsByType[event.type], TRUE)
  IN IF event.type \in DOMAIN Drops THEN [ok |-> TRUE, state |-> Dropped(state, event)]
     ELSE IF ~found.ok THEN [ok |-> FALSE, state |-> state]
     ELSE [ok |-> TRUE, state |-> IF found.path = <<>> THEN Projected(state, event)
                                  ELSE ApplyEntityEvent(state, event, found)]

\* The events are applied in turn, up to the first one that cannot be.
ApplyEvents(events) ==
  FoldLeft(LAMBDA done, event :
             LET numbered == [event EXCEPT !.id = Len(done.journal) + 1]
                 after == EventApplied(done.state, numbered)
             IN IF ~done.ok \/ ~after.ok THEN [done EXCEPT !.ok = FALSE]
                ELSE [ok |-> TRUE, state |-> after.state, journal |-> Append(done.journal, numbered)],
           [ok |-> TRUE, state |-> entityRoot, journal |-> journal], events)

-----------------------------------------------------------------------------
\* Where a payload says an entity is, whatever the state.
Address(chain, payload) ==
  [i \in DOMAIN chain |->
     [mount |-> chain[i].mount,
      key |-> [f \in ToSet(chain[i].pk) |-> payload[PayloadField(chain[i], f, i = Len(chain))].of]]]

\* A command that names no entity, or several, is refused.
ProcessOnEntity(sent) ==
  LET chain == TargetsByType[sent.type]
      found == ResolveEntityTarget(entityRoot, sent.payload, chain, sent.type \in StaticTypes)
      after == ApplyEvents(EventsOf(sent))
  IN /\ found.ok
     /\ Len(journal) + Len(EventsOf(sent)) <= MaxApplied
     /\ entityRoot' = after.state /\ journal' = after.journal
     /\ decided' = [address |-> Address(chain, sent.payload), folded |-> found.entity.folded,
                    at |-> Len(journal)]

EntityNext == \E sent \in Sent : ProcessOnEntity(sent)

-----------------------------------------------------------------------------
\* The address an event is for: of an entity, or of one that it removes.
AddressOf(event) ==
  IF event.type \in DOMAIN Drops THEN Address(TargetsByType[Drops[event.type]], event.payload)
  ELSE Address(TargetsByType[event.type], event.payload)

Removes(event, address) == event.type \in DOMAIN Drops /\ IsPrefix(AddressOf(event), address)

\* What a flat log says of the entity at an address: the numbers of the events
\* for it since it, or one around it, was removed.
FoldedAt(log, address) ==
  LET since(i) == ~\E j \in i .. Len(log) : Removes(log[j], address)
      mine == SelectSeq([i \in DOMAIN log |-> i],
                        LAMBDA i : log[i].type \notin DOMAIN Drops /\ AddressOf(log[i]) = address /\ since(i))
  IN mine

\* The entities there are, by address, with their place in the state.
Entities ==
  LET own(entity, target) == [mount |-> target.mount, key |-> [f \in ToSet(target.pk) |-> entity.own[f].of]]
      chains == {TargetsByType[t] : t \in DOMAIN TargetsByType} \ {<<>>}
      inside(parent, target) ==
        {[at |-> Append(parent.at, own(c[k], target)), is |-> c[k]] :
           c \in {parent.is.in[target.mount]}, k \in DOMAIN parent.is.in[target.mount]}
  IN [chain \in chains |->
        FoldLeft(LAMBDA found, target : UNION {inside(e, target) : e \in found},
                 {[at |-> <<>>, is |-> entityRoot]}, chain)]

(* However entities are begun, removed and begun again, under keys spelt as   *)
(* numbers or as strings, beside others that share part of their composite    *)
(* key and inside each other: no two entities of a list have one key, every   *)
(* entity has folded exactly the events that name it since it was begun, in   *)
(* order, and a handler decides on that same entity or, for one that is not   *)
(* there, on the template (entityCommandTarget.ts:129-146,                    *)
(* materializeEntityEvent.ts:31-47).                                          *)
EventsLandOnTheirEntity ==
  /\ \A chain \in DOMAIN Entities :
       /\ \A e, f \in Entities[chain] : e.at = f.at => e = f
       /\ \A e \in Entities[chain] : e.is.folded = FoldedAt(journal, e.at)
  /\ \A i \in DOMAIN journal : LET address == AddressOf(journal[i]) IN
       journal[i].type \notin DOMAIN Drops /\ address # <<>> /\ FoldedAt(journal, address) # <<>> =>
         \E e \in Entities[TargetsByType[journal[i].type]] :
            e.at = address /\ e.is.folded = FoldedAt(journal, address)
  /\ decided.address # <<>> =>
       decided.folded = FoldedAt(SubSeq(journal, 1, decided.at), decided.address)
=============================================================================
