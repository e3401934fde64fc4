---------------------------- MODULE AggregateBuild ----------------------------
(***************************************************************************)
(* The builder of an aggregate: what is registered on it, on the aggregate  *)
(* it extends and on its mixins, and the entities mounted in it, one inside *)
(* the other, become at build() a table of command handlers and a table of  *)
(* event projectors by wire type, each with the chain of mounts it is for.  *)
(*                                                                         *)
(* A local name is the sequence of its camel-case words, so that a name     *)
(* mounted in another is their concatenation; a wire type is the sequence   *)
(* of its dotted segments, each a local name in snake case.  A definition   *)
(* map is a sequence in its order of keys.                                  *)
(***************************************************************************)
EXTENDS Naturals, Sequences, SequencesExt, FiniteSets, FiniteSetsExt, TLC

CONSTANTS
  Builders,
  AggregateName,    \* [Builders -> segment]
  BuilderCalls,     \* [Builders -> the calls its author may make]
  ParentsOf,        \* [Builders -> the builders it may extend]
  MaxBuilderCalls   \* bound of the calls

VARIABLES
  component,   \* [Builders -> what is registered]
  built,       \* the aggregate built last
  asked        \* history: [Builders -> the calls, in order]

buildVars == <<component, built, asked>>

NotBuilt == [calls |-> <<>>]
NoNames == <<>>
Empty == [events |-> <<>>, eventOverrides |-> NoNames, commandOverrides |-> NoNames,
          factories |-> <<>>, mixins |-> <<>>, packages |-> <<>>]

BuildInit ==
  /\ component = [b \in Builders |-> Empty]
  /\ built = NotBuilt
  /\ asked = [b \in Builders |-> <<>>]

-----------------------------------------------------------------------------
(* Definition maps.                                                        *)

Indices(map, key) == {i \in DOMAIN map : map[i].key = key}

Put(map, def) ==
  LET at == Indices(map, def.key)
  IN IF at = {} THEN Append(map, def) ELSE [map EXCEPT ![CHOOSE i \in at : TRUE] = def]

\* Events are kept in the order of their last assignment.
PutLast(map, def) == Append(SelectSeq(map, LAMBDA d : d.key # def.key), def)

PutAll(map, defs) == FoldLeft(Put, map, defs)
NameIn(names, key) == IF key \in DOMAIN names THEN names[key] ELSE <<>>

\* Command maps that would let two authored paths meet in one key are refused.
PutAuthored(commands, def) ==
  LET clash == \E i \in Indices(commands.defs, def.key) : commands.defs[i].path # def.path
  IN IF ~commands.ok \/ clash THEN [commands EXCEPT !.ok = FALSE]
     ELSE [commands EXCEPT !.defs = Put(@, def)]

-----------------------------------------------------------------------------
(* Mounting: an entity package holds what its own mounts were flattened to. *)

Verbatim == 0
Unnamed(key) == [member |-> key, segments |-> <<>>, override |-> <<>>, prefix |-> Verbatim]

\* Mutant of Renamed: the override of the innermost mount decides.
RenamedInnermost(name, segment, relative, full) ==
  LET kept == [name EXCEPT !.segments = <<segment>> \o @, !.prefix = IF @ = Verbatim THEN @ ELSE @ + 1]
  IN CASE name.override # <<>> -> kept
       [] name.override = <<>> /\ full # <<>> -> [kept EXCEPT !.override = full]
       [] name.override = <<>> /\ full = <<>> /\ relative # <<>> -> [kept EXCEPT !.override = relative, !.prefix = 1]
       [] OTHER -> kept

\* A full override stands as it is, a relative one behind the path to the
\* entity that declares it; either replaces those further in.
Renamed(name, segment, relative, full) ==
  LET kept == [name EXCEPT !.segments = <<segment>> \o @, !.prefix = IF @ = Verbatim THEN @ ELSE @ + 1]
  IN CASE full # <<>> -> [kept EXCEPT !.override = full, !.prefix = Verbatim]
       [] full = <<>> /\ relative # <<>> -> [kept EXCEPT !.override = relative, !.prefix = 1]
       [] OTHER -> kept

WireOf(name, aggregate) ==
  CASE name.override = <<>> -> <<aggregate>> \o name.segments \o <<name.member>>
    [] name.override # <<>> /\ name.prefix = Verbatim -> name.override
    [] OTHER -> <<aggregate>> \o SubSeq(name.segments, 1, name.prefix) \o name.override

Target(mount) == [mount |-> mount.at, kind |-> mount.kind, pk |-> mount.pk]

Mounted(mount, def, overrides, names) ==
  [def EXCEPT !.key = <<mount.at>> \o @,
              !.name = Renamed(@, mount.segment, NameIn(overrides, def.key), NameIn(names, def.key)),
              !.chain = <<Target(mount)>> \o @]

MountedEvent(mount, def) == Mounted(mount, def, mount.entity.eventOverrides, mount.eventNames)

\* The command's path keeps the authored names apart that its key runs together.
MountedCommand(mount, def) ==
  [Mounted(mount, def, mount.entity.commandOverrides, mount.commandNames)
     EXCEPT !.path = <<<<mount.at>>>> \o @, !.emits = <<mount.at>> \o @]

FlatEvents(own, mounts) ==
  FoldLeft(LAMBDA map, m : FoldLeft(LAMBDA inner, def : PutLast(inner, MountedEvent(m, def)), map, m.entity.events),
           own, mounts)

FlatCommands(own, mounts) ==
  FoldLeft(LAMBDA map, m : FoldLeft(LAMBDA inner, def : PutAuthored(inner, MountedCommand(m, def)), map, m.entity.commands),
           [defs |-> own, ok |-> TRUE], mounts)

\* A definition of its own; it emits a sibling event.
EventDef(by, key) == [key |-> key, owner |-> [by |-> by, key |-> key], name |-> Unnamed(key), chain |-> <<>>]
CommandDef(by, key, emits) ==
  [key |-> key, owner |-> [by |-> by, key |-> key], name |-> Unnamed(key), chain |-> <<>>,
   path |-> <<key>>, emits |-> emits, event |-> <<>>]

\* build() of an entity or a mixin.
Package(name, events, commands, eventOverrides, commandOverrides, mounts) ==
  [name |-> name, events |-> FlatEvents(events, mounts), commands |-> FlatCommands(commands, mounts).defs,
   eventOverrides |-> eventOverrides, commandOverrides |-> commandOverrides, mounts |-> mounts]

\* Two entities at one mount point are refused.
ConflictingMounts(mounts) ==
  \E i, j \in DOMAIN mounts : mounts[i].at = mounts[j].at /\ mounts[i].entity # mounts[j].entity

-----------------------------------------------------------------------------
(* build().                                                                *)

\* Root events first, then those that mixins bring scoped: the later claim wins.
ResolveEvents(c, aggregate) ==
  LET all == FoldLeft(LAMBDA map, m : FoldLeft(PutLast, map, m.events), c.events, c.mixins)
      names == FoldLeft(LAMBDA acc, m : m.eventOverrides @@ acc, c.eventOverrides, c.mixins)
      Declare(done, def) ==
        LET chosen == NameIn(names, def.key)
            wire == IF chosen # <<>> THEN chosen ELSE WireOf(def.name, aggregate)
        IN [overrides |-> (def.key :> wire) @@ done.overrides,
            dispatch |-> (wire :> [owner |-> def.owner, chain |-> def.chain]) @@ done.dispatch]
  IN [roots |-> {def.key : def \in {d \in ToSet(all) : d.chain = <<>>}},
      declared |-> FoldLeft(Declare, [overrides |-> names, dispatch |-> <<>>],
        SelectSeq(all, LAMBDA d : d.chain = <<>>) \o SelectSeq(all, LAMBDA d : d.chain # <<>>))]

\* One mount: its events claim their wires, a key no root event has falls back
\* on the last of them; its commands emit the wires of this very mount.
MountEntity(done, mount, roots, aggregate) ==
  LET events == [i \in DOMAIN mount.entity.events |-> MountedEvent(mount, mount.entity.events[i])]
      Claim(d, i) ==
        LET wire == WireOf(events[i].name, aggregate)
            key == mount.entity.events[i].key
        IN [d EXCEPT !.dispatch = (wire :> [owner |-> events[i].owner, chain |-> events[i].chain]) @@ @,
                     !.overrides = IF key \in roots THEN @ ELSE (key :> wire) @@ @]
      EventWire(key) ==
        LET at == Indices(mount.entity.events, key)
        IN IF at = {} THEN <<aggregate, key>> ELSE WireOf(events[CHOOSE i \in at : TRUE].name, aggregate)
      AddCommand(d, def) ==
        LET mapped == [MountedCommand(mount, def) EXCEPT !.event = EventWire(def.emits)]
            commands == PutAuthored(d.commands, mapped)
            explicit == NameIn(mount.commandNames, def.key) # <<>> \/ NameIn(mount.entity.commandOverrides, def.key) # <<>>
        IN [d EXCEPT !.commands = commands,
                     !.names = IF commands.ok /\ explicit THEN (mapped.key :> WireOf(mapped.name, aggregate)) @@ @ ELSE @]
  IN IF ~done.commands.ok THEN done
     ELSE FoldLeft(AddCommand, FoldLeft(Claim, done, [i \in DOMAIN events |-> i]), mount.entity.commands)

CommandsDefined(c) ==
  FoldLeft(LAMBDA map, m : FoldLeft(PutAuthored, map, m.commands),
           [defs |-> PutAll(<<>>, FlattenSeq(c.factories)), ok |-> TRUE], c.mixins)

MountEntities(c, aggregate) ==
  LET events == ResolveEvents(c, aggregate)
  IN FoldLeft(LAMBDA done, m : MountEntity(done, m, events.roots, aggregate),
       [dispatch |-> events.declared.dispatch, overrides |-> events.declared.overrides,
        commands |-> CommandsDefined(c),
        names |-> FoldLeft(LAMBDA acc, m : m.commandOverrides @@ acc, c.commandOverrides, c.mixins)],
       c.packages)

\* Every command has a wire; the last one that has it handles it.
CompileCommands(done, aggregate) ==
  LET defs == done.commands.defs
      Wire(def) ==
        LET chosen == NameIn(done.names, def.key)
        IN IF chosen # <<>> THEN chosen ELSE WireOf(def.name, aggregate)
      Emitted(def) ==
        IF def.event # <<>> THEN def.event
        ELSE LET chosen == NameIn(done.overrides, def.emits)
             IN IF chosen # <<>> THEN chosen ELSE <<aggregate, def.emits>>
  IN [i \in DOMAIN defs |-> [key |-> defs[i].key, owner |-> defs[i].owner, chain |-> defs[i].chain,
                             wire |-> Wire(defs[i]), event |-> Emitted(defs[i])]]

\* Without mixins the map of command names is the builder's own: what the
\* mounts add to it stays there.
BuildAggregate(b) ==
  LET c == component[b]
      conflict == ConflictingMounts(c.packages \o FlattenSeq([i \in DOMAIN c.mixins |-> c.mixins[i].mounts]))
      done == MountEntities(c, AggregateName[b])
  IN /\ component' = IF conflict \/ c.mixins # <<>> \/ ~CommandsDefined(c).ok THEN component
                     ELSE [component EXCEPT ![b].commandOverrides = done.names]
     /\ built' = IF conflict \/ ~done.commands.ok THEN built
                 ELSE [by |-> b, calls |-> asked[b], dispatch |-> done.dispatch,
                       commands |-> CompileCommands(done, AggregateName[b])]

-----------------------------------------------------------------------------
(* Registering.                                                            *)

\* What is registered later takes the place of what was.
Declare(b, call) ==
  LET c == component[b] IN
  component' = [component EXCEPT ![b] =
    CASE call.op = "events" -> [c EXCEPT !.events = PutAll(@, call.defs)]
      [] call.op = "commands" -> [c EXCEPT !.factories = Append(@, call.defs)]
      [] call.op = "overrideEventNames" -> [c EXCEPT !.eventOverrides = call.names @@ @]
      [] call.op = "overrideCommandNames" -> [c EXCEPT !.commandOverrides = call.names @@ @]
      [] call.op = "mount" -> [c EXCEPT !.packages = Append(@, call.mount)]
      [] call.op = "mixins" -> [c EXCEPT !.mixins = Append(@, call.mixin), !.packages = @ \o call.mixin.mounts]]

\* The parent as it is now comes before what is registered already, but its
\* mounts come behind.
Inherit(b, parent) ==
  LET c == component[b]
      p == component[parent]
  IN component' = [component EXCEPT ![b] =
       [events |-> PutAll(p.events, c.events),
        eventOverrides |-> c.eventOverrides @@ p.eventOverrides,
        commandOverrides |-> c.commandOverrides @@ p.commandOverrides,
        factories |-> p.factories \o c.factories,
        mixins |-> p.mixins \o c.mixins,
        packages |-> c.packages \o p.packages]]

\* History: a call is made once, and an aggregate extends one that extends none.
Asks(b, call) ==
  /\ MapThenSumSet(LAMBDA c : Len(asked[c]), Builders) < MaxBuilderCalls
  /\ call \notin ToSet(asked[b])
  /\ asked' = [asked EXCEPT ![b] = Append(@, call)]
  /\ UNCHANGED built

Extend(b, parent) ==
  /\ \A i \in DOMAIN asked[b] : asked[b][i].op # "extends"
  /\ asked[parent] # <<>>
  /\ Asks(b, [op |-> "extends", calls |-> asked[parent]])
  /\ Inherit(b, parent)

BuildNext == \E b \in Builders :
  \/ \E call \in BuilderCalls[b] : Asks(b, call) /\ Declare(b, call)
  \/ \E parent \in ParentsOf[b] : Extend(b, parent)
  \/ asked[b] # <<>> /\ BuildAggregate(b) /\ UNCHANGED asked

-----------------------------------------------------------------------------
(* What the calls ask for.                                                 *)

\* What a parent was asked for counts before the calls of its heir.
Effective(calls) ==
  FlattenSeq([i \in DOMAIN calls |-> IF calls[i].op = "extends" THEN calls[i].calls ELSE <<>>])
    \o SelectSeq(calls, LAMBDA c : c.op # "extends")

MountsOf(calls) ==
  LET Of(c) == CASE c.op = "mount" -> <<c.mount>> [] c.op = "mixins" -> c.mixin.mounts [] OTHER -> <<>>
      In(cs) == FlattenSeq([i \in DOMAIN cs |-> Of(cs[i])])
  IN FlattenSeq([i \in DOMAIN calls |->
       IF calls[i].op = "extends" THEN In(calls[i].calls) ELSE Of(calls[i])])

\* The mixins asked for, whose definitions count after those of the builders.
MixedIn(calls) ==
  LET cs == Effective(calls)
  IN {cs[i].mixin : i \in {i \in DOMAIN cs : cs[i].op = "mixins"}}

\* Who defines a key of the root itself: a mixin, or the latest call.
OwnDefs(calls, op, Defs(_)) ==
  LET cs == SelectSeq(Effective(calls), LAMBDA c : c.op = op)
      mixed == UNION {ToSet(SelectSeq(Defs(m), LAMBDA d : d.chain = <<>>)) : m \in MixedIn(calls)}
      said(key) == {i \in DOMAIN cs : Indices(cs[i].defs, key) # {}}
      keys == UNION {{d.key : d \in ToSet(cs[i].defs)} : i \in DOMAIN cs}
  IN mixed \cup {CHOOSE d \in ToSet(cs[Max(said(key))].defs) : d.key = key :
                   key \in keys \ {d.key : d \in mixed}}

NameAsked(calls, op, key, Names(_)) ==
  LET cs == SelectSeq(Effective(calls), LAMBDA c : c.op = op /\ key \in DOMAIN c.names)
      mixed == {m \in MixedIn(calls) : key \in DOMAIN Names(m)}
  IN IF mixed # {} THEN Names(CHOOSE m \in mixed : TRUE)[key]
     ELSE IF cs = <<>> THEN <<>> ELSE Last(cs).names[key]

\* The ways down from a mount to an entity, and the key at level k of what
\* the entity at the end of one calls by that key.
PathsFrom(mount) == {<<mount>>} \cup {<<mount, inner>> : inner \in ToSet(mount.entity.mounts)}
KeyFrom(path, k, key) == [j \in 1 .. Len(path) - k |-> path[k + j].at] \o key

\* The outermost level that names a member decides, and there a full name
\* before a relative one.
WireAsked(aggregate, path, key, Full(_), Relative(_)) ==
  LET full(k) == NameIn(Full(path[k]), KeyFrom(path, k, key))
      relative(k) == NameIn(Relative(path[k].entity), KeyFrom(path, k, key))
      naming == {k \in DOMAIN path : full(k) # <<>> \/ relative(k) # <<>>}
      segments(k) == [j \in 1 .. k |-> path[j].segment]
  IN IF naming = {} THEN <<aggregate>> \o segments(Len(path)) \o <<key>>
     ELSE LET k == Min(naming)
          IN IF full(k) # <<>> THEN full(k) ELSE <<aggregate>> \o segments(k) \o relative(k)

OwnOf(defs) == {d \in ToSet(defs) : d.chain = <<>>}
ChainOf(path) == [j \in DOMAIN path |-> Target(path[j])]

EventNames(mount) == mount.eventNames
EventOverrides(package) == package.eventOverrides
EventWireAsked(aggregate, path, key) == WireAsked(aggregate, path, key, EventNames, EventOverrides)

\* The events a way leads to claim their wires, with a rank: the root's first,
\* then those a mixin scoped, then the mounts in their order.
Claims(calls, aggregate) ==
  LET mounts == MountsOf(calls)
      Named(key, wire) ==
        LET name == NameAsked(calls, "overrideEventNames", key, EventOverrides)
        IN IF name # <<>> THEN name ELSE wire
      Of(path, rank, renamed) ==
        {[key |-> KeyFrom(path, 1, d.key), rank |-> rank, owner |-> d.owner, chain |-> ChainOf(path),
          wire |-> LET wire == EventWireAsked(aggregate, path, d.key)
                   IN IF renamed THEN Named(KeyFrom(path, 0, d.key), wire) ELSE wire] :
           d \in OwnOf(path[Len(path)].entity.events)}
      All(mount, rank, renamed) == UNION {Of(path, rank, renamed) : path \in PathsFrom(mount)}
  IN {[key |-> d.key, rank |-> 0, owner |-> d.owner, chain |-> <<>>, wire |-> Named(d.key, <<aggregate, d.key>>)] :
        d \in OwnDefs(calls, "events", LAMBDA package : package.events)}
     \cup UNION {All(mount, 1, TRUE) : mount \in UNION {ToSet(m.mounts) : m \in MixedIn(calls)}}
     \cup UNION {All(mounts[i], i + 1, FALSE) : i \in DOMAIN mounts}

\* What a command of the root emits: an event of the root before one of the
\* last mount that has one of that name.
RootEmits(calls, aggregate, key, claims) ==
  LET name == NameAsked(calls, "overrideEventNames", key, EventOverrides)
      mounted == {c \in claims : c.key = key /\ c.rank > 1}
  IN CASE mounted # {} /\ ~\E c \in claims : c.key = key /\ c.rank = 0 ->
            (CHOOSE c \in mounted : \A d \in mounted : d.rank <= c.rank).wire
       [] name # <<>> -> name
       [] OTHER -> <<aggregate, key>>

\* A mounted command is named by the last mount at its point that names it,
\* or else by the aggregate, and emits the event of its own mount.
CommandsAsked(calls, aggregate, claims) ==
  LET mounts == MountsOf(calls)
      Names(mount) == mount.commandNames
      Relative(package) == package.commandOverrides
      Named(key, wire) ==
        LET name == NameAsked(calls, "overrideCommandNames", key, Relative)
        IN IF name # <<>> THEN name ELSE wire
      lasts == {i \in DOMAIN mounts : \A j \in DOMAIN mounts : mounts[j].at = mounts[i].at => j <= i}
      Naming(mount, key) ==
        {i \in DOMAIN mounts : mounts[i].at = mount.at /\
           (key \in DOMAIN mounts[i].commandNames \/ key \in DOMAIN mounts[i].entity.commandOverrides)}
      Wire(path, key) ==
        LET naming == Naming(path[1], KeyFrom(path, 1, key))
            Derived(way) == WireAsked(aggregate, way, key, Names, Relative)
        IN IF naming # {} THEN Derived([path EXCEPT ![1] = mounts[Max(naming)]])
           ELSE Named(KeyFrom(path, 0, key), Derived(path))
      Of(path) ==
        {[key |-> KeyFrom(path, 0, d.key), owner |-> d.owner, chain |-> ChainOf(path),
          wire |-> Wire(path, d.key), event |-> EventWireAsked(aggregate, path, d.emits)] :
           d \in OwnOf(path[Len(path)].entity.commands)}
  IN {[key |-> d.key, owner |-> d.owner, chain |-> <<>>, wire |-> Named(d.key, <<aggregate, d.key>>),
       event |-> RootEmits(calls, aggregate, d.emits, claims)] :
        d \in OwnDefs(calls, "commands", LAMBDA package : package.commands)}
     \cup UNION {UNION {Of(path) : path \in PathsFrom(mounts[i])} : i \in lasts}

\* An aggregate is what the calls before its build() ask for, those on its
\* parent before extends() included and no other: every member has the wire
\* that the outermost level naming it gives it (a mount's full name before an
\* entity's relative one), however many entities lie in between; an event goes
\* to the last registration that claims its wire, on that registration's own
\* chain of mounts; and a command emits the event of its own mount
\* (packages/aggregate/README.md:123-152, buildAggregate).
BuiltAsDeclared == built # NotBuilt =>
  LET aggregate == AggregateName[built.by]
      claims == Claims(built.calls, aggregate)
  IN /\ DOMAIN built.dispatch = {c.wire : c \in claims}
     /\ \A wire \in DOMAIN built.dispatch : \E c \in claims :
          /\ c.wire = wire /\ built.dispatch[wire] = [owner |-> c.owner, chain |-> c.chain]
          /\ \A d \in claims : d.wire = wire => d.rank <= c.rank
     /\ ToSet(built.commands) = CommandsAsked(built.calls, aggregate, claims)
=============================================================================
