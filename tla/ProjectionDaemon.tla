-------------------------- MODULE ProjectionDaemon --------------------------
(***************************************************************************)
(* The polling daemon of packages/projection-runtime-core: it folds a log  *)
(* of events into documents batch by batch, catches up from the event      *)
(* store, cuts over to a live subscription and survives being stopped      *)
(* anywhere (ProjectionDaemon.ts, EventStoreCatchUpSubscription.ts), and   *)
(* the one transaction a batch ends in, for the in-memory store            *)
(* (InMemoryProjectionStore.commitAtomic) and for the Mongo store          *)
(* (persistCommitAtomicLinkAndDedupeOps.ts).                               *)
(*                                                                         *)
(* The daemon is the only writer of its documents, links, dedupe keys and  *)
(* cursor, so what a batch reads along its awaits does not change under    *)
(* it, and the batch is one function of the state at its commit.           *)
(*                                                                         *)
(* An event is known by its sequence, the position in the log.  A          *)
(* document's content is the sequence of the events folded into it.        *)
(***************************************************************************)
EXTENDS Integers, Sequences, SequencesExt, FiniteSets

CONSTANTS
  Docs,       \* target documents
  Links,      \* aggregates of a joined stream, which documents subscribe to
  NoDoc, NoLink,
  Events,     \* the events that may be appended
  StoreKind,  \* "memory" or "mongo"
  BatchSize,
  MaxLog      \* bound: length of the log

\* `to`: the documents `identity` names for an event of the projected stream,
\* in its order.  `via`: the aggregate of a joined event.  The handler stages
\* `op` on `link` for the document it runs on.
Event == [to : Seq(Docs), via : Links \cup {NoLink},
          op : {"none", "subscribe", "unsubscribe"}, link : Links \cup {NoLink}]

ASSUME DaemonAssumption ==
  /\ NoDoc \notin Docs /\ NoLink \notin Links
  /\ Events \subseteq Event
  /\ \A e \in Events : /\ e.to = <<>> <=> e.via \in Links
                       /\ e.op = "none" <=> e.link = NoLink
                       /\ IsInjective(e.to)
  /\ StoreKind \in {"memory", "mongo"}
  /\ BatchSize \in Nat \ {0} /\ MaxLog \in Nat

VARIABLES
  log,     \* the events appended so far, by all streams
  doc,     \* content of the documents
  link,    \* the document subscribed to each aggregate
  dedupe,  \* events with a durable dedupe key
  cursor,  \* the last event processed
  mode,    \* the durable runtime mode
  daemon   \* the running batch: pc, the events polled, the mode to persist

store == <<doc, link, dedupe, cursor, mode>>
vars == <<log, store, daemon>>

Modes == {"catching_up", "ready_to_cutover", "live"}
Off == [pc |-> "off", batch |-> <<>>, next |-> "live"]
Idle == [Off EXCEPT !.pc = "idle"]
NoTargets == [l \in Links |-> NoDoc]
Joined(e) == e.via \in Links

Init ==
  /\ log = <<>>
  /\ doc = [d \in Docs |-> <<>>]
  /\ link = NoTargets
  /\ dedupe = {} /\ cursor = 0
  /\ mode \in {"catching_up", "live"}   \* "live": a daemon with a single subscription
  /\ daemon = Off

-----------------------------------------------------------------------------
(* One batch.  What it stages: contents, links to remove and to add, and   *)
(* the events it has folded.                                               *)

Unstaged == [content |-> doc, adds |-> NoTargets, removes |-> NoTargets, fresh |-> {}]

\* A joined event goes to the document whose subscription is staged, else to
\* the durable one, unless a removal is staged.
Targets(s, e) ==
  IF ~Joined(e) THEN e.to
  ELSE LET found == CASE s.adds[e.via] # NoDoc -> s.adds[e.via]
                      [] s.adds[e.via] = NoDoc /\ s.removes[e.via] # NoDoc -> NoDoc
                      [] OTHER -> link[e.via]
       IN IF found = NoDoc THEN <<>> ELSE <<found>>

StageUnsubscribe(s, l, d) ==
  [s EXCEPT !.adds[l] = NoDoc, !.removes[l] = d]

\* A relink removes the present holder and adds the new one.
StageSubscribe(s, l, d) ==
  LET holder == IF s.adds[l] # NoDoc THEN s.adds[l] ELSE link[l]
  IN CASE s.removes[l] # NoDoc -> [s EXCEPT !.adds[l] = d]
       [] s.removes[l] = NoDoc /\ holder = d -> s
       [] s.removes[l] = NoDoc /\ holder = NoDoc -> [s EXCEPT !.adds[l] = d]
       [] OTHER -> [s EXCEPT !.removes[l] = holder, !.adds[l] = d]

Stage(s, e, d) ==
  CASE e.op = "subscribe" -> StageSubscribe(s, e.link, d)
    [] e.op = "unsubscribe" -> StageUnsubscribe(s, e.link, d)
    [] OTHER -> s

\* Mutant: only what this batch has folded is skipped.
FoldEventAgain(s, n) ==
  LET e == log[n]
      FoldInto(t, d) == Stage([t EXCEPT !.content[d] = Append(@, n)], e, d)
  IN IF n \in s.fresh \/ Targets(s, e) = <<>> THEN s
     ELSE [FoldLeft(FoldInto, s, Targets(s, e)) EXCEPT !.fresh = @ \cup {n}]

\* Folding one event: skipped when already folded, by this batch or durably,
\* and passed over while it has no target.
FoldEvent(s, n) ==
  LET e == log[n]
      FoldInto(t, d) == Stage([t EXCEPT !.content[d] = Append(@, n)], e, d)
  IN IF n \in s.fresh \cup dedupe \/ Targets(s, e) = <<>> THEN s
     ELSE [FoldLeft(FoldInto, s, Targets(s, e)) EXCEPT !.fresh = @ \cup {n}]

\* Passes over the batch until one makes no progress: a subscription staged
\* late in the batch lets an earlier joined event in.
FoldBatch(batch) ==
  LET Pass(s, i) == FoldLeft(FoldEvent, s, batch)
  IN FoldLeft(Pass, Unstaged, [i \in 1 .. Len(batch) + 1 |-> i])

\* The in-memory store removes a link only from the holder named, and adds it
\* only where there is none.
MemoryLinks(s) ==
  LET Left(l) == IF s.removes[l] = link[l] THEN NoDoc ELSE link[l]
  IN [l \in Links |-> IF Left(l) = NoDoc THEN s.adds[l] ELSE Left(l)]

\* The Mongo store inserts, for removals and for additions alike, the link
\* that is absent ($setOnInsert): a staged removal never removes one.
MongoLinks(s) ==
  LET First(d, other) == IF d # NoDoc THEN d ELSE other
  IN [l \in Links |-> First(link[l], First(s.removes[l], s.adds[l]))]

-----------------------------------------------------------------------------
(* The daemon's loop.                                                      *)

Appended(e) ==
  /\ Len(log) < MaxLog
  /\ log' = Append(log, e)
  /\ UNCHANGED <<store, daemon>>

Start ==
  /\ daemon.pc = "off"
  /\ daemon' = Idle
  /\ UNCHANGED <<log, store>>

\* A stop between batches, a failed call, which ends the loop, or the end of
\* the process.
Stops ==
  /\ daemon.pc # "off"
  /\ daemon' = Off
  /\ UNCHANGED <<log, store>>

Polled(batch) ==
  /\ daemon' = [daemon EXCEPT !.pc = "commit", !.batch = batch]
  /\ UNCHANGED <<log, store>>

ToPersist(next) ==
  /\ daemon' = [daemon EXCEPT !.pc = "persist", !.next = next]
  /\ UNCHANGED <<log, store>>

Window(first, last) == [i \in 1 .. last - first + 1 |-> first + i - 1]

\* Events after the cursor, in order, as many as the batch holds.
PollCatchUp ==
  /\ daemon.pc = "idle" /\ mode = "catching_up"
  /\ LET last == IF Len(log) < cursor + BatchSize THEN Len(log) ELSE cursor + BatchSize
     IN IF last = cursor THEN ToPersist("ready_to_cutover")
                         ELSE Polled(Window(cursor + 1, last))

PollReady ==
  /\ daemon.pc = "idle" /\ mode = "ready_to_cutover"
  /\ ToPersist("live")

\* The live subscription serves what follows the cursor, and may overlap what
\* came before it and deliver an event twice.
PollLive ==
  /\ daemon.pc = "idle" /\ mode = "live"
  /\ \E first \in 1 .. cursor + 1 : \E last \in first .. Len(log) :
       /\ last - first < BatchSize
       /\ \/ Polled(Window(first, last))
          \/ Polled(<<first>> \o Window(first, last))

\* The mode and the cursor it was decided at, in one transaction.
PersistMode ==
  /\ daemon.pc = "persist"
  /\ mode' = daemon.next
  /\ daemon' = Idle
  /\ UNCHANGED <<log, doc, link, dedupe, cursor>>

\* Documents, links, cursor and dedupe keys, in one transaction.
Commit ==
  /\ daemon.pc = "commit"
  /\ LET s == FoldBatch(daemon.batch)
     IN /\ doc' = s.content
        /\ link' = IF StoreKind = "memory" THEN MemoryLinks(s) ELSE MongoLinks(s)
        /\ dedupe' = dedupe \cup s.fresh
  /\ cursor' = Last(daemon.batch)
  /\ daemon' = Idle
  /\ UNCHANGED <<log, mode>>

Next ==
  \/ \E e \in Events : Appended(e)
  \/ Start \/ Stops
  \/ PollCatchUp \/ PollReady \/ PollLive
  \/ PersistMode \/ Commit

Spec == Init /\ [][Next]_vars

-----------------------------------------------------------------------------
(* The reference: the log folded one event at a time, every subscription   *)
(* in force as soon as its handler has run.                                *)

Held(r, e) == IF ~Joined(e) THEN e.to
              ELSE IF r.link[e.via] = NoDoc THEN <<>> ELSE <<r.link[e.via]>>

OneByOne(n) ==
  LET Into(r, m) ==
        LET Apply(t, d) ==
              [content |-> [t.content EXCEPT ![d] = Append(@, m)],
               link |-> CASE log[m].op = "subscribe" -> [t.link EXCEPT ![log[m].link] = d]
                          [] log[m].op = "unsubscribe" /\ t.link[log[m].link] = d ->
                               [t.link EXCEPT ![log[m].link] = NoDoc]
                          [] OTHER -> t.link]
        IN FoldLeft(Apply, r, Held(r, log[m]))
  IN FoldLeft(Into, [content |-> [d \in Docs |-> <<>>], link |-> NoTargets],
              [i \in 1 .. n |-> i])

\* Logs a batch may cut anywhere: every joined event finds a holder, only the
\* holder unsubscribes, and no aggregate another document took over is
\* unsubscribed from.
Orderly ==
  \A n \in 1 .. Len(log) :
    LET r == OneByOne(n - 1) e == log[n]
    IN /\ Joined(e) => r.link[e.via] # NoDoc
       /\ e.op = "unsubscribe" =>
            /\ \A i \in DOMAIN Held(r, e) : Held(r, e)[i] = r.link[e.link]
            /\ \A m \in 1 .. n - 1 : log[m].op = "subscribe" /\ log[m].link = e.link =>
                 ToSet(Held(OneByOne(m - 1), log[m])) = {r.link[e.link]}

-----------------------------------------------------------------------------
(* Properties.                                                             *)

\* The documents and the dedupe keys, against the log.
FoldedOnce ==
  /\ \A d \in Docs :
       /\ IsInjective(doc[d])
       /\ \A i, j \in DOMAIN doc[d] :
            i < j /\ ~Joined(log[doc[d][i]]) /\ ~Joined(log[doc[d][j]]) => doc[d][i] < doc[d][j]
  /\ dedupe = UNION {ToSet(doc[d]) : d \in Docs}
  /\ \A n \in dedupe : \A i \in DOMAIN log[n].to : n \in ToSet(doc[log[n].to[i]])
  /\ \A n \in 1 .. cursor : ~Joined(log[n]) => n \in dedupe

\* An orderly log, against folding it one event at a time.
SequentialFold ==
  Orderly => LET r == OneByOne(Cardinality(dedupe))
             IN doc = r.content /\ link = r.link

\* Across overlap, redelivery, cutover and restarts, no event is folded twice
\* into a document, events of the projected stream are folded in the order of
\* the log, and an event has a dedupe key exactly when it has been folded into
\* all its documents.  Nothing is skipped: in every mode, also across the
\* cutover, every event of the projected stream up to the cursor is folded.
\* And however the log was cut into batches, interrupted and redelivered, an
\* orderly log leaves the documents and subscriptions that folding its events
\* one at a time leaves.
FoldsFollowTheLog == FoldedOnce /\ SequentialFold

\* "If no subscription exists, .join() events are ignored": a joined event is
\* folded into a document only if the document subscribed to its aggregate
\* before, or in the same batch, and has not unsubscribed since.
NoGhosts ==
  \A d \in Docs : \A i \in DOMAIN doc[d] :
    LET e == log[doc[d][i]]
        Ops(k) == log[doc[d][k]].op # "none" /\ log[doc[d][k]].link = e.via
    IN Joined(e) => \E k \in 1 .. i - 1 :
                      /\ Ops(k) /\ log[doc[d][k]].op = "subscribe"
                      /\ \A j \in k + 1 .. i - 1 : ~Ops(j)
=============================================================================
