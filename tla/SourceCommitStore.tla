-------------------------- MODULE SourceCommitStore --------------------------
(***************************************************************************)
(* How one commit is folded into one projection definition: the executor   *)
(* of packages/projection-worker-core (projectionDefinitionExecutor.ts,    *)
(* projectionCommitReducer.ts, projectionCommitRouting.ts) against the     *)
(* optimistic store of projection-runtime-store-inmemory and -mongodb.     *)
(*                                                                         *)
(* An execution reads a snapshot piece by piece while other executions     *)
(* write, reduces the commit against it, and commits all documents, links  *)
(* and progress in one transaction that compares every revision it is      *)
(* about to replace.  Executions of one worker take the target lanes of    *)
(* LaneScheduler, used here through what FifoLanes promises; executions of *)
(* different workers meet only in the store.                               *)
(*                                                                         *)
(* A worker runs one execution per source (the coordinator's source lane), *)
(* so <<w, s>> names it.  Commits of a source are numbered from 1, and 0   *)
(* stands for `null`.  A document's content is the sequence of the events  *)
(* folded into it, each written <<source, commit, event>>.                 *)
(***************************************************************************)
EXTENDS Integers, Sequences, SequencesExt, FiniteSets, TLC

CONSTANTS
  Workers, Sources,
  Docs,               \* target documents, natural numbers in sorted order
  Links,              \* aggregates other documents may subscribe to
  NoLink, NoDoc,
  Log,                \* Log[s]: the commits of the source, each a Seq(Event)
  Strategy,           \* deduplication strategy of the definition
  StableSingleTarget, \* in-document cutover: no fan-out, no link mutation
  MaxConflictRetries,
  FaultKinds,         \* which of "call", "reply", "unknown", "crash" happen
  MaxFaults           \* bound of their number

\* `to` names the documents of an event of the projected aggregate; `via` the
\* aggregate of a joined event, routed by a link alone.  The handler stages `op`
\* on `link` for the document it runs on.
Event ==
  {e \in [to : SUBSET Docs, via : Links \cup {NoLink},
          op : {"none", "subscribe", "unsubscribe"}, link : Links \cup {NoLink}] :
     (e.via # NoLink => e.to = {}) /\ (e.op # "none" => e.link \in Links)}

ASSUME StoreAssumption ==
  /\ Docs \subseteq Nat /\ IsFiniteSet(Docs) /\ NoDoc \notin Docs /\ NoLink \notin Links
  /\ Log \in [Sources -> Seq(Seq(Event))]
  /\ Strategy \in {"own_record", "in_document"}
  /\ StableSingleTarget \in BOOLEAN
  /\ FaultKinds \subseteq {"call", "reply", "unknown", "crash"}
  /\ MaxConflictRetries \in Nat /\ MaxFaults \in Nat

VARIABLES
  doc,      \* documents: revision, content and in-document progress
  link,     \* links: target document and revision
  own,      \* own-record progress of each source
  done,     \* commits of each source some worker knows to be folded
  task,     \* the execution of each worker for each source
  queue,    \* queue[w]: executions holding or awaiting target lanes, oldest first
  writer,   \* history: the worker that last wrote the document
  faults

store == <<doc, link, own, writer>>
vars == <<store, done, task, queue, faults>>

Commits(s) == 1 .. Len(Log[s])
Nothing == <<>>
Idle == [pc |-> "idle", c |-> 0, targets |-> {}, links |-> {}, docs |-> Nothing,
         lks |-> Nothing, own |-> 0, plan |-> Nothing, attempt |-> 0, conflicts |-> 0]

Init ==
  /\ doc = [t \in Docs |-> [rev |-> 0, content |-> <<>>, marker |-> [s \in Sources |-> 0]]]
  /\ link = [l \in Links |-> [target |-> NoDoc, rev |-> 0]]
  /\ own = [s \in Sources |-> 0]
  /\ done = [s \in Sources |-> 0]
  /\ task = [w \in Workers |-> [s \in Sources |-> Idle]]
  /\ queue = [w \in Workers |-> <<>>]
  /\ writer = [t \in Docs |-> NoDoc]
  /\ faults = 0

-----------------------------------------------------------------------------
(* Reduction of a commit against a snapshot of documents and links.        *)

\* A snapshot with the entry put.
With(map, k, v) == [x \in DOMAIN map \cup {k} |-> IF x = k THEN v ELSE map[x]]

\* The documents in sorted order.
InOrder(docs) == CHOOSE q \in [1 .. Cardinality(docs) -> docs] :
                   \A i, j \in 1 .. Cardinality(docs) : i < j => q[i] < q[j]

\* The documents an event goes to, as far as the links are known.
RouteEvent(e, lks) ==
  IF e.via = NoLink THEN e.to
  ELSE IF e.via \in DOMAIN lks THEN {lks[e.via].target} \ {NoDoc} ELSE {}

RoutingLinks(commit) == {commit[i].via : i \in DOMAIN commit} \ {NoLink}

ProvisionalTargets(commit, lks) ==
  UNION {RouteEvent(commit[i], lks) : i \in DOMAIN commit}

\* canApplyToTarget, on the progress marker of the snapshot.
CanApply(s, c, docs, t) ==
  Strategy = "in_document" /\ t \in DOMAIN docs => c > docs[t].marker[s]

\* A handler running on document t (un)subscribes it to the event's link.
StageLink(red, e, t) ==
  IF e.op = "none" THEN red
  ELSE LET target == IF e.op = "subscribe" THEN t ELSE NoDoc IN
       IF e.link \notin DOMAIN red.links
       THEN [red EXCEPT !.missingLinks = @ \cup {e.link},
                        !.links = With(@, e.link, [target |-> target, rev |-> 0])]
       ELSE [red EXCEPT !.staged = With(@, e.link, [target |-> target,
                                                    rev |-> red.links[e.link].rev]),
                        !.links[e.link].target = target]

ApplyHandler(red, e, id, t) ==
  StageLink([red EXCEPT !.touched = @ \cup {t}, !.content[t] = Append(@, id)], e, t)

\* One event of the commit, in each of its documents.
ApplyEvent(red, e, id, docs) ==
  LET targets == {t \in RouteEvent(e, red.links) : CanApply(id[1], id[2], docs, t)}
      known == targets \cap DOMAIN docs
  IN  FoldLeft(LAMBDA r, t : ApplyHandler(r, e, id, t),
               [red EXCEPT !.missingDocs = @ \cup (targets \ known)],
               InOrder(known))

Reduce(s, c, docs, lks) ==
  FoldLeftDomain(
    LAMBDA red, i : ApplyEvent(red, Log[s][c][i], <<s, c, i>>, docs),
    [content |-> [t \in DOMAIN docs |-> docs[t].content], links |-> lks,
     staged |-> Nothing, touched |-> {},
     missingDocs |-> {}, missingLinks |-> {}],
    Log[s][c])

\* Mutant of NeedsSnapshot: documents that were not read are passed over.
NeedsSnapshotOfLinks(red) == red.missingLinks # {}

NeedsSnapshot(red) == red.missingDocs # {} \/ red.missingLinks # {}

\* Mutant of Deduplicated: the own record is not consulted again.
DeduplicatedAtFirst(s, c, red, ownSeen) ==
  Strategy = "in_document" /\ red.touched = {} /\ ProvisionalTargets(Log[s][c], red.links) # {}

\* The progress says that the commit has nothing left to fold.
Deduplicated(s, c, red, ownSeen) ==
  IF Strategy = "own_record" THEN c <= ownSeen
  ELSE red.touched = {} /\ ProvisionalTargets(Log[s][c], red.links) # {}

Forbidden(red) ==
  /\ StableSingleTarget
  /\ DOMAIN red.staged # {} \/ \E t, u \in red.touched : t # u

-----------------------------------------------------------------------------
(* The executor.                                                           *)

SetTask(w, s, x) == task' = [task EXCEPT ![w][s] = x]

Fault(kind) == kind \in FaultKinds /\ faults < MaxFaults /\ faults' = faults + 1

\* The lanes of the execution are released.
Release(w, s) == queue' = [queue EXCEPT ![w] = RemoveFirst(@, s)]

\* The coordinator dispatches a commit whose predecessors it knows folded.
Begin(w, s, c) ==
  /\ task[w][s].pc = "idle"
  /\ c <= done[s] + 1
  /\ SetTask(w, s, [Idle EXCEPT !.pc = "initial", !.c = c,
                                !.links = RoutingLinks(Log[s][c])])
  /\ UNCHANGED <<store, done, queue, faults>>

ReadLink(w, s) ==
  LET x == task[w][s] IN
  /\ x.pc \in {"initial", "load"}
  /\ \E l \in x.links \ DOMAIN x.lks :
       SetTask(w, s, [x EXCEPT !.lks = With(@, l, link[l])])
  /\ UNCHANGED <<store, done, queue, faults>>

ReadDoc(w, s) ==
  LET x == task[w][s] IN
  /\ x.pc = "load"
  /\ \E t \in x.targets \ DOMAIN x.docs :
       SetTask(w, s, [x EXCEPT !.docs = With(@, t, doc[t])])
  /\ UNCHANGED <<store, done, queue, faults>>

AllRead(x) == DOMAIN x.lks = x.links /\ (x.pc = "load" => DOMAIN x.docs = x.targets)

\* Mutant of Resolve: only the execution whose transaction it was reports it.
ResolveOwnWrite(w, s) ==
  LET x == task[w][s] IN
  /\ SetTask(w, s, Idle)
  /\ done' = [done EXCEPT ![s] = IF x.plan # Nothing /\ x.c = @ + 1 THEN x.c ELSE @]

\* The execution reports the commit as folded.
Resolve(w, s) ==
  LET c == task[w][s].c IN
  /\ SetTask(w, s, Idle)
  /\ done' = [done EXCEPT ![s] = IF c = @ + 1 THEN c ELSE @]

\* The initial snapshot is complete, its own record read last; unless the
\* commit is already in it, the target lanes are reserved at once.
FinishInitial(w, s) ==
  LET x == task[w][s] IN
  /\ x.pc = "initial" /\ AllRead(x)
  /\ \/ /\ Strategy = "own_record" /\ x.c <= own[s]
        /\ Resolve(w, s)
        /\ UNCHANGED queue
     \/ /\ Strategy = "own_record" => x.c > own[s]
        /\ SetTask(w, s, [x EXCEPT !.pc = "waiting", !.attempt = 1, !.lks = Nothing,
                            !.targets = ProvisionalTargets(Log[s][x.c], x.lks)])
        /\ queue' = [queue EXCEPT ![w] = Append(@, s)]
        /\ UNCHANGED done
  /\ UNCHANGED <<store, faults>>

\* The next attempt of executeProjectionDefinition reserves its lanes.
Reserve(w, s) ==
  /\ task[w][s].pc = "reserve"
  /\ SetTask(w, s, [task[w][s] EXCEPT !.pc = "waiting"])
  /\ queue' = [queue EXCEPT ![w] = Append(@, s)]
  /\ UNCHANGED <<store, done, faults>>

\* Mutant of Older: a target lane does not wait for its holder.
OlderNone(w, s) == {}

\* The executions of the worker that came to the lanes first.
Older(w, s) ==
  {queue[w][i] : i \in {i \in DOMAIN queue[w] :
     \A j \in 1 .. i : queue[w][j] # s}}

Start(w, s) ==
  LET x == task[w][s] IN
  /\ x.pc = "waiting"
  /\ \A o \in Older(w, s) : task[w][o].targets \cap x.targets = {}
  /\ SetTask(w, s, [x EXCEPT !.pc = "load"])
  /\ UNCHANGED <<store, done, queue, faults>>

MaxAttempts(commit) == MaxConflictRetries + 2 * Len(commit) + 2

\* The attempt ends without an outcome; there is another one if the loop has
\* one left.
TryAgain(w, s, x) ==
  /\ SetTask(w, s, IF x.attempt < MaxAttempts(Log[s][x.c])
                   THEN [x EXCEPT !.pc = "reserve", !.attempt = @ + 1, !.docs = Nothing,
                                  !.lks = Nothing, !.own = 0, !.plan = Nothing]
                   ELSE Idle)
  /\ Release(w, s)

\* The snapshot under the lanes is complete, its own record read last, and
\* reduced in the same step.
FinishLoad(w, s) ==
  LET x == task[w][s]
      red == Reduce(s, x.c, x.docs, x.lks)
  IN
  /\ x.pc = "load" /\ AllRead(x)
  /\ \/ /\ Deduplicated(s, x.c, red, own[s])
        /\ ~NeedsSnapshot(red) \/ Strategy = "own_record"
        /\ Resolve(w, s)
        /\ Release(w, s)
     \/ /\ Strategy = "own_record" => x.c > own[s]
        /\ NeedsSnapshot(red)
        /\ TryAgain(w, s, [x EXCEPT !.targets = @ \cup red.missingDocs,
                                    !.links = @ \cup red.missingLinks])
        /\ UNCHANGED done
     \/ /\ ~Deduplicated(s, x.c, red, own[s]) /\ ~NeedsSnapshot(red)
        /\ IF Forbidden(red)
           THEN SetTask(w, s, Idle) /\ Release(w, s)
           ELSE SetTask(w, s, [x EXCEPT !.pc = "commit", !.own = own[s], !.plan = red])
                /\ UNCHANGED queue
        /\ UNCHANGED done
  /\ UNCHANGED <<store, faults>>

-----------------------------------------------------------------------------
(* The store's transaction.                                                *)

Plan(w, s) == task[w][s].plan

DocsCurrent(w, s) ==
  \A t \in Plan(w, s).touched : doc[t].rev = task[w][s].docs[t].rev

LinksCurrent(w, s) ==
  \A l \in DOMAIN Plan(w, s).staged : link[l].rev = Plan(w, s).staged[l].rev

ProgressCurrent(w, s) ==
  IF Strategy = "own_record" THEN own[s] = task[w][s].own
  ELSE \A t \in Plan(w, s).touched : doc[t].marker = task[w][s].docs[t].marker

Valid(w, s) == DocsCurrent(w, s) /\ LinksCurrent(w, s) /\ ProgressCurrent(w, s)

\* Documents, links and progress replaced together.
Write(w, s) ==
  LET x == task[w][s]
      plan == Plan(w, s)
  IN
  /\ doc' = [t \in Docs |->
       IF t \notin plan.touched THEN doc[t]
       ELSE [rev |-> x.docs[t].rev + 1, content |-> plan.content[t],
             marker |-> IF Strategy = "in_document"
                        THEN [x.docs[t].marker EXCEPT ![s] = x.c]
                        ELSE doc[t].marker]]
  /\ link' = [l \in Links |->
       IF l \notin DOMAIN plan.staged THEN link[l]
       ELSE [target |-> plan.staged[l].target, rev |-> plan.staged[l].rev + 1]]
  /\ own' = IF Strategy = "own_record" THEN [own EXCEPT ![s] = x.c] ELSE own
  /\ writer' = [t \in Docs |-> IF t \in plan.touched THEN w ELSE writer[t]]

Commit(w, s) ==
  /\ task[w][s].pc = "commit" /\ Valid(w, s)
  /\ Write(w, s)
  /\ Resolve(w, s)
  /\ Release(w, s)
  /\ UNCHANGED faults

\* A revision or the progress has moved: the attempt is a conflict.
Conflict(w, s) ==
  LET x == task[w][s] IN
  /\ x.pc = "commit" /\ ~Valid(w, s)
  /\ IF x.conflicts < MaxConflictRetries
     THEN TryAgain(w, s, [x EXCEPT !.conflicts = @ + 1])
     ELSE SetTask(w, s, Idle) /\ Release(w, s)
  /\ UNCHANGED <<store, done, faults>>

\* A read or the transaction fails: the outcome is `ambiguous`.
CallFails(w, s) ==
  /\ task[w][s].pc \in {"initial", "load", "commit", "reconcile"}
  /\ Fault("call")
  /\ SetTask(w, s, Idle)
  /\ Release(w, s)
  /\ UNCHANGED <<store, done>>

\* The transaction commits and its reply is lost: also `ambiguous`.
ReplyLost(w, s) ==
  /\ task[w][s].pc = "commit" /\ Valid(w, s)
  /\ Fault("reply")
  /\ Write(w, s)
  /\ SetTask(w, s, Idle)
  /\ Release(w, s)
  /\ UNCHANGED done

\* The driver does not know whether the transaction has committed: the store
\* reads what it meant to write, piece by piece.
OutcomeUnknown(w, s) ==
  LET x == task[w][s] IN
  /\ x.pc = "commit" /\ Valid(w, s)
  /\ Fault("unknown")
  /\ Write(w, s) \/ UNCHANGED store
  /\ SetTask(w, s, [x EXCEPT !.pc = "reconcile", !.targets = x.plan.touched, !.links = DOMAIN x.plan.staged])
  /\ UNCHANGED <<done, queue>>

\* Mutant of DocWritten: only the revision is compared.
RevisionWritten(w, s, t) == doc[t].rev = task[w][s].docs[t].rev + 1

\* The document has the revision and the marker the transaction gives it.
DocWritten(w, s, t) ==
  LET x == task[w][s] IN
  /\ doc[t].rev = x.docs[t].rev + 1
  /\ Strategy = "in_document" => doc[t].marker = [x.docs[t].marker EXCEPT ![s] = x.c]

LinkWritten(w, s, l) == link[l].rev = Plan(w, s).staged[l].rev + 1

\* All that has been read matches, the own record last: the commit is folded.
ReconcileRow(w, s) ==
  LET x == task[w][s] IN
  /\ x.pc = "reconcile"
  /\ \/ \E t \in x.targets : DocWritten(w, s, t) /\ SetTask(w, s, [x EXCEPT !.targets = @ \ {t}])
     \/ \E l \in x.links : LinkWritten(w, s, l) /\ SetTask(w, s, [x EXCEPT !.links = @ \ {l}])
  /\ UNCHANGED <<store, done, queue, faults>>

Reconciled(w, s) ==
  LET x == task[w][s] IN
  /\ x.pc = "reconcile" /\ x.targets = {} /\ x.links = {}
  /\ Strategy = "own_record" => own[s] = x.c
  /\ Resolve(w, s)
  /\ Release(w, s)
  /\ UNCHANGED <<store, faults>>

\* Something does not match: the outcome stays `ambiguous`.
NotReconciled(w, s) ==
  LET x == task[w][s] IN
  /\ x.pc = "reconcile"
  /\ \/ \E t \in x.targets : ~DocWritten(w, s, t)
     \/ \E l \in x.links : ~LinkWritten(w, s, l)
     \/ Strategy = "own_record" /\ x.targets = {} /\ x.links = {} /\ own[s] # x.c
  /\ SetTask(w, s, Idle)
  /\ Release(w, s)
  /\ UNCHANGED <<store, done, faults>>

Crash(w) ==
  /\ Fault("crash")
  /\ \E s \in Sources : task[w][s].pc # "idle"
  /\ task' = [task EXCEPT ![w] = [s \in Sources |-> Idle]]
  /\ queue' = [queue EXCEPT ![w] = <<>>]
  /\ UNCHANGED <<store, done>>

ExecutorStep(w, s) ==
  \/ ReadLink(w, s) \/ ReadDoc(w, s)
  \/ FinishInitial(w, s) \/ Reserve(w, s) \/ Start(w, s) \/ FinishLoad(w, s)
  \/ Commit(w, s) \/ Conflict(w, s)
  \/ ReconcileRow(w, s) \/ Reconciled(w, s) \/ NotReconciled(w, s)

Next ==
  \/ \E w \in Workers, s \in Sources :
       \/ \E c \in Commits(s) : Begin(w, s, c)
       \/ ExecutorStep(w, s)
       \/ CallFails(w, s) \/ ReplyLost(w, s) \/ OutcomeUnknown(w, s)
  \/ \E w \in Workers : Crash(w)

Spec == Init /\ [][Next]_vars

\* Every awaited call returns, and the source keeps offering the first commit
\* not known to be folded (the tail poller of the coordinator).
FairSpec == Spec /\ \A w \in Workers, s \in Sources :
  /\ WF_vars(ExecutorStep(w, s))
  /\ SF_vars(\E c \in Commits(s) : c = done[s] + 1 /\ Begin(w, s, c))

-----------------------------------------------------------------------------
Earlier(a, b) == a[2] < b[2] \/ (a[2] = b[2] /\ a[3] < b[3])

(* However executions of two workers interleave their reads, retries and    *)
(* transactions, and whichever replies are lost or reconciled, a document    *)
(* holds every event of a source at most once and in the order of the       *)
(* source's log, and none of a commit that has been reported as folded is   *)
(* missing (projectionDefinitionExecutor.ts:148-183).                       *)
FoldedOnceInOrder ==
  \A s \in Sources, t \in Docs :
    /\ \A i, j \in DOMAIN doc[t].content :
         i < j /\ doc[t].content[i][1] = s /\ doc[t].content[j][1] = s
         => Earlier(doc[t].content[i], doc[t].content[j])
    /\ \A c \in 1 .. done[s] : \A i \in DOMAIN Log[s][c] :
         t \in Log[s][c][i].to => Contains(doc[t].content, <<s, c, i>>)

LinksStand(w, s) ==
  \A l \in DOMAIN task[w][s].lks : link[l] = task[w][s].lks[l]

(* The transaction the store is about to accept is the one an execution     *)
(* reading everything at this instant would ask for, although the snapshot  *)
(* was read piece by piece (sourceCommitV2.ts:45-92): the revisions it      *)
(* compares are enough, as long as the links that routed the commit are     *)
(* where they were.  This is what lets the coordinator's model take a       *)
(* dispatch for one step.                                                   *)
AtomicFold ==
  \A w \in Workers, s \in Sources :
    LET now == Reduce(s, task[w][s].c, doc, link)
        plan == Plan(w, s)
    IN  task[w][s].pc = "commit" /\ Valid(w, s) /\ LinksStand(w, s) =>
          /\ now.touched = plan.touched
          /\ now.staged = plan.staged
          /\ \A t \in plan.touched : now.content[t] = plan.content[t]

OwnTargets(commit) == UNION {commit[i].to : i \in DOMAIN commit}

(* Conflict retries are left for real conflicts: a document that moved       *)
(* under an execution was written by another worker, as the target lanes     *)
(* keep executions of one process apart.  Every other attempt after the      *)
(* first has taught the execution a document or a link, and maxAttempts       *)
(* leaves room for them unless links that are moved meanwhile send it to      *)
(* more documents than the commit has events                                 *)
(* (projectionDefinitionExecutor.ts:125-126, 169-182).                       *)
RetriesAreForConflicts ==
  \A w \in Workers, s \in Sources :
    LET x == task[w][s]
        commit == Log[s][x.c]
        sent == Cardinality(x.targets \ OwnTargets(commit))
    IN
    /\ x.pc = "commit" =>
         \A t \in Plan(w, s).touched : doc[t].rev # x.docs[t].rev => writer[t] # w
    /\ x.pc \in {"reserve", "load", "commit"} =>
         x.attempt <= 1 + x.conflicts + sent + Cardinality(x.links \ RoutingLinks(commit))
    /\ x.pc = "load" /\ x.attempt = MaxAttempts(commit) /\ AllRead(x)
         /\ NeedsSnapshot(Reduce(s, x.c, x.docs, x.lks)) => sent > Len(commit)

(* Two workers that conflict do not keep each other from folding the log,   *)
(* and what has come to be reported as folded is, once and in order, however  *)
(* the outcomes that were lost or unknown have been settled                   *)
(* (projectionDefinitionExecutor.ts:169-182, MongoProjectionStore.ts:167-196).*)
EventuallyFolded ==
  \A s \in Sources : <>[](done[s] = Len(Log[s]) /\ FoldedOnceInOrder)
=============================================================================
