------------------------------ MODULE WorkerCore ------------------------------
(***************************************************************************)
(* The projection worker core: commits are pushed alone or grouped by their *)
(* projection, run in the lanes of their targets, and read the state of a   *)
(* target through an LRU cache; and the adapter that replays a feed through *)
(* it.  The processor is the host's: it loads every target, folds, sets the *)
(* new state and commits all of them to its store, on the condition that    *)
(* they are what it has read.                                               *)
(***************************************************************************)
EXTENDS Naturals, Sequences, SequencesExt, FiniteSets

CONSTANTS
  ReplayFeed,       \* the feed: a sequence of events, with repetitions
  TargetsOf,        \* [event -> its targets, none for the fallback lane]
  BatchModeOf,      \* [event -> "none" or "all"; "single" is "none" with the
                    \*  other processor]
  ReplayTargets, ReplayPolls,
  ReplayBatch,      \* the size of a poll
  CacheEntries,     \* maxEntries of the cache
  MaxForeign,       \* bound of writes by others
  MaxWorkerFaults   \* bound of failed calls of the store

VARIABLES
  documents,    \* [ReplayTargets -> events folded into the stored document]
  stateCache,   \* the entries in the order they expire: [target, value]
  runs,         \* the runs in the order they entered their lanes
  poll,         \* [ReplayPolls -> the call of pollAndPush()]
  replay,       \* the adapter: [cursor, seen]
  foreign, workerFaults,
  stale,        \* history: targets whose cached value may differ legally
  straight      \* history: no poll overlapped another, and none rejected

workerVars == <<documents, stateCache, runs, poll, replay, foreign, workerFaults, stale, straight>>

ReplayEvents == ToSet(ReplayFeed)

ASSUME WorkerAssumption ==
  /\ ReplayFeed \in Seq(Nat \ {0})
  /\ IsFiniteSet(ReplayTargets)
  /\ TargetsOf \in [ReplayEvents -> SUBSET ReplayTargets]
  /\ BatchModeOf \in [ReplayEvents -> {"none", "all"}]
  /\ ReplayBatch \in Nat /\ CacheEntries \in Nat
  /\ MaxForeign \in Nat /\ MaxWorkerFaults \in Nat

NewPoll == [phase |-> "new", start |-> 0, next |-> 0, events |-> <<>>]

WorkerInit ==
  /\ documents = [t \in ReplayTargets |-> <<>>]
  /\ stateCache = <<>> /\ runs = <<>>
  /\ poll = [p \in ReplayPolls |-> NewPoll]
  /\ replay = [cursor |-> 0, seen |-> {}]
  /\ foreign = 0 /\ workerFaults = 0 /\ stale = {} /\ straight = TRUE

\* The elements of a sequence that are in a set, in their order.
Among(seq, set) == FoldLeft(LAMBDA found, x : IF x \in set THEN Append(found, x) ELSE found, <<>>, seq)

-----------------------------------------------------------------------------
\* The cache: get() and set() move an entry to the end, and the first ones
\* are dropped beyond the capacity.
Without(cache, targets) == Among(cache, {entry \in ToSet(cache) : entry.target \notin targets})
Put(cache, t, value) ==
  LET entries == Append(Without(cache, {t}), [target |-> t, value |-> value])
  IN SubSeq(entries, 1 + (IF Len(entries) > CacheEntries THEN Len(entries) - CacheEntries ELSE 0),
            Len(entries))
Cached(cache, t) == Among(cache, {entry \in ToSet(cache) : entry.target = t})

\* An entry has outlived its time.
CacheExpires ==
  /\ stateCache # <<>>
  /\ stateCache' = Tail(stateCache)
  /\ UNCHANGED <<documents, runs, poll, replay, foreign, workerFaults, stale, straight>>

-----------------------------------------------------------------------------
\* The runs of one call: every commit alone, and then the groups, one for
\* the commits in batch mode "all".
RunsFor(p, events) ==
  LET alone == Among(events, {e \in ReplayEvents : BatchModeOf[e] = "none"})
      group == Among(events, {e \in ReplayEvents : BatchModeOf[e] = "all"})
      Run(es) == [poll |-> p, events |-> es, phase |-> "queued",
                  held |-> [t \in ReplayTargets |-> <<>>], decision |-> "none"]
  IN [i \in DOMAIN alone |-> Run(<<alone[i]>>)] \o (IF group = <<>> THEN <<>> ELSE <<Run(group)>>)

TargetsIn(r) == UNION {TargetsOf[e] : e \in ToSet(r.events)}

\* A commit without targets runs in the lane of its source.
ShareLane(r, s) ==
  \/ TargetsIn(r) \cap TargetsIn(s) # {}
  \/ \E e \in ToSet(r.events) \cap ToSet(s.events) : TargetsOf[e] = {}

\* A run waits for every earlier one it shares a lane with (FifoLanes).
MyTurn(i) == \A j \in 1..(i - 1) : runs[j].phase # "settled" => ~ShareLane(runs[j], runs[i])

Folds(r, t) == Among(r.events, {e \in ReplayEvents : t \in TargetsOf[e]})

\* Every target is read, from the cache or by the loader, folded and set.
LoadStates(i) ==
  LET r == runs[i]
      Read(acc, t) ==
        LET found == Cached(acc.cache, t)
            value == IF found # <<>> THEN Head(found).value ELSE documents[t]
        IN [cache |-> Put(acc.cache, t, value \o Folds(r, t)),
            held |-> [acc.held EXCEPT ![t] = value]]
      after == FoldLeft(Read, [cache |-> stateCache, held |-> r.held], SetToSeq(TargetsIn(r)))
  IN /\ r.phase = "queued" /\ MyTurn(i)
     /\ stateCache' = after.cache
     /\ runs' = [runs EXCEPT ![i].phase = "storing", ![i].held = after.held]
     /\ UNCHANGED <<documents, poll, replay, foreign, workerFaults, stale, straight>>

RunSettles(i, decision) == runs' = [runs EXCEPT ![i].phase = "settled", ![i].decision = decision]
StoreAnswers(i) == runs[i].phase = "storing" /\ UNCHANGED <<poll, replay, foreign>>
Matches(i) == \A t \in TargetsIn(runs[i]) : documents[t] = runs[i].held[t]
StoreFails == workerFaults < MaxWorkerFaults /\ workerFaults' = workerFaults + 1

Committed(i) ==
  /\ StoreAnswers(i) /\ Matches(i) /\ RunSettles(i, "ack")
  /\ documents' = [t \in ReplayTargets |->
       IF t \in TargetsIn(runs[i]) THEN runs[i].held[t] \o Folds(runs[i], t) ELSE documents[t]]
  /\ stale' = stale \ TargetsIn(runs[i])
  /\ UNCHANGED <<stateCache, workerFaults, straight>>

\* Mutant of Evicted: of a batch, only the first commit's targets.
EvictedFirst(r) == Without(stateCache, TargetsOf[Head(r.events)])

\* The targets of the failed commits, all of the batch's.
Evicted(r) == Without(stateCache, TargetsIn(r))

\* A conflict or a transient failure: the targets are read again next time.
RetryableFailure(i) ==
  /\ StoreAnswers(i) /\ RunSettles(i, "nack")
  /\ \/ ~Matches(i) /\ UNCHANGED workerFaults
     \/ StoreFails
  /\ stateCache' = Evicted(runs[i]) /\ stale' = stale \ TargetsIn(runs[i])
  /\ UNCHANGED <<documents, straight>>

\* A terminal failure evicts nothing.
TerminalFailure(i) ==
  /\ StoreAnswers(i) /\ RunSettles(i, "nack") /\ StoreFails
  /\ stale' = stale \cup TargetsIn(runs[i])
  /\ UNCHANGED <<documents, stateCache, straight>>

\* What cannot be classified rejects the run, and with it the whole call; the
\* other runs of the call go on.
RunThrows(i) ==
  /\ StoreAnswers(i) /\ RunSettles(i, "thrown") /\ StoreFails
  /\ stale' = stale \cup TargetsIn(runs[i]) /\ straight' = FALSE
  /\ UNCHANGED <<documents, stateCache>>

\* Someone else writes a target.
ForeignWrite(t) ==
  /\ foreign < MaxForeign /\ foreign' = foreign + 1
  /\ documents' = [documents EXCEPT ![t] = Append(@, 0)]
  /\ stale' = stale \cup {t}
  /\ UNCHANGED <<stateCache, runs, poll, replay, workerFaults, straight>>

-----------------------------------------------------------------------------
\* pollAndPush() reads the cursor and awaits the poll.
PollBegins(p) ==
  /\ poll[p].phase = "new"
  /\ poll' = [poll EXCEPT ![p] = [NewPoll EXCEPT !.phase = "polling", !.start = replay.cursor]]
  /\ straight' = (straight /\ \A q \in ReplayPolls : poll[q].phase \in {"new", "done"})
  /\ UNCHANGED <<documents, stateCache, runs, replay, foreign, workerFaults, stale>>

\* The events that are neither known as acknowledged nor met before.
Fresh(events) ==
  LET IsFirst(i) == events[i] \notin replay.seen /\ \A j \in 1..(i - 1) : events[j] # events[i]
      firsts == Among([i \in DOMAIN events |-> i], {i \in DOMAIN events : IsFirst(i)})
  IN [k \in DOMAIN firsts |-> events[firsts[k]]]

PollReturns(p, count) ==
  LET start == poll[p].start
      events == Fresh(SubSeq(ReplayFeed, start + 1, start + count))
  IN /\ poll[p].phase = "polling" /\ start + count <= Len(ReplayFeed)
     /\ poll' = [poll EXCEPT ![p] = [@ EXCEPT !.phase = "pushing", !.next = start + count,
                                       !.events = events]]
     /\ runs' = runs \o RunsFor(p, events)
     /\ UNCHANGED <<documents, stateCache, replay, foreign, workerFaults, stale, straight>>

RunsOf(p) == {i \in DOMAIN runs : runs[i].poll = p}
Acked(p) == UNION {ToSet(runs[i].events) : i \in {j \in RunsOf(p) : runs[j].decision = "ack"}}

\* One commit that is not acknowledged keeps the cursor where it is.
CursorAfter(p) == IF \A i \in RunsOf(p) : runs[i].decision = "ack" THEN poll[p].next ELSE replay.cursor

PollSettles(p) ==
  /\ poll[p].phase = "pushing"
  /\ \A i \in RunsOf(p) : runs[i].phase = "settled" /\ runs[i].decision # "thrown"
  /\ replay' = [cursor |-> CursorAfter(p), seen |-> replay.seen \cup Acked(p)]
  /\ poll' = [poll EXCEPT ![p].phase = "done"]
  /\ UNCHANGED <<documents, stateCache, runs, foreign, workerFaults, stale, straight>>

PollRejects(p) ==
  /\ poll[p].phase = "pushing" /\ \E i \in RunsOf(p) : runs[i].decision = "thrown"
  /\ poll' = [poll EXCEPT ![p].phase = "done"]
  /\ UNCHANGED <<documents, stateCache, runs, replay, foreign, workerFaults, stale, straight>>

WorkerNext ==
  \/ CacheExpires
  \/ \E t \in ReplayTargets : ForeignWrite(t)
  \/ \E i \in DOMAIN runs :
       \/ LoadStates(i) \/ Committed(i) \/ RetryableFailure(i) \/ TerminalFailure(i) \/ RunThrows(i)
  \/ \E p \in ReplayPolls :
       \/ PollBegins(p) \/ PollSettles(p) \/ PollRejects(p)
       \/ \E count \in 0..ReplayBatch : PollReturns(p, count)

WorkerSpec == WorkerInit /\ [][WorkerNext]_workerVars

-----------------------------------------------------------------------------
\* The cursor and the documents, against the feed.
ReplayCursorIsBacked ==
  /\ \A e \in ToSet(SubSeq(ReplayFeed, 1, replay.cursor)) : \A t \in TargetsOf[e] : e \in ToSet(documents[t])
  /\ straight => \A t \in ReplayTargets : \A i, j \in DOMAIN documents[t] :
       documents[t][i] = documents[t][j] /\ i # j => documents[t][i] = 0

\* The cache outside of a run, against the documents.
CacheFollowsTheStore ==
  \A i \in DOMAIN stateCache :
    LET t == stateCache[i].target
    IN \/ t \in stale
       \/ \E j \in DOMAIN runs : runs[j].phase = "storing" /\ t \in TargetsIn(runs[j])
       \/ stateCache[i].value = documents[t]

(* Whatever part of a batch fails and however polls overlap, the replay's    *)
(* cursor never passes an event that is not folded into all of its targets;  *)
(* and while polls take turns and none rejects, no event is folded twice,    *)
(* although those a poll has already acknowledged are polled again.          *)
(* "Retryable failures evict affected cache and requeue"                     *)
(* (docs/architecture/projection-runtime-vnext-runbook.md:68): outside of a  *)
(* run, what the cache holds for a target is its document, unless someone    *)
(* else has written it or its last failure was not a retryable one.          *)
CursorAndCacheAreBacked == ReplayCursorIsBacked /\ CacheFollowsTheStore
=============================================================================
