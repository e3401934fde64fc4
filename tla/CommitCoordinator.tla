-------------------------- MODULE CommitCoordinator --------------------------
(***************************************************************************)
(* The source-commit coordinator of packages/projection-worker-core: any   *)
(* number of worker processes share one durable store and one durable      *)
(* coverage row per source, and each of them feeds commits of the sources, *)
(* pushed by a broker (process) or read from the source's indexed tail     *)
(* (processPolled), into the registered projection definitions.            *)
(*                                                                         *)
(* A worker runs at most one task per source: process() and                *)
(* processPolled() take the lane of the commit's stream                    *)
(* (sourceLanes.run([commit.streamId], ...)).  A task is therefore keyed   *)
(* by its worker and its source, and every `await` of the code is a        *)
(* boundary between two actions here.  Folding one commit into one         *)
(* definition (executeProjectionDefinition) is a single step of this       *)
(* module; SourceCommitStore models what happens inside that step.         *)
(*                                                                         *)
(* What a document contains is abstracted to how often it folded each      *)
(* commit of each source.                                                  *)
(***************************************************************************)
EXTENDS Integers

CONSTANTS
  Workers,      \* worker processes, each with its own in-memory lanes
  Sources,      \* source streams (canonical UUIDs in the code)
  Targets,      \* projection documents
  NumDefs,      \* number of registered definitions, dispatched in order
  Strategy,     \* deduplication strategy of each definition
  Route,        \* Route[d][s][c]: documents commit c of source s is routed to
  StartAnchor,  \* first sequence after the accepted baseline, per source
  Poison,       \* <<d, s, c>>: the handler of d throws on commit c of s
  MaxGapCommits,\* maxGapPages * maxCommits: commits one gap read may recover
  MaxSeq,       \* bound: highest commit sequence a source reaches
  MaxFaults     \* bound: injected I/O failures, lost replies and crashes

Defs == 1 .. NumDefs
Seqs == 0 .. MaxSeq
Strategies == {"own_record", "in_document", "none"}

ASSUME ConstantsAssumption ==
  /\ NumDefs \in Nat \ {0} /\ MaxSeq \in Nat /\ MaxFaults \in Nat
  /\ MaxGapCommits \in Nat \ {0}
  /\ Strategy \in [Defs -> Strategies]
  /\ Route \in [Defs -> [Sources -> [Seqs -> SUBSET Targets]]]
  /\ StartAnchor \in [Sources -> Nat]
  /\ Poison \subseteq Defs \X Sources \X Seqs

\* Bound: a document counts the folds of one commit no further than this.
ManyFolds == 2

\* A missing sequence (`null`); every comparison of the code reads it as -1.
Null == -1

VARIABLES
  tail,       \* tail[s]: number of commits in the source's log
  coverage,   \* durable coverage row of each source
  ownRecord,  \* durable own-record progress of a definition for a source
  marker,     \* durable in-document progress marker of a document
  folds,      \* folds[d][t][s][c]: how often document t folded the commit
  task,       \* the task each worker runs in each source's lane
  acked,      \* commits whose process() resolved to `completed`
  faults      \* faults injected so far

durable == <<coverage, ownRecord, marker, folds>>
vars == <<tail, durable, task, acked, faults>>

PCs == {"idle", "admit", "gap", "dispatch", "advance", "cas",
        "reconcile"}
IdleTask == [pc |-> "idle", n |-> 0, poll |-> FALSE, at |-> 0,
             expected |-> Null, def |-> 1]

Tasks == [pc : PCs, n : Seqs, poll : BOOLEAN, at : Seqs,
          expected : Seqs \cup {Null}, def : Defs]

TypeOK ==
  /\ tail \in [Sources -> 0 .. MaxSeq + 1]
  /\ coverage \in [Sources -> Seqs \cup {Null}]
  /\ ownRecord \in [Defs -> [Sources -> Seqs \cup {Null}]]
  /\ marker \in [Defs -> [Targets -> [Sources -> Seqs \cup {Null}]]]
  /\ folds \in [Defs -> [Targets -> [Sources -> [Seqs -> 0 .. ManyFolds]]]]
  /\ task \in [Workers -> [Sources -> Tasks]]
  /\ acked \in [Sources -> SUBSET Seqs]
  /\ faults \in 0 .. MaxFaults

Init ==
  /\ tail = [s \in Sources |-> 0]
  /\ coverage = [s \in Sources |-> Null]
  /\ ownRecord = [d \in Defs |-> [s \in Sources |-> Null]]
  /\ marker = [d \in Defs |-> [t \in Targets |-> [s \in Sources |-> Null]]]
  /\ folds = [d \in Defs |-> [t \in Targets |->
                [s \in Sources |-> [c \in Seqs |-> 0]]]]
  /\ task = [w \in Workers |-> [s \in Sources |-> IdleTask]]
  /\ acked = [s \in Sources |-> {}]
  /\ faults = 0

-----------------------------------------------------------------------------
SetTask(w, s, t) == task' = [task EXCEPT ![w][s] = t]

Fault == faults < MaxFaults /\ faults' = faults + 1

\* The last sequence the coordinator takes as settled for the source.
After(s) == IF coverage[s] = Null THEN StartAnchor[s] - 1 ELSE coverage[s]

\* A commit at or below the accepted baseline.
IsHistory(s, c) == c < StartAnchor[s]

\* The source system appends a commit to its own log.
AppendCommit(s) ==
  /\ tail[s] <= MaxSeq
  /\ tail' = [tail EXCEPT ![s] = @ + 1]
  /\ UNCHANGED <<durable, task, acked, faults>>

\* A worker takes up a commit: a notification (in any order, any number of
\* times) or, with poll, an entry of the source's indexed tail.
Receive(w, s, n, poll) ==
  /\ task[w][s].pc = "idle"
  /\ n < tail[s]
  /\ SetTask(w, s, [IdleTask EXCEPT !.pc = "admit", !.n = n, !.poll = poll,
                                    !.at = n])
  /\ UNCHANGED <<tail, durable, acked, faults>>

\* process() resolves to `completed`.
Complete(w, s) ==
  /\ SetTask(w, s, IdleTask)
  /\ acked' = [acked EXCEPT ![s] = @ \cup {task[w][s].n}]

\* Where admission sends the commit: history below the anchor is dispatched
\* without ordering, a polled commit already covered is complete, the next
\* commit or a repeated one is dispatched alone, and a commit further ahead
\* needs the gap before it.
AdmittedTask(t, s) ==
  LET pc == IF ~IsHistory(s, t.n) /\ t.n > After(s) + 1 THEN "gap" ELSE "dispatch"
      at == IF pc = "gap" THEN After(s) + 1 ELSE t.n
  IN  [t EXCEPT !.pc = pc, !.at = at, !.expected = coverage[s]]

\* admitForDispatch resolves with the coverage it read.
Admit(w, s) ==
  LET t == task[w][s] IN
  /\ t.pc = "admit"
  /\ IF ~IsHistory(s, t.n) /\ t.poll /\ t.n <= After(s)
     THEN Complete(w, s)
     ELSE SetTask(w, s, AdmittedTask(t, s)) /\ UNCHANGED acked
  /\ UNCHANGED <<tail, durable, faults>>

\* The complete commits between the coverage and the commit are read page by
\* page from the append-only log, at most MaxGapCommits of them.
ReadGap(w, s) ==
  LET t == task[w][s] IN
  /\ t.pc = "gap"
  /\ SetTask(w, s, IF t.n - t.at <= MaxGapCommits
                   THEN [t EXCEPT !.pc = "dispatch"] ELSE IdleTask)
  /\ UNCHANGED <<tail, durable, acked, faults>>

-----------------------------------------------------------------------------
\* Mutant of Applicable: the own-record progress is not consulted.
ApplicableWithoutOwnRecord(d, s, c) ==
  IF Strategy[d] = "in_document"
  THEN {t \in Route[d][s][c] : c > marker[d][t][s]}
  ELSE Route[d][s][c]

\* canApplyToTarget and the own-record test of reduceProjectionSourceCommit:
\* the documents the commit still has to be folded into.
Applicable(d, s, c) ==
  CASE Strategy[d] = "own_record"  -> IF c <= ownRecord[d][s] THEN {}
                                      ELSE Route[d][s][c]
    [] Strategy[d] = "in_document" -> {t \in Route[d][s][c] : c > marker[d][t][s]}
    [] Strategy[d] = "none"        -> Route[d][s][c]

\* More than one document.
Several(docs) == \E t, u \in docs : t # u

\* A commit the definition can never fold: its handler throws, or it would
\* fan out although in-document progress allows one document per commit.
Terminal(d, s, c) ==
  \/ <<d, s, c>> \in Poison
  \/ Strategy[d] = "in_document" /\ Several(Applicable(d, s, c))

Bump(k) == IF k < ManyFolds THEN k + 1 ELSE k

\* commitProjectionSourceCommit in mode atomic-all: documents and progress
\* change together or not at all.
ApplyCommit(d, s, c) ==
  LET docs == Applicable(d, s, c) IN
  /\ folds' = [folds EXCEPT ![d] =
       [t \in Targets |-> IF t \in docs THEN [folds[d][t] EXCEPT ![s][c] = Bump(@)]
                          ELSE folds[d][t]]]
  /\ ownRecord' = IF Strategy[d] = "own_record" /\ c > ownRecord[d][s]
                  THEN [ownRecord EXCEPT ![d][s] = c] ELSE ownRecord
  /\ marker' = IF Strategy[d] = "in_document"
               THEN [marker EXCEPT ![d] =
                      [t \in Targets |-> IF t \in docs THEN [marker[d][t] EXCEPT ![s] = c]
                                         ELSE marker[d][t]]]
               ELSE marker
  /\ UNCHANGED coverage

\* The candidate is done: the task completes with the commit it was called
\* for, or goes on to the next commit of the recovered gap.
MoveOn(w, s, covered) ==
  LET t == task[w][s] IN
  IF t.at = t.n
  THEN Complete(w, s)
  ELSE /\ SetTask(w, s, [t EXCEPT !.pc = "dispatch", !.at = t.at + 1,
                                  !.expected = covered, !.def = 1])
       /\ UNCHANGED acked

\* Mutant of NextDefinition: the commit after the coverage is not advanced to.
NextDefinitionUncovered(w, s) ==
  LET t == task[w][s] IN
  IF t.def < NumDefs
  THEN SetTask(w, s, [t EXCEPT !.def = @ + 1]) /\ UNCHANGED acked
  ELSE IF t.at <= t.expected + 1 THEN MoveOn(w, s, t.expected)
  ELSE SetTask(w, s, [t EXCEPT !.pc = "advance"]) /\ UNCHANGED acked

\* After definition t.def has taken the candidate: the next definition, or
\* completion for history, the next candidate for a commit the coverage has
\* already passed, and the coverage advance otherwise.
NextDefinition(w, s) ==
  LET t == task[w][s] IN
  IF t.def < NumDefs
  THEN SetTask(w, s, [t EXCEPT !.def = @ + 1]) /\ UNCHANGED acked
  ELSE IF IsHistory(s, t.at) THEN Complete(w, s)
  ELSE IF t.at <= t.expected THEN MoveOn(w, s, t.expected)
  ELSE SetTask(w, s, [t EXCEPT !.pc = "advance"]) /\ UNCHANGED acked

\* Mutants of Skips: the anchor itself counted as history; history given to
\* every definition.
SkipsAnchor(d, s, c) == c <= StartAnchor[s] /\ Strategy[d] # "none"
\* History reaches only the definitions without deduplication.
Skips(d, s, c) == IsHistory(s, c) /\ Strategy[d] # "none"

\* Mutant of Dispatch: a terminal outcome lets the commit pass.
DispatchPastTerminal(w, s) ==
  LET t == task[w][s]
      stuck == Terminal(t.def, s, t.at) /\ Applicable(t.def, s, t.at) # {}
  IN
  /\ t.pc = "dispatch"
  /\ NextDefinition(w, s)
  /\ IF Skips(t.def, s, t.at) \/ stuck THEN UNCHANGED durable
     ELSE ApplyCommit(t.def, s, t.at)
  /\ UNCHANGED <<tail, faults>>

\* One definition of dispatch(): skipped, stopped by a terminal outcome, or
\* folded and committed.
Dispatch(w, s) ==
  LET t == task[w][s] IN
  /\ t.pc = "dispatch"
  /\ \/ /\ Skips(t.def, s, t.at)
        /\ NextDefinition(w, s)
        /\ UNCHANGED durable
     \/ /\ ~Skips(t.def, s, t.at)
        /\ Terminal(t.def, s, t.at) /\ Applicable(t.def, s, t.at) # {}
        /\ SetTask(w, s, IdleTask)
        /\ UNCHANGED <<durable, acked>>
     \/ /\ ~Skips(t.def, s, t.at)
        /\ ~(Terminal(t.def, s, t.at) /\ Applicable(t.def, s, t.at) # {})
        /\ ApplyCommit(t.def, s, t.at)
        /\ NextDefinition(w, s)
  /\ UNCHANGED <<tail, faults>>

\* The store's advanceCoverage reads the row and refuses a sequence that is
\* not the next one after the expected coverage.
AdvanceRead(w, s) ==
  LET t == task[w][s] IN
  /\ t.pc = "advance"
  /\ SetTask(w, s, IF coverage[s] = t.expected /\ t.at = After(s) + 1
                   THEN [t EXCEPT !.pc = "cas"] ELSE IdleTask)
  /\ UNCHANGED <<tail, durable, acked, faults>>

\* Mutant of AdvanceCas: the update is not conditional on the expected row.
AdvanceBlindly(w, s) ==
  LET t == task[w][s] IN
  /\ t.pc = "cas"
  /\ coverage' = [coverage EXCEPT ![s] = t.at]
  /\ MoveOn(w, s, t.at)
  /\ UNCHANGED <<tail, ownRecord, marker, folds, faults>>

\* The conditional update, which moves the row only if nobody else has.
AdvanceCas(w, s) ==
  LET t == task[w][s] IN
  /\ t.pc = "cas"
  /\ IF coverage[s] = t.expected
     THEN coverage' = [coverage EXCEPT ![s] = t.at] /\ MoveOn(w, s, t.at)
     ELSE /\ SetTask(w, s, [t EXCEPT !.pc = "reconcile"])
          /\ UNCHANGED <<coverage, acked>>
  /\ UNCHANGED <<tail, ownRecord, marker, folds, faults>>

\* After an update that matched no row or lost its reply, a row that stands
\* at the wanted sequence counts as success, whoever put it there.
Reconcile(w, s) ==
  LET t == task[w][s] IN
  /\ t.pc = "reconcile"
  /\ IF coverage[s] = t.at THEN MoveOn(w, s, t.at)
     ELSE SetTask(w, s, IdleTask) /\ UNCHANGED acked
  /\ UNCHANGED <<tail, durable, faults>>

-----------------------------------------------------------------------------
\* Faults.  Whatever a failed call leaves behind, the task ends retryable.

\* A read fails or a write is refused before it reaches the store.
CallFails(w, s) ==
  /\ Fault
  /\ task[w][s].pc # "idle"
  /\ SetTask(w, s, IdleTask)
  /\ UNCHANGED <<tail, durable, acked>>

\* The definition's transaction commits and its reply is lost.
CommitReplyLost(w, s) ==
  LET t == task[w][s] IN
  /\ Fault
  /\ t.pc = "dispatch"
  /\ ~Skips(t.def, s, t.at) /\ ~Terminal(t.def, s, t.at)
  /\ ApplyCommit(t.def, s, t.at)
  /\ SetTask(w, s, IdleTask)
  /\ UNCHANGED <<tail, acked>>

\* The coverage update reaches the store and its reply is lost.
CasReplyLost(w, s) ==
  LET t == task[w][s] IN
  /\ Fault
  /\ t.pc = "cas"
  /\ coverage' = IF coverage[s] = t.expected THEN [coverage EXCEPT ![s] = t.at]
                 ELSE coverage
  /\ SetTask(w, s, [t EXCEPT !.pc = "reconcile"])
  /\ UNCHANGED <<tail, ownRecord, marker, folds, acked>>

\* A worker process dies; what it had in memory is gone.
Crash(w) ==
  /\ Fault
  /\ \E s \in Sources : task[w][s].pc # "idle"
  /\ task' = [task EXCEPT ![w] = [s \in Sources |-> IdleTask]]
  /\ UNCHANGED <<tail, durable, acked>>

-----------------------------------------------------------------------------
TaskStep(w, s) ==
  \/ Admit(w, s)
  \/ ReadGap(w, s)
  \/ Dispatch(w, s)
  \/ AdvanceRead(w, s)
  \/ AdvanceCas(w, s)
  \/ Reconcile(w, s)

Faulty(w, s) ==
  \/ CallFails(w, s)
  \/ CommitReplyLost(w, s)
  \/ CasReplyLost(w, s)

Next ==
  \/ \E s \in Sources : AppendCommit(s)
  \/ \E w \in Workers, s \in Sources, n \in Seqs, poll \in BOOLEAN :
       Receive(w, s, n, poll)
  \/ \E w \in Workers, s \in Sources : TaskStep(w, s) \/ Faulty(w, s)
  \/ \E w \in Workers : Crash(w)

Spec == Init /\ [][Next]_vars

-----------------------------------------------------------------------------
Deduplicated == {d \in Defs : Strategy[d] # "none"}
Folded(d, s, c) == \A t \in Route[d][s][c] : folds[d][t][s][c] > 0

\* Whatever is redelivered, retried, run by two workers at once or cut short
\* by a crash, a deduplicated definition folds a commit into a document at
\* most once, only where it is routed, never below the source's anchor, and
\* only when every earlier commit of the source has been folded.
ExactlyOnceInOrder ==
  \A d \in Defs, t \in Targets, s \in Sources, c \in Seqs :
    d \in Deduplicated /\ folds[d][t][s][c] > 0 =>
      /\ folds[d][t][s][c] = 1
      /\ t \in Route[d][s][c]
      /\ ~IsHistory(s, c)
      /\ \A b \in StartAnchor[s] .. c - 1 : Folded(d, s, b)

\* A source's durable coverage never runs ahead of a projection: what it
\* claims is folded by every definition, including the ones that come last
\* in the registry.
CoverageIsBacked ==
  \A s \in Sources : \A c \in StartAnchor[s] .. coverage[s] :
    \A d \in Defs : Folded(d, s, c)

\* A commit reported completed (and so acknowledged to the broker) is never
\* needed again: the coverage has passed it, or, below the anchor, every
\* definition without deduplication has folded it.
AckedIsDurable ==
  \A s \in Sources, n \in Seqs : n \in acked[s] =>
    IF IsHistory(s, n)
    THEN \A d \in Defs : d \notin Deduplicated => Folded(d, s, n)
    ELSE n <= coverage[s]

\* The definition is stopped by the commit, whatever has been folded so far.
Stops(d, s, c) ==
  \/ <<d, s, c>> \in Poison /\ Route[d][s][c] # {}
  \/ Strategy[d] = "in_document" /\ Several(Route[d][s][c])

\* A commit a definition cannot take stops its source: no coverage passes it,
\* and no document of that definition shows any part of it, even if another
\* worker meets it later or out of order.
StoppedCommitHalts ==
  \A d \in Defs, s \in Sources, c \in Seqs :
    Stops(d, s, c) /\ ~(IsHistory(s, c) /\ d \in Deduplicated) =>
      /\ \A t \in Targets : folds[d][t][s][c] = 0
      /\ ~IsHistory(s, c) => coverage[s] < c

-----------------------------------------------------------------------------
\* The inductive invariant behind the properties above.

\* Every commit of the source from its anchor up to, but not including, c.
FoldedBelow(d, s, c) == \A b \in StartAnchor[s] .. c - 1 : Folded(d, s, b)

\* The own record of a source names exactly what has been folded.
OwnRecordSound ==
  \A d \in Defs, s \in Sources : Strategy[d] = "own_record" =>
    /\ \A c \in StartAnchor[s] .. ownRecord[d][s] : Folded(d, s, c)
    /\ \A t \in Targets, c \in Seqs : folds[d][t][s][c] > 0 => c <= ownRecord[d][s]

\* So does, for its document, an in-document marker.
MarkerSound ==
  \A d \in Defs, t \in Targets, s \in Sources : Strategy[d] = "in_document" =>
    /\ \A c \in StartAnchor[s] .. marker[d][t][s] :
         t \in Route[d][s][c] => folds[d][t][s][c] > 0
    /\ \A c \in Seqs : folds[d][t][s][c] > 0 => c <= marker[d][t][s]

\* The coverage is null or stands for a folded prefix of the log.
CoverageSound ==
  \A s \in Sources :
    /\ coverage[s] # Null => StartAnchor[s] <= coverage[s] /\ coverage[s] < tail[s]
    /\ \A d \in Defs : FoldedBelow(d, s, coverage[s] + 1)

\* What a task relies on between two awaits: what it read about the coverage
\* is not ahead of it, everything before its candidate is folded, and so is
\* the candidate itself by the definitions it has passed.
TaskSound(s, t) ==
  /\ t.pc # "idle" => t.n < tail[s]
  /\ t.pc = "gap" => /\ StartAnchor[s] <= t.at /\ t.at <= t.n
                     /\ t.expected <= coverage[s]
                     /\ t.def = 1
                     /\ \A d \in Defs : FoldedBelow(d, s, t.at)
  /\ t.pc = "admit" => t.at = t.n /\ t.def = 1
  /\ t.pc \in {"dispatch", "advance", "cas", "reconcile"} =>
       /\ t.at <= t.n
       /\ t.expected <= coverage[s]
       /\ IF IsHistory(s, t.at)
          THEN /\ t.pc = "dispatch" /\ t.at = t.n
               /\ \A d \in 1 .. t.def - 1 : d \notin Deduplicated => Folded(d, s, t.at)
          ELSE /\ \A d \in Defs : FoldedBelow(d, s, t.at)
               /\ \A d \in 1 .. t.def - 1 : Folded(d, s, t.at)
  /\ t.pc \in {"advance", "cas", "reconcile"} =>
       t.expected < t.at /\ \A d \in Defs : Folded(d, s, t.at)
  /\ t.pc = "cas" =>
       t.at = IF t.expected = Null THEN StartAnchor[s] ELSE t.expected + 1

TasksSound == \A w \in Workers, s \in Sources : TaskSound(s, task[w][s])

IInv ==
  /\ TypeOK
  /\ ExactlyOnceInOrder
  /\ OwnRecordSound
  /\ MarkerSound
  /\ CoverageSound
  /\ TasksSound
  /\ AckedIsDurable

-----------------------------------------------------------------------------
\* The coordinator keeps the promise of OrderedProjection: read through this
\* mapping, each of its steps is a step of the promise or changes nothing
\* the promise speaks of.
Promise == INSTANCE OrderedProjection WITH
  log <- tail

ImplementsPromise == Promise!Spec
=============================================================================
