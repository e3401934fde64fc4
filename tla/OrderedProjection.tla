-------------------------- MODULE OrderedProjection --------------------------
(***************************************************************************)
(* What the projection transport promises, without workers, tasks, retries *)
(* or progress records: each commit of a source log is folded into each    *)
(* definition in one step, a definition with deduplication folds every     *)
(* commit exactly once and in order, and the coverage of a source follows  *)
(* the slowest definition.  CommitCoordinator implements this              *)
(* specification.                                                          *)
(***************************************************************************)
EXTENDS Integers

CONSTANTS
  Defs, Sources, Targets, Seqs,
  Deduplicated,  \* the definitions with a deduplication strategy
  Route,         \* Route[d][s][c]: documents commit c of s is folded into
  StartAnchor,   \* first sequence after the accepted baseline
  ManyFolds      \* bound: folds of one commit are counted this far

VARIABLES
  log,       \* log[s]: number of commits of the source
  folds,     \* folds[d][t][s][c]: how often document t folded the commit
  coverage   \* coverage[s]: last commit every definition has folded, or -1

vars == <<log, folds, coverage>>

Init ==
  /\ log = [s \in Sources |-> 0]
  /\ folds = [d \in Defs |-> [t \in Targets |->
                [s \in Sources |-> [c \in Seqs |-> 0]]]]
  /\ coverage = [s \in Sources |-> -1]

Folded(d, s, c) == \A t \in Route[d][s][c] : folds[d][t][s][c] > 0

\* All documents of the commit change in one step.
FoldInto(d, s, c) ==
  folds' = [folds EXCEPT ![d] = [t \in Targets |->
    IF t \in Route[d][s][c] /\ folds[d][t][s][c] < ManyFolds
    THEN [folds[d][t] EXCEPT ![s][c] = @ + 1] ELSE folds[d][t]]]

Append(s) ==
  /\ log[s] \in Seqs
  /\ log' = [log EXCEPT ![s] = @ + 1]
  /\ UNCHANGED <<folds, coverage>>

FoldOnce(d, s, c) ==
  /\ d \in Deduplicated
  /\ StartAnchor[s] <= c /\ c < log[s]
  /\ \A b \in StartAnchor[s] .. c - 1 : Folded(d, s, b)
  /\ \A t \in Route[d][s][c] : folds[d][t][s][c] = 0
  /\ FoldInto(d, s, c)
  /\ UNCHANGED <<log, coverage>>

FoldAgain(d, s, c) ==
  /\ d \notin Deduplicated
  /\ c < log[s]
  /\ FoldInto(d, s, c)
  /\ UNCHANGED <<log, coverage>>

Cover(s) ==
  LET next == IF coverage[s] = -1 THEN StartAnchor[s] ELSE coverage[s] + 1 IN
  /\ next < log[s]
  /\ \A d \in Defs : Folded(d, s, next)
  /\ coverage' = [coverage EXCEPT ![s] = next]
  /\ UNCHANGED <<log, folds>>

Next ==
  \E s \in Sources :
    \/ Append(s)
    \/ Cover(s)
    \/ \E d \in Defs, c \in Seqs : FoldOnce(d, s, c) \/ FoldAgain(d, s, c)

Spec == Init /\ [][Next]_vars
=============================================================================
