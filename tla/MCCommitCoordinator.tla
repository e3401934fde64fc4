------------------------- MODULE MCCommitCoordinator -------------------------
(***************************************************************************)
(* Instances of CommitCoordinator for TLC.                                 *)
(***************************************************************************)
EXTENDS CommitCoordinator, TLC

CONSTANTS w1, w2, s1, s2, t1, t2

\* One definition of each deduplication strategy, the fan-out ones first.
MCStrategy == <<"own_record", "in_document", "none">>

\* The own-record definition fans out and leaves commit 0 of s1 unrouted; the
\* in-document one writes one document per commit.
MCRoute ==
  [d \in 1 .. 3 |-> [s \in Sources |-> [c \in Seqs |->
     CASE d = 1 -> IF c = 0 THEN {} ELSE Targets
       [] d = 2 -> {t1}
       [] d = 3 -> {t1}]]]

\* A source adopted after commit 0 and a source projected from its birth.
MCAnchor == [s \in Sources |-> IF s = s1 THEN 1 ELSE 0]
MCNoPoison == {}

\* Two workers are interchangeable in the runs without fairness.
MCWorkerSymmetry == Permutations({w1, w2})
=============================================================================
