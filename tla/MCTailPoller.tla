----------------------------- MODULE MCTailPoller -----------------------------
(***************************************************************************)
(* Instances of TailPoller for TLC.                                        *)
(***************************************************************************)
EXTENDS TailPoller, MCCommitCoordinator

\* Commit 1 of s2 fans out in the in-document definition and stops the source;
\* the last definition throws on the history of s1, which only it folds.
MCStoppingRoute ==
  [d \in 1 .. 3 |-> [s \in Sources |-> [c \in Seqs |->
     IF d = 2 /\ s = s2 /\ c = 1 THEN Targets ELSE MCRoute[d][s][c]]]]
MCPoison == {<<3, s1, 0>>}

\* Two rivals poll s2 to its stop while one of them is notified as well; two
\* poll s1 behind s2; one polls s1 behind s2 or before it, s2 coming to its
\* stop; one polls s1 and is notified of it and its history.
MCDeployments ==
  LET deploy(workers, consumers, order, commits1, commits2) ==
        [workers |-> workers, consumers |-> consumers, order |-> order,
         limit |-> [s \in Sources |-> IF s = s1 THEN commits1 ELSE commits2]]
  IN  {deploy({w1, w2}, {w2}, <<s2>>, 0, 2),
       deploy({w1, w2}, {}, <<s2, s1>>, 2, 1),
       deploy({w1}, {}, <<s2, s1>>, 3, 2), deploy({w1}, {}, <<s1, s2>>, 3, 2),
       deploy({w1}, {w1}, <<s1>>, 3, 0)}
=============================================================================
