----------------------- MODULE CommitCoordinatorProofs -----------------------
(***************************************************************************)
(* Proofs about CommitCoordinator for any number of workers, sources,      *)
(* documents and definitions, any routing and any number of faults: the    *)
(* inductive invariant IInv, the safety properties that follow from it,    *)
(* the refinement of OrderedProjection, and what the pollers of TailPoller *)
(* add to it.                                                              *)
(***************************************************************************)
EXTENDS TailPoller, TLAPS

\* What one atomic commit of one definition changes, point by point.
LEMMA ApplyCommitEffect ==
  ASSUME TypeOK, NEW d \in Defs, NEW s \in Sources, NEW c \in Seqs,
         ApplyCommit(d, s, c)
  PROVE  /\ folds' \in [Defs -> [Targets -> [Sources -> [Seqs -> 0 .. ManyFolds]]]]
         /\ \A e \in Defs, t \in Targets, r \in Sources, b \in Seqs :
              folds'[e][t][r][b] =
                IF e = d /\ r = s /\ b = c /\ t \in Applicable(d, s, c)
                THEN Bump(folds[e][t][r][b]) ELSE folds[e][t][r][b]
         /\ ownRecord' \in [Defs -> [Sources -> Seqs \cup {Null}]]
         /\ \A e \in Defs, r \in Sources :
              ownRecord'[e][r] =
                IF e = d /\ r = s /\ Strategy[d] = "own_record" /\ c > ownRecord[d][s]
                THEN c ELSE ownRecord[e][r]
         /\ marker' \in [Defs -> [Targets -> [Sources -> Seqs \cup {Null}]]]
         /\ \A e \in Defs, t \in Targets, r \in Sources :
              marker'[e][t][r] =
                IF e = d /\ r = s /\ Strategy[d] = "in_document" /\ t \in Applicable(d, s, c)
                THEN c ELSE marker[e][t][r]
         /\ coverage' = coverage
<1> DEFINE docs == Applicable(d, s, c)
           row(t) == [folds[d][t] EXCEPT ![s][c] = Bump(@)]
           mrow(t) == [marker[d][t] EXCEPT ![s] = c]
           fd == [t \in Targets |-> IF t \in docs THEN row(t) ELSE folds[d][t]]
           md == [t \in Targets |-> IF t \in docs THEN mrow(t) ELSE marker[d][t]]
<1>0. coverage' = coverage
  BY DEF ApplyCommit
<1>1. folds' = [folds EXCEPT ![d] = fd]
  BY DEF ApplyCommit
<1>2. \A k \in 0 .. ManyFolds : Bump(k) \in 0 .. ManyFolds
  BY DEF Bump, ManyFolds
<1>3. ASSUME NEW t \in Targets
      PROVE  /\ row(t) \in [Sources -> [Seqs -> 0 .. ManyFolds]]
             /\ \A r \in Sources, b \in Seqs : row(t)[r][b] =
                  IF r = s /\ b = c THEN Bump(folds[d][t][r][b]) ELSE folds[d][t][r][b]
  <2>1. folds[d][t] \in [Sources -> [Seqs -> 0 .. ManyFolds]]
    BY DEF TypeOK
  <2> QED BY <1>2, <2>1
<1>4. fd \in [Targets -> [Sources -> [Seqs -> 0 .. ManyFolds]]]
  BY <1>3 DEF TypeOK
<1>5. folds' \in [Defs -> [Targets -> [Sources -> [Seqs -> 0 .. ManyFolds]]]]
  BY <1>1, <1>4 DEF TypeOK
<1>6. ASSUME NEW e \in Defs, NEW t \in Targets, NEW r \in Sources, NEW b \in Seqs
      PROVE  folds'[e][t][r][b] =
               IF e = d /\ r = s /\ b = c /\ t \in docs
               THEN Bump(folds[e][t][r][b]) ELSE folds[e][t][r][b]
  <2>1. folds'[e] = IF e = d THEN fd ELSE folds[e]
    BY <1>1 DEF TypeOK
  <2>2. fd[t] = IF t \in docs THEN row(t) ELSE folds[d][t]
    OBVIOUS
  <2> HIDE DEF fd, row
  <2> QED BY <2>1, <2>2, <1>3
<1>7. /\ ownRecord' \in [Defs -> [Sources -> Seqs \cup {Null}]]
      /\ \A e \in Defs, r \in Sources :
           ownRecord'[e][r] =
             IF e = d /\ r = s /\ Strategy[d] = "own_record" /\ c > ownRecord[d][s]
             THEN c ELSE ownRecord[e][r]
  BY DEF ApplyCommit, TypeOK
<1>8. \A t \in Targets : mrow(t) \in [Sources -> Seqs \cup {Null}]
  BY DEF TypeOK
<1>9. CASE Strategy[d] = "in_document"
  <2>1. marker' = [marker EXCEPT ![d] = md]
    BY <1>9 DEF ApplyCommit
  <2>2. md \in [Targets -> [Sources -> Seqs \cup {Null}]]
    BY <1>8 DEF TypeOK
  <2>3. marker' \in [Defs -> [Targets -> [Sources -> Seqs \cup {Null}]]]
    BY <2>1, <2>2 DEF TypeOK
  <2>4. ASSUME NEW e \in Defs, NEW t \in Targets, NEW r \in Sources
        PROVE  marker'[e][t][r] = IF e = d /\ r = s /\ t \in docs
                                  THEN c ELSE marker[e][t][r]
    <3>1. marker'[e] = IF e = d THEN md ELSE marker[e]
      BY <2>1 DEF TypeOK
    <3>2. md[t] = IF t \in docs THEN mrow(t) ELSE marker[d][t]
      OBVIOUS
    <3>3. mrow(t)[r] = IF r = s THEN c ELSE marker[d][t][r]
      BY DEF TypeOK
    <3> HIDE DEF md, mrow
    <3> QED BY <3>1, <3>2, <3>3
  <2> QED BY <1>0, <1>5, <1>6, <1>7, <1>9, <2>3, <2>4
<1>10. CASE Strategy[d] # "in_document"
  <2>1. marker' = marker
    BY <1>10 DEF ApplyCommit
  <2> QED BY <1>0, <1>5, <1>6, <1>7, <1>10, <2>1 DEF TypeOK
<1> QED BY <1>9, <1>10

-----------------------------------------------------------------------------
\* The types of everything but the tasks and what they report.
DataTypeOK ==
  /\ tail \in [Sources -> 0 .. MaxSeq + 1]
  /\ coverage \in [Sources -> Seqs \cup {Null}]
  /\ ownRecord \in [Defs -> [Sources -> Seqs \cup {Null}]]
  /\ marker \in [Defs -> [Targets -> [Sources -> Seqs \cup {Null}]]]
  /\ folds \in [Defs -> [Targets -> [Sources -> [Seqs -> 0 .. ManyFolds]]]]

\* Nothing folded is unfolded, and no log or coverage shrinks.
Grows ==
  /\ \A d \in Defs, t \in Targets, s \in Sources, c \in Seqs :
       folds[d][t][s][c] > 0 => folds'[d][t][s][c] > 0
  /\ \A s \in Sources : coverage[s] <= coverage'[s] /\ tail[s] <= tail'[s]

LEMMA FoldedGrows ==
  ASSUME Grows, NEW d \in Defs, NEW s \in Sources, NEW c \in Seqs, Folded(d, s, c)
  PROVE  Folded(d, s, c)'
<1>1. Route[d][s][c] \subseteq Targets
  BY ConstantsAssumption DEF ConstantsAssumption
<1> QED BY <1>1 DEF Grows, Folded

LEMMA FoldedBelowGrows ==
  ASSUME Grows, NEW d \in Defs, NEW s \in Sources, NEW c \in -1 .. MaxSeq + 1,
         FoldedBelow(d, s, c)
  PROVE  FoldedBelow(d, s, c)'
<1> SUFFICES ASSUME NEW b \in StartAnchor[s] .. c - 1
             PROVE  Folded(d, s, b)'
  BY DEF FoldedBelow
<1>1. b \in Seqs
  BY ConstantsAssumption DEF ConstantsAssumption, Seqs
<1>2. Folded(d, s, b)
  BY DEF FoldedBelow
<1> QED BY <1>1, <1>2, FoldedGrows

\* What a task relies on stays true whatever the others do.
LEMMA TaskSoundGrows ==
  ASSUME TypeOK, DataTypeOK', Grows, NEW s \in Sources, NEW t \in Tasks,
         TaskSound(s, t)
  PROVE  TaskSound(s, t)'
<1>1. /\ tail[s] \in Int /\ tail'[s] \in Int /\ tail[s] <= tail'[s]
      /\ coverage[s] \in Int /\ coverage'[s] \in Int /\ coverage[s] <= coverage'[s]
  BY ConstantsAssumption DEF ConstantsAssumption, TypeOK, DataTypeOK, Seqs, Null, Grows
<1>2. /\ t.at \in Seqs /\ t.n \in Int /\ t.expected \in Int /\ t.def \in Defs
  BY ConstantsAssumption DEF ConstantsAssumption, Tasks, Seqs, Null
<1>3. \A d \in Defs : FoldedBelow(d, s, t.at) => FoldedBelow(d, s, t.at)'
  BY <1>2, FoldedBelowGrows, ConstantsAssumption DEF ConstantsAssumption, Seqs
<1>4. \A d \in Defs : Folded(d, s, t.at) => Folded(d, s, t.at)'
  BY <1>2, FoldedGrows
<1>5. \A d \in 1 .. t.def - 1 : d \in Defs
  BY <1>2, ConstantsAssumption DEF ConstantsAssumption, Defs
<1>6. IsHistory(s, t.at)' = IsHistory(s, t.at)
  BY DEF IsHistory
<1>7. Deduplicated' = Deduplicated
  BY DEF Deduplicated
<1> HIDE DEF Deduplicated, IsHistory
<1>8. t.n < tail[s] => t.n < tail'[s]
  BY <1>1, <1>2
<1>9. t.expected <= coverage[s] => t.expected <= coverage'[s]
  BY <1>1, <1>2
<1> QED BY <1>3, <1>4, <1>5, <1>6, <1>7, <1>8, <1>9 DEF TaskSound

\* One task changes to a sound one, the others keep theirs.
LEMMA TasksSoundAfter ==
  ASSUME TypeOK, DataTypeOK', TasksSound, Grows,
         NEW w \in Workers, NEW s \in Sources, NEW t \in Tasks,
         SetTask(w, s, t), TaskSound(s, t)'
  PROVE  TasksSound'
<1> SUFFICES ASSUME NEW v \in Workers, NEW r \in Sources
             PROVE  TaskSound(r, task[v][r])'
  BY DEF TasksSound
<1>1. task'[v][r] = IF v = w /\ r = s THEN t ELSE task[v][r]
  BY DEF SetTask, TypeOK
<1>2. CASE v = w /\ r = s
  BY <1>1, <1>2
<1>3. CASE ~(v = w /\ r = s)
  <2>1. task[v][r] \in Tasks /\ TaskSound(r, task[v][r])
    BY DEF TypeOK, TasksSound
  <2> DEFINE u == task[v][r]
  <2>2. PICK k \in Tasks : k = u /\ TaskSound(r, k)
    BY <2>1
  <2>3. TaskSound(r, k)'
    BY <2>2, TaskSoundGrows
  <2>4. task'[v][r] = k
    BY <1>1, <1>3, <2>2
  <2> QED BY <2>3, <2>4
<1> QED BY <1>2, <1>3

-----------------------------------------------------------------------------
\* Folding a commit at its turn: progress records stay truthful, nothing is
\* folded twice or early, and afterwards the commit is folded everywhere.
LEMMA ApplyCommitSound ==
  ASSUME TypeOK, ExactlyOnceInOrder, OwnRecordSound, MarkerSound,
         NEW d \in Defs, NEW s \in Sources, NEW c \in Seqs,
         ApplyCommit(d, s, c),
         FoldedBelow(d, s, c) \/ d \notin Deduplicated,
         ~IsHistory(s, c) \/ d \notin Deduplicated
  PROVE  /\ \A e \in Defs, t \in Targets, r \in Sources, b \in Seqs :
              folds[e][t][r][b] > 0 => folds'[e][t][r][b] > 0
         /\ Folded(d, s, c)'
         /\ ExactlyOnceInOrder'
         /\ OwnRecordSound'
         /\ MarkerSound'
<1> USE ConstantsAssumption DEF ConstantsAssumption
<1>r. \A e \in Defs, r \in Sources, b \in Seqs : Route[e][r][b] \subseteq Targets
  OBVIOUS
<1>b. \A k \in 0 .. ManyFolds : Bump(k) > 0 /\ (k = 0 => Bump(k) = 1)
  BY DEF Bump, ManyFolds
<1>t. /\ \A e \in Defs, t \in Targets, r \in Sources, b \in Seqs :
           folds[e][t][r][b] \in 0 .. ManyFolds
      /\ \A e \in Defs, r \in Sources : ownRecord[e][r] \in -1 .. MaxSeq
      /\ \A e \in Defs, t \in Targets, r \in Sources : marker[e][t][r] \in -1 .. MaxSeq
      /\ \A r \in Sources : StartAnchor[r] \in Nat
      /\ Strategy[d] = "own_record" \/ Strategy[d] = "in_document" \/ Strategy[d] = "none"
      /\ MaxSeq \in Nat
      /\ d \in Deduplicated <=> Strategy[d] # "none"
  <2>1. \A x \in Seqs \cup {Null} : x \in -1 .. MaxSeq
    BY DEF Seqs, Null
  <2> QED BY <2>1 DEF TypeOK, Strategies, Deduplicated
<1>a. /\ Applicable(d, s, c) \subseteq Route[d][s][c]
      /\ Strategy[d] = "own_record" =>
           Applicable(d, s, c) = IF c <= ownRecord[d][s] THEN {} ELSE Route[d][s][c]
      /\ Strategy[d] = "in_document" =>
           Applicable(d, s, c) = {t \in Route[d][s][c] : c > marker[d][t][s]}
      /\ Strategy[d] = "none" => Applicable(d, s, c) = Route[d][s][c]
  BY <1>t DEF Applicable, Strategies
<1>0. /\ \A e \in Defs, t \in Targets, r \in Sources, b \in Seqs :
           folds'[e][t][r][b] =
             IF e = d /\ r = s /\ b = c /\ t \in Applicable(d, s, c)
             THEN Bump(folds[e][t][r][b]) ELSE folds[e][t][r][b]
      /\ \A e \in Defs, r \in Sources :
           ownRecord'[e][r] =
             IF e = d /\ r = s /\ Strategy[d] = "own_record" /\ c > ownRecord[d][s]
             THEN c ELSE ownRecord[e][r]
      /\ \A e \in Defs, t \in Targets, r \in Sources :
           marker'[e][t][r] =
             IF e = d /\ r = s /\ Strategy[d] = "in_document" /\ t \in Applicable(d, s, c)
             THEN c ELSE marker[e][t][r]
  BY ApplyCommitEffect
<1> HIDE DEF ConstantsAssumption
<1>i. c \in 0 .. MaxSeq
  BY DEF Seqs
\* Nothing is unfolded.
<1>1. \A e \in Defs, t \in Targets, r \in Sources, b \in Seqs :
        folds[e][t][r][b] > 0 => folds'[e][t][r][b] > 0
  BY <1>0, <1>b, <1>t
<1>2. \A e \in Defs, r \in Sources, b \in Seqs : Folded(e, r, b) => Folded(e, r, b)'
  BY <1>1, <1>r DEF Folded
\* A commit already past the progress record was folded before.
<1>3. Folded(d, s, c)'
  <2> SUFFICES ASSUME NEW t \in Route[d][s][c]
               PROVE  folds'[d][t][s][c] > 0
    BY DEF Folded
  <2>1. t \in Targets
    BY <1>r
  <2>2. CASE t \in Applicable(d, s, c)
    BY <2>1, <2>2, <1>0, <1>b, <1>t
  <2>3. CASE t \notin Applicable(d, s, c)
    <3>1. StartAnchor[s] <= c
      BY <2>3, <1>a, <1>t, <1>i DEF Deduplicated, IsHistory, Strategies
    <3>2. CASE Strategy[d] = "own_record"
      <4>1. c \in StartAnchor[s] .. ownRecord[d][s]
        BY <2>3, <3>1, <3>2, <1>a, <1>t, <1>i
      <4> QED BY <4>1, <3>2, <1>1, <2>1 DEF OwnRecordSound, Folded
    <3>3. CASE Strategy[d] = "in_document"
      <4>1. c \in StartAnchor[s] .. marker[d][t][s]
        BY <2>1, <2>3, <3>1, <3>3, <1>a, <1>t, <1>i
      <4> QED BY <4>1, <3>3, <1>1, <2>1 DEF MarkerSound
    <3> QED BY <2>3, <3>2, <3>3, <1>a, <1>t DEF Strategies
  <2> QED BY <2>2, <2>3
<1>4. ExactlyOnceInOrder'
  <2> SUFFICES ASSUME NEW e \in Defs, NEW t \in Targets, NEW r \in Sources,
                      NEW b \in Seqs, e \in Deduplicated, folds'[e][t][r][b] > 0
               PROVE  /\ folds'[e][t][r][b] = 1
                      /\ t \in Route[e][r][b]
                      /\ ~IsHistory(r, b)
                      /\ \A a \in StartAnchor[r] .. b - 1 : Folded(e, r, a)'
    BY DEF ExactlyOnceInOrder, Deduplicated, IsHistory
  <2>0. \A a \in StartAnchor[r] .. b - 1 : a \in Seqs
    BY <1>t DEF Seqs
  <2>1. CASE folds[e][t][r][b] > 0
    <3>1. /\ folds[e][t][r][b] = 1
          /\ t \in Route[e][r][b] /\ ~IsHistory(r, b)
          /\ \A a \in StartAnchor[r] .. b - 1 : Folded(e, r, a)
      BY <2>1 DEF ExactlyOnceInOrder
    <3>2. folds'[e][t][r][b] = folds[e][t][r][b]
      <4> SUFFICES ASSUME e = d, r = s, b = c, t \in Applicable(d, s, c)
                   PROVE  FALSE
        BY <1>0
      <4>1. CASE Strategy[d] = "own_record"
        BY <4>1, <1>a, <1>t, <1>i, <2>1 DEF OwnRecordSound
      <4>2. CASE Strategy[d] = "in_document"
        BY <4>2, <1>a, <1>t, <1>i, <2>1 DEF MarkerSound
      <4> QED BY <4>1, <4>2, <1>t DEF Strategies, Deduplicated
    <3> QED BY <3>1, <3>2, <2>0, <1>2
  <2>2. CASE ~(folds[e][t][r][b] > 0)
    <3>1. e = d /\ r = s /\ b = c /\ t \in Applicable(d, s, c)
      BY <2>2, <1>0
    <3>2. folds'[e][t][r][b] = 1
      <4>1. folds[e][t][r][b] = 0
        BY <2>2, <1>t DEF ManyFolds
      <4> QED BY <3>1, <4>1, <1>0, <1>b, <1>t DEF ManyFolds
    <3> QED BY <3>1, <3>2, <2>0, <1>a, <1>2 DEF FoldedBelow
  <2> QED BY <2>1, <2>2
<1>5. OwnRecordSound'
  <2> SUFFICES ASSUME NEW e \in Defs, NEW r \in Sources, Strategy[e] = "own_record"
               PROVE  /\ \A b \in StartAnchor[r] .. ownRecord'[e][r] : Folded(e, r, b)'
                      /\ \A t \in Targets, b \in Seqs :
                           folds'[e][t][r][b] > 0 => b <= ownRecord'[e][r]
    BY DEF OwnRecordSound
  <2>0. /\ \A b \in StartAnchor[r] .. ownRecord[e][r] : Folded(e, r, b)
        /\ \A t \in Targets, b \in Seqs :
             folds[e][t][r][b] > 0 => b <= ownRecord[e][r]
    BY DEF OwnRecordSound
  <2>s. \A b \in StartAnchor[r] .. MaxSeq : b \in Seqs
    BY <1>t DEF Seqs
  <2>1. CASE e = d /\ r = s /\ c > ownRecord[d][s]
    <3>1. ownRecord'[e][r] = c
      BY <2>1, <1>0
    <3>2. \A b \in StartAnchor[r] .. c : Folded(e, r, b)'
      <4> SUFFICES ASSUME NEW b \in StartAnchor[r] .. c PROVE Folded(e, r, b)'
        OBVIOUS
      <4>1. b = c \/ b \in StartAnchor[s] .. c - 1
        BY <2>1, <1>t, <1>i
      <4>2. b \in Seqs
        BY <1>t, <1>i DEF Seqs
      <4> QED BY <4>1, <4>2, <2>1, <1>2, <1>3 DEF FoldedBelow, Deduplicated
    <3>3. \A t \in Targets, b \in Seqs : folds'[e][t][r][b] > 0 => b <= c
      BY <2>0, <2>1, <1>0, <1>t, <1>i DEF Seqs
    <3> QED BY <3>1, <3>2, <3>3
  <2>2. CASE ~(e = d /\ r = s /\ c > ownRecord[d][s])
    <3>1. ownRecord'[e][r] = ownRecord[e][r]
      BY <2>2, <1>0
    <3>2. \A t \in Targets, b \in Seqs : folds'[e][t][r][b] = folds[e][t][r][b]
      BY <2>2, <1>0, <1>a, <1>t, <1>i
    <3>3. \A b \in StartAnchor[r] .. ownRecord[e][r] : b \in Seqs
      BY <1>t DEF Seqs
    <3> QED BY <3>1, <3>2, <3>3, <2>0, <1>2
  <2> QED BY <2>1, <2>2
<1>6. MarkerSound'
  <2> SUFFICES ASSUME NEW e \in Defs, NEW t \in Targets, NEW r \in Sources,
                      Strategy[e] = "in_document"
               PROVE  /\ \A b \in StartAnchor[r] .. marker'[e][t][r] :
                           t \in Route[e][r][b] => folds'[e][t][r][b] > 0
                      /\ \A b \in Seqs : folds'[e][t][r][b] > 0 => b <= marker'[e][t][r]
    BY DEF MarkerSound
  <2>0. /\ \A b \in StartAnchor[r] .. marker[e][t][r] :
             t \in Route[e][r][b] => folds[e][t][r][b] > 0
        /\ \A b \in Seqs : folds[e][t][r][b] > 0 => b <= marker[e][t][r]
    BY DEF MarkerSound
  <2>1. CASE e = d /\ r = s /\ t \in Applicable(d, s, c)
    <3>1. marker'[e][t][r] = c /\ c > marker[d][t][s]
      BY <2>1, <1>0, <1>a
    <3>2. \A b \in StartAnchor[r] .. c : t \in Route[e][r][b] => folds'[e][t][r][b] > 0
      <4> SUFFICES ASSUME NEW b \in StartAnchor[r] .. c PROVE Folded(e, r, b)'
        BY DEF Folded
      <4>1. b = c \/ b \in StartAnchor[s] .. c - 1
        BY <2>1, <1>t, <1>i
      <4>2. b \in Seqs
        BY <1>t, <1>i DEF Seqs
      <4> QED BY <4>1, <4>2, <2>1, <1>2, <1>3 DEF FoldedBelow, Deduplicated
    <3>3. \A b \in Seqs : folds'[e][t][r][b] > 0 => b <= c
      BY <2>0, <2>1, <3>1, <1>0, <1>t, <1>i DEF Seqs
    <3> QED BY <3>1, <3>2, <3>3
  <2>2. CASE ~(e = d /\ r = s /\ t \in Applicable(d, s, c))
    <3>1. marker'[e][t][r] = marker[e][t][r]
      BY <2>2, <1>0
    <3>2. \A b \in Seqs : folds'[e][t][r][b] = folds[e][t][r][b]
      BY <2>2, <1>0
    <3>3. \A b \in StartAnchor[r] .. marker[e][t][r] : b \in Seqs
      BY <1>t DEF Seqs
    <3> QED BY <3>1, <3>2, <3>3, <2>0
  <2> QED BY <2>1, <2>2
<1> QED BY <1>1, <1>3, <1>4, <1>5, <1>6

-----------------------------------------------------------------------------
\* The steps of a task.
LEMMA SetTaskType ==
  ASSUME TypeOK, NEW w \in Workers, NEW s \in Sources, NEW t \in Tasks, SetTask(w, s, t)
  PROVE  task' \in [Workers -> [Sources -> Tasks]]
BY DEF SetTask, TypeOK

LEMMA IdleTaskSound ==
  /\ IdleTask \in Tasks
  /\ \A s \in Sources : TaskSound(s, IdleTask)
  /\ \A s \in Sources : TaskSound(s, IdleTask)'
BY ConstantsAssumption
   DEF ConstantsAssumption, IdleTask, Tasks, PCs, Seqs, Null, Defs, TaskSound

LEMMA CoverageSoundGrows ==
  ASSUME TypeOK, DataTypeOK', Grows, CoverageSound, coverage' = coverage
  PROVE  CoverageSound'
<1> SUFFICES ASSUME NEW s \in Sources
             PROVE  /\ coverage[s] # Null => StartAnchor[s] <= coverage[s] /\ coverage[s] < tail'[s]
                    /\ \A d \in Defs : FoldedBelow(d, s, coverage[s] + 1)'
  BY DEF CoverageSound
<1>1. coverage[s] \in -1 .. MaxSeq /\ tail[s] \in Int /\ tail'[s] \in Int
      /\ tail[s] <= tail'[s] /\ MaxSeq \in Nat
  BY ConstantsAssumption DEF ConstantsAssumption, TypeOK, DataTypeOK, Seqs, Null, Grows
<1>2. coverage[s] + 1 \in -1 .. MaxSeq + 1
  BY <1>1
<1> QED BY <1>1, <1>2, FoldedBelowGrows DEF CoverageSound

\* A report of completion is safe when what it stands for has been done.
AckSafe(s, n) ==
  IF IsHistory(s, n) THEN \A d \in Defs : d \notin Deduplicated => Folded(d, s, n)
  ELSE n <= coverage[s]

LEMMA AckSafeGrows ==
  ASSUME TypeOK, DataTypeOK', Grows, NEW s \in Sources, NEW n \in Seqs, AckSafe(s, n)
  PROVE  AckSafe(s, n)'
<1>1. n \in Int /\ coverage[s] \in Int /\ coverage'[s] \in Int /\ coverage[s] <= coverage'[s]
  BY DEF TypeOK, DataTypeOK, Seqs, Null, Grows
<1>2. \A d \in Defs : Folded(d, s, n) => Folded(d, s, n)'
  BY FoldedGrows
<1> QED BY <1>1, <1>2 DEF AckSafe, IsHistory, Deduplicated

LEMMA AckedGrows ==
  ASSUME TypeOK, DataTypeOK', Grows, AckedIsDurable, acked' = acked
  PROVE  AckedIsDurable'
<1>1. \A s \in Sources, n \in Seqs : n \in acked[s] => AckSafe(s, n)
  BY DEF AckedIsDurable, AckSafe
<1>2. \A s \in Sources, n \in Seqs : n \in acked[s] => AckSafe(s, n)'
  BY <1>1, AckSafeGrows
<1> QED BY <1>2 DEF AckedIsDurable, AckSafe

\* The task of s completes.
LEMMA CompleteSound ==
  ASSUME TypeOK, DataTypeOK', Grows, TasksSound, AckedIsDurable,
         NEW w \in Workers, NEW s \in Sources, NEW n \in Seqs,
         Complete(w, s), n = task[w][s].n, AckSafe(s, n)'
  PROVE  /\ task' \in [Workers -> [Sources -> Tasks]]
         /\ acked' \in [Sources -> SUBSET Seqs]
         /\ TasksSound'
         /\ AckedIsDurable'
<1>1. SetTask(w, s, IdleTask) /\ acked' = [acked EXCEPT ![s] = @ \cup {n}]
  BY DEF Complete
<1>2. TasksSound'
  BY <1>1, IdleTaskSound, TasksSoundAfter
<1>3. \A r \in Sources, m \in Seqs : m \in acked[r] => AckSafe(r, m)'
  <2>1. \A r \in Sources, m \in Seqs : m \in acked[r] => AckSafe(r, m)
    BY DEF AckedIsDurable, AckSafe
  <2> QED BY <2>1, AckSafeGrows
<1>4. \A r \in Sources, m \in Seqs : m \in acked'[r] => AckSafe(r, m)'
  BY <1>1, <1>3 DEF TypeOK
<1>5. AckedIsDurable'
  BY <1>4 DEF AckedIsDurable, AckSafe
<1> QED BY <1>1, <1>2, <1>5, IdleTaskSound, SetTaskType DEF TypeOK

\* The task of s goes on, in whatever way a call of SetTask describes.
LEMMA GoOnSound ==
  ASSUME TypeOK, DataTypeOK', Grows, TasksSound, AckedIsDurable,
         NEW w \in Workers, NEW s \in Sources, NEW t \in Tasks,
         SetTask(w, s, t), UNCHANGED acked, TaskSound(s, t)'
  PROVE  /\ task' \in [Workers -> [Sources -> Tasks]]
         /\ acked' \in [Sources -> SUBSET Seqs]
         /\ TasksSound'
         /\ AckedIsDurable'
BY SetTaskType, TasksSoundAfter, AckedGrows DEF TypeOK

\* The candidate is done: everything up to it is folded and covered.
LEMMA MoveOnSound ==
  ASSUME TypeOK, DataTypeOK', Grows, TasksSound, AckedIsDurable,
         NEW w \in Workers, NEW s \in Sources, NEW t \in Tasks, t = task[w][s],
         t.pc # "idle", t.at <= t.n, ~IsHistory(s, t.at),
         NEW covered \in Seqs \cup {Null}, covered <= coverage'[s], t.at <= coverage'[s],
         \A d \in Defs : FoldedBelow(d, s, t.at)' /\ Folded(d, s, t.at)',
         MoveOn(w, s, covered)
  PROVE  /\ task' \in [Workers -> [Sources -> Tasks]]
         /\ acked' \in [Sources -> SUBSET Seqs]
         /\ TasksSound'
         /\ AckedIsDurable'
<1>0. /\ t.at \in 0 .. MaxSeq /\ t.n \in 0 .. MaxSeq /\ t.def \in Defs
      /\ tail[s] \in Int /\ tail'[s] \in Int /\ tail[s] <= tail'[s]
      /\ t.n < tail[s] /\ MaxSeq \in Nat /\ StartAnchor[s] \in Nat
      /\ t.pc \in PCs /\ t.poll \in BOOLEAN
  BY ConstantsAssumption
     DEF ConstantsAssumption, Tasks, Seqs, TypeOK, DataTypeOK, Grows, TasksSound, TaskSound
<1>1. CASE t.at = t.n
  <2>1. Complete(w, s)
    BY <1>1 DEF MoveOn
  <2>2. AckSafe(s, t.n)'
    BY <1>1 DEF AckSafe, IsHistory
  <2> QED BY <2>1, <2>2, CompleteSound DEF Tasks
<1>2. CASE t.at # t.n
  <2> DEFINE u == [t EXCEPT !.pc = "dispatch", !.at = t.at + 1,
                            !.expected = covered, !.def = 1]
  <2>1. SetTask(w, s, u) /\ UNCHANGED acked
    BY <1>2 DEF MoveOn
  <2>2. u \in Tasks
    <3>1. t.at + 1 \in Seqs /\ 1 \in Defs /\ t.n \in Seqs
      BY SMTT(60), <1>0, <1>2, ConstantsAssumption DEF ConstantsAssumption, Seqs, Defs
    <3> QED BY <3>1, <1>0 DEF Tasks, PCs
  <2>3. /\ u.pc = "dispatch" /\ u.at = t.at + 1 /\ u.n = t.n
        /\ u.expected = covered /\ u.def = 1
    BY DEF Tasks
  <2>4. ASSUME NEW d \in Defs PROVE FoldedBelow(d, s, t.at + 1)'
    <3> SUFFICES ASSUME NEW b \in StartAnchor[s] .. (t.at + 1) - 1
                 PROVE  Folded(d, s, b)'
      BY DEF FoldedBelow
    <3>1. b = t.at \/ b \in StartAnchor[s] .. t.at - 1
      BY <1>0
    <3> QED BY <3>1 DEF FoldedBelow
  <2>5. ~IsHistory(s, t.at + 1)
    BY <1>0 DEF IsHistory
  <2> HIDE DEF u
  <2>6. \A d \in 1 .. u.def - 1 : FALSE
    BY <2>3
  <2>7. u.at <= u.n /\ u.n < tail'[s]
    BY <1>0, <1>2, <2>3
  <2>8. ~IsHistory(s, u.at)'
    BY <2>3, <2>5 DEF IsHistory
  <2>9. TaskSound(s, u)'
    BY <2>3, <2>4, <2>6, <2>7, <2>8 DEF TaskSound
  <2> QED BY <2>1, <2>2, <2>9, GoOnSound
<1> QED BY <1>1, <1>2

\* One definition has taken the candidate.
LEMMA NextDefinitionSound ==
  ASSUME TypeOK, DataTypeOK', Grows, TasksSound, AckedIsDurable,
         NEW w \in Workers, NEW s \in Sources, NEW t \in Tasks, t = task[w][s],
         t.pc = "dispatch", coverage' = coverage,
         IF IsHistory(s, t.at) THEN t.def \notin Deduplicated => Folded(t.def, s, t.at)'
         ELSE Folded(t.def, s, t.at)',
         NextDefinition(w, s)
  PROVE  /\ task' \in [Workers -> [Sources -> Tasks]]
         /\ acked' \in [Sources -> SUBSET Seqs]
         /\ TasksSound'
         /\ AckedIsDurable'
<1>1. /\ TaskSound(s, t)' /\ TaskSound(s, t)
  BY TaskSoundGrows DEF TasksSound
<1>0. /\ t.at \in 0 .. MaxSeq /\ t.n \in Seqs /\ t.def \in 1 .. NumDefs
      /\ t.expected \in Seqs \cup {Null} /\ t.expected \in Int
      /\ coverage[s] \in Int /\ t.expected <= coverage[s] /\ t.at <= t.n
      /\ MaxSeq \in Nat /\ NumDefs \in Nat
  BY <1>1, ConstantsAssumption
     DEF ConstantsAssumption, Tasks, Seqs, Null, Defs, TypeOK, TaskSound
<1>h. IsHistory(s, t.at)' = IsHistory(s, t.at) /\ Deduplicated' = Deduplicated
  BY DEF IsHistory, Deduplicated
<1>2. CASE t.def < NumDefs
  <2> DEFINE u == [t EXCEPT !.def = t.def + 1]
  <2>1. SetTask(w, s, u) /\ UNCHANGED acked
    BY <1>2 DEF NextDefinition
  <2>2. u \in Tasks
    <3>1. t.def + 1 \in Defs
      BY <1>0, <1>2 DEF Defs
    <3> QED BY <3>1 DEF Tasks
  <2>3. /\ u.pc = "dispatch" /\ u.at = t.at /\ u.n = t.n
        /\ u.expected = t.expected /\ u.def = t.def + 1
    BY DEF Tasks
  <2>4. \A d \in 1 .. u.def - 1 : d \in 1 .. t.def - 1 \/ d = t.def
    BY <2>3, <1>0
  <2> HIDE DEF u
  <2>5. TaskSound(s, u)'
    BY <2>3, <2>4, <1>1, <1>h DEF TaskSound
  <2> QED BY <2>1, <2>2, <2>5, GoOnSound
<1>3. CASE t.def >= NumDefs
  <2>0. t.def = NumDefs /\ ~(t.def < NumDefs)
    BY <1>0, <1>3
  <2>a. \A d \in Defs : d \in 1 .. t.def - 1 \/ d = t.def
    BY <2>0, <1>0 DEF Defs
  <2>1. CASE IsHistory(s, t.at)
    <3>1. Complete(w, s)
      BY <2>0, <2>1 DEF NextDefinition
    <3>2. t.at = t.n
      BY <1>1, <2>1 DEF TaskSound
    <3>3. AckSafe(s, t.n)'
      BY <3>2, <2>1, <2>a, <1>1, <1>h DEF AckSafe, TaskSound
    <3> QED BY <3>1, <3>3, <1>0, CompleteSound
  <2>2. CASE ~IsHistory(s, t.at)
    <3>1. \A d \in Defs : FoldedBelow(d, s, t.at)' /\ Folded(d, s, t.at)'
      BY <2>2, <2>a, <1>1, <1>h DEF TaskSound
    <3>2. CASE t.at <= t.expected
      <4>1. MoveOn(w, s, t.expected)
        BY <2>0, <2>2, <3>2 DEF NextDefinition
      <4>2. t.expected <= coverage'[s] /\ t.at <= coverage'[s]
        BY <1>0, <3>2
      <4> QED BY <4>1, <4>2, <3>1, <2>2, <1>0, MoveOnSound
    <3>3. CASE ~(t.at <= t.expected)
      <4> DEFINE u == [t EXCEPT !.pc = "advance"]
      <4>1. SetTask(w, s, u) /\ UNCHANGED acked
        BY <2>0, <2>2, <3>3 DEF NextDefinition
      <4>2. u \in Tasks
        BY DEF Tasks, PCs
      <4>3. /\ u.pc = "advance" /\ u.at = t.at /\ u.n = t.n
            /\ u.expected = t.expected /\ u.def = t.def
        BY DEF Tasks
      <4>4. t.expected < t.at
        BY <1>0, <3>3
      <4> HIDE DEF u
      <4>5. TaskSound(s, u)'
        BY <4>3, <4>4, <3>1, <2>2, <1>1, <1>h DEF TaskSound
      <4> QED BY <4>1, <4>2, <4>5, GoOnSound
    <3> QED BY <3>2, <3>3
  <2> QED BY <2>1, <2>2
<1>4. t.def < NumDefs \/ t.def >= NumDefs
  BY <1>0
<1> QED BY <1>2, <1>3, <1>4

-----------------------------------------------------------------------------
\* The initial state.
LEMMA InitSound == Init => IInv
<1> SUFFICES ASSUME Init PROVE IInv
  OBVIOUS
<1> USE ConstantsAssumption DEF ConstantsAssumption, Init
<1>1. TypeOK
  BY IdleTaskSound DEF TypeOK, Seqs, ManyFolds
<1>2. /\ \A d \in Defs, t \in Targets, s \in Sources, c \in Seqs : folds[d][t][s][c] = 0
      /\ \A d \in Defs, s \in Sources : ownRecord[d][s] = -1
      /\ \A d \in Defs, t \in Targets, s \in Sources : marker[d][t][s] = -1
      /\ \A s \in Sources : coverage[s] = -1 /\ acked[s] = {} /\ StartAnchor[s] \in Nat
  BY DEF Null
<1>3. ExactlyOnceInOrder
  BY <1>2 DEF ExactlyOnceInOrder
<1>4. OwnRecordSound
  BY <1>2 DEF OwnRecordSound
<1>5. MarkerSound
  BY <1>2 DEF MarkerSound
<1>6. CoverageSound
  BY <1>2 DEF CoverageSound, FoldedBelow, Null
<1>7. TasksSound
  BY IdleTaskSound DEF TasksSound
<1>8. AckedIsDurable
  BY <1>2 DEF AckedIsDurable
<1> QED BY <1>1, <1>3, <1>4, <1>5, <1>6, <1>7, <1>8 DEF IInv

\* Steps that leave the store's documents and coverage alone.
LEMMA QuietStepSound ==
  ASSUME IInv, DataTypeOK', Grows, UNCHANGED durable, faults' \in 0 .. MaxFaults,
         task' \in [Workers -> [Sources -> Tasks]],
         acked' \in [Sources -> SUBSET Seqs],
         TasksSound', AckedIsDurable'
  PROVE  IInv'
<1>1. TypeOK'
  BY DEF TypeOK, DataTypeOK
<1>2. ExactlyOnceInOrder'
  BY DEF IInv, durable, ExactlyOnceInOrder, Folded, Deduplicated, IsHistory
<1>3. OwnRecordSound'
  BY DEF IInv, durable, OwnRecordSound, Folded
<1>4. MarkerSound'
  BY DEF IInv, durable, MarkerSound
<1>5. CoverageSound'
  BY CoverageSoundGrows DEF IInv, durable
<1> QED BY <1>1, <1>2, <1>3, <1>4, <1>5 DEF IInv

\* Nothing shrinks when nothing but tasks and reports change.
LEMMA QuietGrows ==
  ASSUME TypeOK, UNCHANGED durable, UNCHANGED tail
  PROVE  DataTypeOK' /\ Grows
<1>1. \A s \in Sources : coverage[s] \in Int /\ tail[s] \in Int
  BY DEF TypeOK, Seqs, Null
<1> QED BY <1>1 DEF TypeOK, DataTypeOK, Grows, durable

LEMMA AppendCommitSound ==
  ASSUME IInv, NEW s \in Sources, AppendCommit(s) PROVE IInv'
<1> USE ConstantsAssumption DEF ConstantsAssumption
<1>1. \A r \in Sources : coverage[r] \in Int /\ tail[r] \in 0 .. MaxSeq + 1
  BY DEF IInv, TypeOK, Seqs, Null
<1>2. DataTypeOK' /\ Grows
  BY <1>1 DEF IInv, TypeOK, DataTypeOK, Grows, AppendCommit, durable
<1>3. AckedIsDurable'
  BY <1>2, AckedGrows DEF IInv, AppendCommit
<1>4. TasksSound'
  <2> SUFFICES ASSUME NEW v \in Workers, NEW r \in Sources
               PROVE  TaskSound(r, task[v][r])'
    BY DEF TasksSound
  <2>1. PICK k \in Tasks : k = task[v][r] /\ TaskSound(r, k)
    BY DEF IInv, TypeOK, TasksSound
  <2>2. TaskSound(r, k)'
    BY <1>2, <2>1, TaskSoundGrows DEF IInv
  <2>3. task'[v][r] = k
    BY <2>1 DEF AppendCommit
  <2> QED BY <2>2, <2>3
<1> QED BY <1>2, <1>3, <1>4, QuietStepSound DEF AppendCommit, IInv, TypeOK

\* A task goes from one record to another without touching the store.
LEMMA QuietTaskStep ==
  ASSUME IInv, UNCHANGED <<tail, durable, acked>>, faults' \in 0 .. MaxFaults,
         NEW w \in Workers, NEW s \in Sources, NEW t \in Tasks,
         SetTask(w, s, t), TaskSound(s, t)
  PROVE  IInv'
<1>1. DataTypeOK' /\ Grows
  BY QuietGrows DEF IInv
<1>2. TaskSound(s, t)'
  BY <1>1, TaskSoundGrows DEF IInv
<1> QED BY <1>1, <1>2, GoOnSound, QuietStepSound DEF IInv

LEMMA ReceiveSound ==
  ASSUME IInv, NEW w \in Workers, NEW s \in Sources, NEW n \in Seqs,
         NEW poll \in BOOLEAN, Receive(w, s, n, poll)
  PROVE  IInv'
<1> DEFINE t == [IdleTask EXCEPT !.pc = "admit", !.n = n, !.poll = poll, !.at = n]
<1>1. t \in Tasks /\ t.pc = "admit" /\ t.n = n /\ t.at = n /\ t.def = 1
  BY IdleTaskSound DEF Tasks, PCs, IdleTask
<1>2. SetTask(w, s, t) /\ UNCHANGED <<tail, durable, acked, faults>> /\ n < tail[s]
  BY DEF Receive
<1> HIDE DEF t
<1>3. TaskSound(s, t)
  BY <1>1, <1>2 DEF TaskSound
<1> QED BY <1>1, <1>2, <1>3, QuietTaskStep DEF IInv, TypeOK

LEMMA AdmitSound ==
  ASSUME IInv, NEW w \in Workers, NEW s \in Sources, Admit(w, s) PROVE IInv'
<1> DEFINE t == task[w][s]
           u == AdmittedTask(t, s)
<1>0. /\ t \in Tasks /\ TaskSound(s, t) /\ t.pc = "admit"
      /\ t.at = t.n /\ t.n \in 0 .. MaxSeq /\ t.def = 1 /\ t.n < tail[s]
      /\ StartAnchor[s] \in Nat /\ MaxSeq \in Nat
      /\ coverage[s] \in -1 .. MaxSeq /\ coverage[s] \in Seqs \cup {Null}
      /\ UNCHANGED <<tail, durable, faults>>
  BY ConstantsAssumption
     DEF ConstantsAssumption, Admit, IInv, TypeOK, TasksSound, TaskSound, Tasks, Seqs, Null
<1>1. /\ coverage[s] # Null => After(s) = coverage[s] /\ StartAnchor[s] <= coverage[s]
      /\ coverage[s] = Null => After(s) = StartAnchor[s] - 1
      /\ After(s) \in Int /\ coverage[s] <= After(s) /\ StartAnchor[s] <= After(s) + 1
  BY <1>0 DEF IInv, CoverageSound, After, Null
<1>2. CASE ~IsHistory(s, t.n) /\ t.poll /\ t.n <= After(s)
  <2>1. Complete(w, s)
    BY <1>2 DEF Admit
  <2>2. t.n <= coverage[s]
    BY <1>0, <1>1, <1>2 DEF IsHistory
  <2>3. DataTypeOK' /\ Grows
    BY <1>0, QuietGrows DEF IInv
  <2>4. PICK n \in Seqs : n = t.n /\ AckSafe(s, n)
    BY <1>0, <1>2, <2>2 DEF AckSafe, Seqs
  <2>5. AckSafe(s, n)'
    BY <2>3, <2>4, AckSafeGrows DEF IInv
  <2> QED BY <1>0, <2>1, <2>3, <2>4, <2>5, CompleteSound, QuietStepSound DEF IInv, TypeOK
<1>3. CASE ~(~IsHistory(s, t.n) /\ t.poll /\ t.n <= After(s))
  <2>1. SetTask(w, s, u) /\ UNCHANGED acked
    BY <1>3 DEF Admit
  <2> DEFINE ahead == ~IsHistory(s, t.n) /\ t.n > After(s) + 1
  <2>2. u = [t EXCEPT !.pc = IF ahead THEN "gap" ELSE "dispatch",
                      !.at = IF ahead THEN After(s) + 1 ELSE t.n,
                      !.expected = coverage[s]]
    BY DEF AdmittedTask
  <2>3. (IF ahead THEN After(s) + 1 ELSE t.n) \in Seqs
    BY <1>0, <1>1 DEF Seqs
  <2>4. /\ u \in Tasks
        /\ u.pc = IF ahead THEN "gap" ELSE "dispatch"
        /\ u.at = IF ahead THEN After(s) + 1 ELSE t.n
        /\ u.expected = coverage[s] /\ u.n = t.n /\ u.def = 1
    <3> HIDE DEF ahead, u
    <3> QED BY <1>0, <2>2, <2>3 DEF Tasks, PCs
  <2>5. \A d \in Defs : \A b \in StartAnchor[s] .. After(s) : Folded(d, s, b)
    <3> TAKE d \in Defs
    <3>1. \A b \in StartAnchor[s] .. (coverage[s] + 1) - 1 : Folded(d, s, b)
      BY DEF IInv, CoverageSound, FoldedBelow
    <3> QED BY <3>1, <1>0, <1>1
  <2>6. \A d \in Defs : FoldedBelow(d, s, u.at)
    BY <2>4, <2>5, <1>0, <1>1 DEF FoldedBelow, IsHistory
  <2> HIDE DEF u
  <2>7. \A d \in 1 .. u.def - 1 : FALSE
    BY <2>4
  <2>8. u.expected <= coverage[s]
    BY <2>4, <1>0
  <2>9. CASE ahead
    <3>1. StartAnchor[s] <= u.at /\ u.at <= u.n
      BY <2>4, <2>9, <1>0, <1>1
    <3>2. TaskSound(s, u)
      BY <2>4, <2>6, <2>8, <2>9, <3>1, <1>0 DEF TaskSound
    <3> QED BY <2>1, <2>4, <3>2, <1>0, QuietTaskStep DEF IInv, TypeOK
  <2>10. CASE ~ahead
    <3>1. TaskSound(s, u)
      BY <2>4, <2>6, <2>7, <2>8, <2>10, <1>0 DEF TaskSound
    <3> QED BY <2>1, <2>4, <3>1, <1>0, QuietTaskStep DEF IInv, TypeOK
  <2> QED BY <2>9, <2>10
<1> QED BY <1>2, <1>3

\* A task that gives up leaves nothing to rely on.
LEMMA GiveUpSound ==
  ASSUME IInv, UNCHANGED <<tail, durable, acked>>, faults' \in 0 .. MaxFaults,
         NEW w \in Workers, NEW s \in Sources, SetTask(w, s, IdleTask)
  PROVE  IInv'
BY IdleTaskSound, QuietTaskStep

LEMMA ReadGapSound ==
  ASSUME IInv, NEW w \in Workers, NEW s \in Sources, ReadGap(w, s) PROVE IInv'
<1> DEFINE t == task[w][s]
           u == [t EXCEPT !.pc = "dispatch"]
<1>0. /\ t \in Tasks /\ TaskSound(s, t) /\ t.pc = "gap"
      /\ UNCHANGED <<tail, durable, acked, faults>> /\ faults' \in 0 .. MaxFaults
      /\ t.at \in Int /\ t.n \in Int /\ StartAnchor[s] \in Int
  BY ConstantsAssumption
     DEF ConstantsAssumption, ReadGap, IInv, TypeOK, TasksSound, Tasks, Seqs
<1>1. CASE t.n - t.at <= MaxGapCommits
  <2>1. SetTask(w, s, u)
    BY <1>1 DEF ReadGap
  <2>2. /\ u \in Tasks /\ u.pc = "dispatch" /\ u.at = t.at /\ u.n = t.n
        /\ u.expected = t.expected /\ u.def = t.def
    BY <1>0 DEF Tasks, PCs
  <2> HIDE DEF u
  <2>3. ~IsHistory(s, u.at)
    BY <1>0, <2>2 DEF IsHistory, TaskSound
  <2>4. \A d \in 1 .. u.def - 1 : FALSE
    BY <1>0, <2>2 DEF TaskSound
  <2>5. TaskSound(s, u)
    BY <1>0, <2>2, <2>3, <2>4 DEF TaskSound
  <2> QED BY <1>0, <2>1, <2>2, <2>5, QuietTaskStep
<1>2. CASE ~(t.n - t.at <= MaxGapCommits)
  <2>1. SetTask(w, s, IdleTask)
    BY <1>2 DEF ReadGap
  <2> QED BY <1>0, <2>1, GiveUpSound
<1> QED BY <1>1, <1>2

\* What a task that is dispatching knows about its candidate.
LEMMA CandidateFacts ==
  ASSUME IInv, NEW w \in Workers, NEW s \in Sources, NEW t \in Tasks, t = task[w][s],
         t.pc \in {"dispatch", "advance", "cas", "reconcile"}
  PROVE  /\ t.at \in Seqs /\ t.at <= t.n /\ t.n < tail[s] /\ t.def \in Defs
         /\ TaskSound(s, t)
         /\ ~IsHistory(s, t.at) => \A d \in Defs : FoldedBelow(d, s, t.at)
BY DEF IInv, TypeOK, TasksSound, TaskSound, Tasks

\* A definition commits its fold of the candidate, whatever the task then does.
LEMMA FoldCandidate ==
  ASSUME IInv, NEW w \in Workers, NEW s \in Sources, NEW t \in Tasks, t = task[w][s],
         t.pc = "dispatch", ~Skips(t.def, s, t.at),
         ApplyCommit(t.def, s, t.at), UNCHANGED tail
  PROVE  /\ DataTypeOK' /\ Grows /\ coverage' = coverage
         /\ Folded(t.def, s, t.at)'
         /\ ExactlyOnceInOrder' /\ OwnRecordSound' /\ MarkerSound' /\ CoverageSound'
<1>1. t.at \in Seqs /\ t.def \in Defs
  BY DEF Tasks
<1>2. FoldedBelow(t.def, s, t.at) \/ t.def \notin Deduplicated
  BY <1>1, CandidateFacts DEF Skips, Deduplicated
<1>3. ~IsHistory(s, t.at) \/ t.def \notin Deduplicated
  BY DEF Skips, Deduplicated
<1>4. /\ \A e \in Defs, x \in Targets, r \in Sources, b \in Seqs :
           folds[e][x][r][b] > 0 => folds'[e][x][r][b] > 0
      /\ Folded(t.def, s, t.at)'
      /\ ExactlyOnceInOrder' /\ OwnRecordSound' /\ MarkerSound'
  BY <1>1, <1>2, <1>3, ApplyCommitSound DEF IInv
<1>5. DataTypeOK' /\ coverage' = coverage
  BY <1>1, ApplyCommitEffect DEF IInv, TypeOK, DataTypeOK
<1>6. \A r \in Sources : coverage[r] \in Int /\ tail[r] \in Int
  BY DEF IInv, TypeOK, Seqs, Null
<1>7. Grows
  BY <1>4, <1>5, <1>6 DEF Grows
<1>8. CoverageSound'
  BY <1>5, <1>7, CoverageSoundGrows DEF IInv
<1> QED BY <1>4, <1>5, <1>7, <1>8

LEMMA DispatchSound ==
  ASSUME IInv, NEW w \in Workers, NEW s \in Sources, Dispatch(w, s) PROVE IInv'
<1>0. PICK t \in Tasks : t = task[w][s] /\ t.pc = "dispatch"
  BY DEF IInv, TypeOK, Dispatch
<1>a. UNCHANGED <<tail, faults>> /\ faults' \in 0 .. MaxFaults
  BY DEF Dispatch, IInv, TypeOK
<1>1. CASE /\ Skips(t.def, s, t.at) /\ NextDefinition(w, s) /\ UNCHANGED durable
  <2>1. DataTypeOK' /\ Grows /\ coverage' = coverage
    BY <1>1, <1>a, QuietGrows DEF IInv, durable
  <2>2. IsHistory(s, t.at) /\ t.def \in Deduplicated
    BY <1>0, <1>1 DEF Skips, Deduplicated, Tasks
  <2> QED BY <1>0, <1>a, <1>1, <2>1, <2>2, NextDefinitionSound, QuietStepSound DEF IInv
<1>2. CASE SetTask(w, s, IdleTask) /\ UNCHANGED <<durable, acked>>
  BY <1>a, <1>2, GiveUpSound
<1>3. CASE /\ ~Skips(t.def, s, t.at) /\ ApplyCommit(t.def, s, t.at)
           /\ NextDefinition(w, s)
  <2>1. /\ DataTypeOK' /\ Grows /\ coverage' = coverage /\ Folded(t.def, s, t.at)'
        /\ ExactlyOnceInOrder' /\ OwnRecordSound' /\ MarkerSound' /\ CoverageSound'
    BY <1>0, <1>a, <1>3, FoldCandidate
  <2>2. /\ task' \in [Workers -> [Sources -> Tasks]]
        /\ acked' \in [Sources -> SUBSET Seqs]
        /\ TasksSound' /\ AckedIsDurable'
    BY <1>0, <1>3, <2>1, NextDefinitionSound DEF IInv
  <2> QED BY <1>a, <2>1, <2>2 DEF IInv, TypeOK, DataTypeOK
<1> QED BY <1>0, <1>1, <1>2, <1>3 DEF Dispatch

LEMMA AdvanceReadSound ==
  ASSUME IInv, NEW w \in Workers, NEW s \in Sources, AdvanceRead(w, s) PROVE IInv'
<1>0. PICK t \in Tasks : t = task[w][s] /\ t.pc = "advance" /\ TaskSound(s, t)
  BY DEF IInv, TypeOK, TasksSound, AdvanceRead
<1>a. UNCHANGED <<tail, durable, acked, faults>> /\ faults' \in 0 .. MaxFaults
  BY DEF AdvanceRead, IInv, TypeOK
<1> DEFINE u == [t EXCEPT !.pc = "cas"]
<1>1. CASE coverage[s] = t.expected /\ t.at = After(s) + 1
  <2>1. SetTask(w, s, u)
    BY <1>0, <1>1 DEF AdvanceRead
  <2>2. /\ u \in Tasks /\ u.pc = "cas" /\ u.at = t.at /\ u.n = t.n
        /\ u.expected = t.expected /\ u.def = t.def
    BY DEF Tasks, PCs
  <2>3. t.at = IF t.expected = Null THEN StartAnchor[s] ELSE t.expected + 1
    BY <1>1, ConstantsAssumption DEF ConstantsAssumption, After
  <2> HIDE DEF u
  <2>4. TaskSound(s, u)
    BY <1>0, <2>2, <2>3 DEF TaskSound
  <2> QED BY <1>a, <2>1, <2>2, <2>4, QuietTaskStep
<1>2. CASE ~(coverage[s] = t.expected /\ t.at = After(s) + 1)
  <2>1. SetTask(w, s, IdleTask)
    BY <1>0, <1>2 DEF AdvanceRead
  <2> QED BY <1>a, <2>1, GiveUpSound
<1> QED BY <1>1, <1>2

\* The coverage row moves to a candidate everybody has folded.
LEMMA CoverCandidate ==
  ASSUME IInv, NEW w \in Workers, NEW s \in Sources, NEW t \in Tasks, t = task[w][s],
         t.pc = "cas", coverage[s] = t.expected,
         coverage' = [coverage EXCEPT ![s] = t.at],
         UNCHANGED <<tail, ownRecord, marker, folds>>
  PROVE  /\ DataTypeOK' /\ Grows /\ coverage'[s] = t.at
         /\ ExactlyOnceInOrder' /\ OwnRecordSound' /\ MarkerSound' /\ CoverageSound'
<1>0. /\ TaskSound(s, t) /\ t.at \in 0 .. MaxSeq /\ t.n \in Int /\ t.expected \in Int
      /\ t.at <= t.n /\ t.n < tail[s] /\ t.expected < t.at
      /\ StartAnchor[s] <= t.at /\ StartAnchor[s] \in Nat
      /\ \A r \in Sources : coverage[r] \in Int /\ tail[r] \in Int
  <2>1. TaskSound(s, t) /\ t.at \in Seqs /\ t.at <= t.n /\ t.n < tail[s]
    BY CandidateFacts
  <2>2. t.expected < t.at /\ ~IsHistory(s, t.at)
    BY <2>1 DEF TaskSound
  <2>3. /\ t.at \in 0 .. MaxSeq /\ t.n \in Int /\ t.expected \in Int
        /\ \A r \in Sources : coverage[r] \in Int /\ tail[r] \in Int
        /\ StartAnchor[s] \in Nat
    <3>1. t.at \in Seqs /\ t.n \in Seqs /\ t.expected \in Seqs \cup {Null}
      BY DEF Tasks
    <3>2. \A r \in Sources : coverage[r] \in Int /\ tail[r] \in Int
      BY DEF IInv, TypeOK, Seqs, Null
    <3> QED BY <3>1, <3>2, ConstantsAssumption DEF ConstantsAssumption, Seqs, Null
  <2>4. StartAnchor[s] <= t.at
    BY <2>2, <2>3 DEF IsHistory
  <2> QED BY <2>1, <2>2, <2>3, <2>4
<1>1. DataTypeOK'
  BY DEF IInv, TypeOK, DataTypeOK, Tasks
<1>2. \A r \in Sources : coverage'[r] = IF r = s THEN t.at ELSE coverage[r]
  BY DEF IInv, TypeOK
<1>3. Grows
  BY <1>0, <1>2 DEF Grows
<1>4. ExactlyOnceInOrder' /\ OwnRecordSound' /\ MarkerSound'
  BY DEF IInv, ExactlyOnceInOrder, OwnRecordSound, MarkerSound, Folded, Deduplicated, IsHistory
<1>5. CoverageSound'
  <2> SUFFICES ASSUME NEW r \in Sources
               PROVE  /\ coverage'[r] # Null =>
                           StartAnchor[r] <= coverage'[r] /\ coverage'[r] < tail[r]
                      /\ \A d \in Defs : \A b \in StartAnchor[r] .. (coverage'[r] + 1) - 1 :
                           Folded(d, r, b)
    BY DEF CoverageSound, FoldedBelow, Folded
  <2>1. CASE r = s
    <3>1. \A d \in Defs : \A b \in StartAnchor[s] .. (t.at + 1) - 1 :
            b = t.at \/ b \in StartAnchor[s] .. t.at - 1
      BY <1>0
    <3>2. \A d \in Defs : Folded(d, s, t.at) /\ FoldedBelow(d, s, t.at)
      BY <1>0 DEF TaskSound, IsHistory
    <3> QED BY <2>1, <1>0, <1>2, <3>1, <3>2 DEF FoldedBelow
  <2>2. CASE r # s
    BY <2>2, <1>2 DEF IInv, CoverageSound, FoldedBelow
  <2> QED BY <2>1, <2>2
<1> QED BY <1>1, <1>2, <1>3, <1>4, <1>5

LEMMA AdvanceCasSound ==
  ASSUME IInv, NEW w \in Workers, NEW s \in Sources, AdvanceCas(w, s) PROVE IInv'
<1>0. PICK t \in Tasks : t = task[w][s] /\ t.pc = "cas" /\ TaskSound(s, t)
  BY DEF IInv, TypeOK, TasksSound, AdvanceCas
<1>a. UNCHANGED <<tail, ownRecord, marker, folds, faults>> /\ faults' \in 0 .. MaxFaults
  BY DEF AdvanceCas, IInv, TypeOK
<1>1. CASE coverage[s] = t.expected
  <2>1. coverage' = [coverage EXCEPT ![s] = t.at] /\ MoveOn(w, s, t.at)
    BY <1>0, <1>1 DEF AdvanceCas
  <2>2. /\ DataTypeOK' /\ Grows /\ coverage'[s] = t.at
        /\ ExactlyOnceInOrder' /\ OwnRecordSound' /\ MarkerSound' /\ CoverageSound'
    BY <1>0, <1>a, <1>1, <2>1, CoverCandidate
  <2>3. t.at <= t.n /\ t.at \in Seqs /\ t.at <= coverage'[s] /\ ~IsHistory(s, t.at)
    BY <1>0, <2>2 DEF TaskSound, Tasks, Seqs
  <2>4. \A d \in Defs : FoldedBelow(d, s, t.at)' /\ Folded(d, s, t.at)'
    BY <1>0, <2>2, <2>3, TaskSoundGrows DEF IInv, TaskSound, IsHistory
  <2>5. /\ task' \in [Workers -> [Sources -> Tasks]]
        /\ acked' \in [Sources -> SUBSET Seqs]
        /\ TasksSound' /\ AckedIsDurable'
    BY <1>0, <2>1, <2>2, <2>3, <2>4, MoveOnSound DEF IInv
  <2> QED BY <1>a, <2>2, <2>5 DEF IInv, TypeOK, DataTypeOK
<1>2. CASE coverage[s] # t.expected
  <2> DEFINE u == [t EXCEPT !.pc = "reconcile"]
  <2>1. SetTask(w, s, u) /\ UNCHANGED <<coverage, acked>>
    BY <1>0, <1>2 DEF AdvanceCas
  <2>2. /\ u \in Tasks /\ u.pc = "reconcile" /\ u.at = t.at /\ u.n = t.n
        /\ u.expected = t.expected /\ u.def = t.def
    BY DEF Tasks, PCs
  <2> HIDE DEF u
  <2>3. TaskSound(s, u)
    BY <1>0, <2>2 DEF TaskSound
  <2> QED BY <1>a, <2>1, <2>2, <2>3, QuietTaskStep DEF durable
<1> QED BY <1>1, <1>2

LEMMA ReconcileSound ==
  ASSUME IInv, NEW w \in Workers, NEW s \in Sources, Reconcile(w, s) PROVE IInv'
<1>0. PICK t \in Tasks : t = task[w][s] /\ t.pc = "reconcile" /\ TaskSound(s, t)
  BY DEF IInv, TypeOK, TasksSound, Reconcile
<1>a. UNCHANGED <<tail, durable, faults>> /\ faults' \in 0 .. MaxFaults
  BY DEF Reconcile, IInv, TypeOK
<1>1. CASE coverage[s] = t.at
  <2>1. MoveOn(w, s, t.at)
    BY <1>0, <1>1 DEF Reconcile
  <2>2. DataTypeOK' /\ Grows /\ coverage' = coverage
    BY <1>a, QuietGrows DEF IInv, durable
  <2>3. t.at <= t.n /\ t.at \in Seqs /\ t.at <= coverage'[s] /\ ~IsHistory(s, t.at)
    BY <1>0, <1>1, <2>2 DEF TaskSound, Tasks, Seqs
  <2>4. \A d \in Defs : FoldedBelow(d, s, t.at)' /\ Folded(d, s, t.at)'
    BY <1>0, <2>2, <2>3, TaskSoundGrows DEF IInv, TaskSound, IsHistory
  <2>5. /\ task' \in [Workers -> [Sources -> Tasks]]
        /\ acked' \in [Sources -> SUBSET Seqs]
        /\ TasksSound' /\ AckedIsDurable'
    BY <1>0, <2>1, <2>2, <2>3, <2>4, MoveOnSound DEF IInv
  <2> QED BY <1>a, <2>2, <2>5, QuietStepSound
<1>2. CASE coverage[s] # t.at
  <2>1. SetTask(w, s, IdleTask) /\ UNCHANGED acked
    BY <1>0, <1>2 DEF Reconcile
  <2> QED BY <1>a, <2>1, GiveUpSound
<1> QED BY <1>1, <1>2

-----------------------------------------------------------------------------
\* The faults.
LEMMA FaultType == ASSUME IInv, Fault PROVE faults' \in 0 .. MaxFaults
BY ConstantsAssumption DEF ConstantsAssumption, IInv, TypeOK, Fault

LEMMA CallFailsSound ==
  ASSUME IInv, NEW w \in Workers, NEW s \in Sources, CallFails(w, s) PROVE IInv'
BY FaultType, GiveUpSound DEF CallFails

LEMMA CommitReplyLostSound ==
  ASSUME IInv, NEW w \in Workers, NEW s \in Sources, CommitReplyLost(w, s) PROVE IInv'
<1>0. PICK t \in Tasks : t = task[w][s] /\ t.pc = "dispatch"
  BY DEF IInv, TypeOK, CommitReplyLost
<1>a. UNCHANGED <<tail, acked>> /\ faults' \in 0 .. MaxFaults
  BY FaultType DEF CommitReplyLost
<1>1. /\ DataTypeOK' /\ Grows
      /\ ExactlyOnceInOrder' /\ OwnRecordSound' /\ MarkerSound' /\ CoverageSound'
  BY <1>0, <1>a, FoldCandidate DEF CommitReplyLost
<1>2. /\ task' \in [Workers -> [Sources -> Tasks]]
      /\ acked' \in [Sources -> SUBSET Seqs]
      /\ TasksSound' /\ AckedIsDurable'
  BY <1>a, <1>1, IdleTaskSound, GoOnSound DEF IInv, CommitReplyLost
<1> QED BY <1>a, <1>1, <1>2 DEF IInv, TypeOK, DataTypeOK

LEMMA CasReplyLostSound ==
  ASSUME IInv, NEW w \in Workers, NEW s \in Sources, CasReplyLost(w, s) PROVE IInv'
<1>0. PICK t \in Tasks : t = task[w][s] /\ t.pc = "cas" /\ TaskSound(s, t)
  BY DEF IInv, TypeOK, TasksSound, CasReplyLost
<1>a. UNCHANGED <<tail, ownRecord, marker, folds, acked>> /\ faults' \in 0 .. MaxFaults
  BY FaultType DEF CasReplyLost
<1> DEFINE u == [t EXCEPT !.pc = "reconcile"]
<1>1. SetTask(w, s, u)
  BY <1>0 DEF CasReplyLost
<1>2. /\ u \in Tasks /\ u.pc = "reconcile" /\ u.at = t.at /\ u.n = t.n
      /\ u.expected = t.expected /\ u.def = t.def
  BY DEF Tasks, PCs
<1> HIDE DEF u
<1>3. TaskSound(s, u)
  BY <1>0, <1>2 DEF TaskSound
<1>4. CASE coverage[s] = t.expected
  <2>1. coverage' = [coverage EXCEPT ![s] = t.at]
    BY <1>0, <1>4 DEF CasReplyLost
  <2>2. /\ DataTypeOK' /\ Grows
        /\ ExactlyOnceInOrder' /\ OwnRecordSound' /\ MarkerSound' /\ CoverageSound'
    BY <1>0, <1>a, <1>4, <2>1, CoverCandidate
  <2>3. TaskSound(s, u)'
    BY <1>2, <1>3, <2>2, TaskSoundGrows DEF IInv
  <2>4. /\ task' \in [Workers -> [Sources -> Tasks]]
        /\ acked' \in [Sources -> SUBSET Seqs]
        /\ TasksSound' /\ AckedIsDurable'
    BY <1>a, <1>1, <1>2, <2>2, <2>3, GoOnSound DEF IInv
  <2> QED BY <1>a, <2>2, <2>4 DEF IInv, TypeOK, DataTypeOK
<1>5. CASE coverage[s] # t.expected
  <2>1. coverage' = coverage
    BY <1>0, <1>5 DEF CasReplyLost
  <2> QED BY <1>a, <1>1, <1>2, <1>3, <2>1, QuietTaskStep DEF durable
<1> QED BY <1>4, <1>5

LEMMA CrashSound ==
  ASSUME IInv, NEW w \in Workers, Crash(w) PROVE IInv'
<1>a. UNCHANGED <<tail, durable, acked>> /\ faults' \in 0 .. MaxFaults
  BY FaultType DEF Crash
<1>1. DataTypeOK' /\ Grows
  BY <1>a, QuietGrows DEF IInv
<1>2. \A v \in Workers, r \in Sources :
        task'[v][r] = IF v = w THEN IdleTask ELSE task[v][r]
  BY DEF Crash, IInv, TypeOK
<1>3. task' \in [Workers -> [Sources -> Tasks]]
  BY IdleTaskSound DEF Crash, IInv, TypeOK
<1>4. TasksSound'
  <2> SUFFICES ASSUME NEW v \in Workers, NEW r \in Sources
               PROVE  TaskSound(r, task[v][r])'
    BY DEF TasksSound
  <2>1. PICK k \in Tasks : k = task'[v][r] /\ TaskSound(r, k)
    <3>1. CASE v = w
      BY <3>1, <1>2, IdleTaskSound
    <3>2. CASE v # w
      <4>1. task[v][r] \in Tasks /\ TaskSound(r, task[v][r])
        BY DEF IInv, TypeOK, TasksSound
      <4> QED BY <3>2, <4>1, <1>2
    <3> QED BY <3>1, <3>2
  <2>2. TaskSound(r, k)'
    BY <1>1, <2>1, TaskSoundGrows DEF IInv
  <2> QED BY <2>1, <2>2
<1>5. AckedIsDurable' /\ acked' \in [Sources -> SUBSET Seqs]
  BY <1>a, <1>1, AckedGrows DEF IInv, TypeOK
<1> QED BY <1>a, <1>1, <1>3, <1>4, <1>5, QuietStepSound

-----------------------------------------------------------------------------
\* IInv is inductive.
LEMMA NextSound == ASSUME IInv, [Next]_vars PROVE IInv'
<1>1. CASE UNCHANGED vars
  <2>1. UNCHANGED <<tail, durable, acked, task>> /\ faults' \in 0 .. MaxFaults
    BY <1>1 DEF vars, IInv, TypeOK
  <2>2. DataTypeOK' /\ Grows
    BY SMTT(60), <2>1, QuietGrows DEF IInv
  <2>3. TasksSound'
    BY SMTT(30), <2>1 DEF IInv, TasksSound, TaskSound, durable, Folded, FoldedBelow,
                IsHistory, Deduplicated
  <2>4. AckedIsDurable'
    BY <2>1, <2>2, AckedGrows DEF IInv
  <2> QED BY <2>1, <2>2, <2>3, <2>4, QuietStepSound DEF IInv, TypeOK
<1>2. ASSUME NEW w \in Workers, NEW s \in Sources, TaskStep(w, s) PROVE IInv'
  BY <1>2, AdmitSound, ReadGapSound, DispatchSound, AdvanceReadSound,
     AdvanceCasSound, ReconcileSound DEF TaskStep
<1>3. ASSUME NEW w \in Workers, NEW s \in Sources, Faulty(w, s) PROVE IInv'
  BY <1>3, CallFailsSound, CommitReplyLostSound, CasReplyLostSound DEF Faulty
<1> QED BY <1>1, <1>2, <1>3, AppendCommitSound, ReceiveSound, CrashSound DEF Next

THEOREM InductiveInvariant == Spec => []IInv
<1>1. Init => IInv
  BY InitSound
<1>2. IInv /\ [Next]_vars => IInv'
  BY NextSound
<1> QED BY <1>1, <1>2, PTL DEF Spec

\* Every variable keeps its type.
THEOREM TypeCorrect == Spec => []TypeOK
<1>1. IInv => TypeOK
  BY DEF IInv
<1> QED BY <1>1, InductiveInvariant, PTL

\* Whatever is redelivered, retried, run concurrently or cut short, a
\* definition with deduplication folds every commit at most once, in order.
THEOREM ExactlyOnce == Spec => []ExactlyOnceInOrder
<1>1. IInv => ExactlyOnceInOrder
  BY DEF IInv
<1> QED BY <1>1, InductiveInvariant, PTL

\* The coverage row of a source never claims a commit that some definition
\* has not folded.
THEOREM CoverageBacked == Spec => []CoverageIsBacked
<1>1. IInv => CoverageIsBacked
  <2> SUFFICES ASSUME IInv, NEW s \in Sources, NEW c \in StartAnchor[s] .. coverage[s],
                      NEW d \in Defs
               PROVE  Folded(d, s, c)
    BY DEF CoverageIsBacked
  <2>1. coverage[s] \in Int /\ StartAnchor[s] \in Int
    BY ConstantsAssumption DEF ConstantsAssumption, IInv, TypeOK, Seqs, Null
  <2>2. c \in StartAnchor[s] .. (coverage[s] + 1) - 1
    BY <2>1
  <2> QED BY <2>2 DEF IInv, CoverageSound, FoldedBelow
<1> QED BY <1>1, InductiveInvariant, PTL

\* A commit acknowledged as completed is never needed again.
THEOREM AckedDurable == Spec => []AckedIsDurable
<1>1. IInv => AckedIsDurable
  BY DEF IInv
<1> QED BY <1>1, InductiveInvariant, PTL

-----------------------------------------------------------------------------
\* Commits that stop their source.
StopApplies(d, s, c) == Stops(d, s, c) /\ ~(IsHistory(s, c) /\ d \in Deduplicated)

NothingOfStopped ==
  \A d \in Defs, s \in Sources, c \in Seqs : StopApplies(d, s, c) =>
    \A t \in Targets : folds[d][t][s][c] = 0

\* A commit that stops its definition has no document to be applied to, or is
\* terminal.
LEMMA StopsAtApply ==
  ASSUME IInv, NothingOfStopped, NEW d \in Defs, NEW s \in Sources, NEW c \in Seqs,
         StopApplies(d, s, c), Applicable(d, s, c) # {}
  PROVE  Terminal(d, s, c)
<1>1. CASE <<d, s, c>> \in Poison
  BY <1>1 DEF Terminal
<1>2. CASE Strategy[d] = "in_document" /\ Several(Route[d][s][c])
  <2>1. Route[d][s][c] \subseteq Targets /\ StartAnchor[s] \in Nat /\ c \in Nat
    BY ConstantsAssumption DEF ConstantsAssumption, Seqs
  <2>2. StartAnchor[s] <= c
    BY <1>2, <2>1 DEF StopApplies, IsHistory, Deduplicated
  <2>3. ASSUME NEW t \in Route[d][s][c] PROVE c > marker[d][t][s]
    <3>1. t \in Targets /\ folds[d][t][s][c] = 0
      BY <2>1 DEF NothingOfStopped
    <3>2. marker[d][t][s] \in Seqs \cup {Null}
      BY <3>1 DEF IInv, TypeOK
    <3>3. marker[d][t][s] \in Int
      BY <3>2, ConstantsAssumption DEF ConstantsAssumption, Seqs, Null
    <3>4. c \notin StartAnchor[s] .. marker[d][t][s]
      BY <1>2, <3>1 DEF IInv, MarkerSound
    <3> QED BY <2>1, <2>2, <3>3, <3>4
  <2>4. Applicable(d, s, c) = Route[d][s][c]
    BY <1>2, <2>3 DEF Applicable
  <2> QED BY <1>2, <2>4 DEF Terminal
<1> QED BY <1>1, <1>2 DEF StopApplies, Stops

\* The documents change in one place only: a definition applies a commit it
\* can take.
Takes(d, s, c) ==
  /\ ~Skips(d, s, c)
  /\ ~(Terminal(d, s, c) /\ Applicable(d, s, c) # {})
  /\ ApplyCommit(d, s, c)

LEMMA FoldsChangeByTaking ==
  ASSUME IInv, [Next]_vars
  PROVE  \/ UNCHANGED folds
         \/ /\ UNCHANGED <<tail, coverage>>
            /\ \E w \in Workers, s \in Sources, t \in Tasks :
                 /\ t = task[w][s] /\ t.pc = "dispatch"
                 /\ Takes(t.def, s, t.at)
<1> SUFFICES ASSUME folds' # folds
             PROVE  /\ UNCHANGED <<tail, coverage>>
                    /\ \E w \in Workers, s \in Sources, t \in Tasks :
                         /\ t = task[w][s] /\ t.pc = "dispatch"
                         /\ Takes(t.def, s, t.at)
  BY SMTT(60)
<1>1. PICK w \in Workers, s \in Sources : Dispatch(w, s) \/ CommitReplyLost(w, s)
  BY ZenonT(60) DEF Next, TaskStep, Faulty, AppendCommit, Receive, Admit, ReadGap, AdvanceRead,
         AdvanceCas, Reconcile, CallFails, CasReplyLost, Crash, vars, durable
<1>2. PICK t \in Tasks : t = task[w][s]
  BY DEF IInv, TypeOK
<1>3. t.pc = "dispatch" /\ Takes(t.def, s, t.at) /\ UNCHANGED tail
  BY <1>1, <1>2 DEF Dispatch, CommitReplyLost, Takes, durable
<1>4. UNCHANGED coverage
  BY <1>3 DEF Takes, ApplyCommit
<1> QED BY <1>2, <1>3, <1>4

LEMMA NothingOfStoppedStep ==
  ASSUME IInv, NothingOfStopped, [Next]_vars
  PROVE  NothingOfStopped'
<1>1. CASE UNCHANGED folds
  BY <1>1 DEF NothingOfStopped, StopApplies, Stops, IsHistory, Deduplicated
<1>2. ASSUME NEW w \in Workers, NEW s \in Sources, NEW t \in Tasks, Takes(t.def, s, t.at)
      PROVE  NothingOfStopped'
  <2> SUFFICES ASSUME NEW e \in Defs, NEW r \in Sources, NEW b \in Seqs,
                      StopApplies(e, r, b), NEW x \in Targets
               PROVE  folds'[e][x][r][b] = 0
    BY DEF NothingOfStopped, StopApplies, Stops, IsHistory, Deduplicated
  <2>1. folds[e][x][r][b] = 0
    BY DEF NothingOfStopped
  <2>2. t.def \in Defs /\ t.at \in Seqs
    BY DEF Tasks
  <2>3. ~(e = t.def /\ r = s /\ b = t.at /\ x \in Applicable(t.def, s, t.at))
    BY <1>2, <2>2, StopsAtApply DEF Takes
  <2>4. folds'[e][x][r][b] = folds[e][x][r][b]
    BY <1>2, <2>2, <2>3, ApplyCommitEffect DEF Takes, IInv
  <2> QED BY <2>1, <2>4
<1> QED BY <1>1, <1>2, FoldsChangeByTaking

LEMMA NothingOfStoppedAlways == Spec => []NothingOfStopped
<1>1. Init => NothingOfStopped
  BY DEF Init, NothingOfStopped
<1>2. IInv /\ NothingOfStopped /\ [Next]_vars => NothingOfStopped'
  BY NothingOfStoppedStep
<1> QED BY <1>1, <1>2, InductiveInvariant, PTL DEF Spec

\* A commit some definition cannot take stops its source: it is not covered,
\* and no document of that definition shows any part of it.
THEOREM StoppedHalts == Spec => []StoppedCommitHalts
<1>1. IInv /\ NothingOfStopped => StoppedCommitHalts
  <2> SUFFICES ASSUME IInv, NothingOfStopped,
                      NEW d \in Defs, NEW s \in Sources, NEW c \in Seqs,
                      StopApplies(d, s, c)
               PROVE  /\ \A t \in Targets : folds[d][t][s][c] = 0
                      /\ ~IsHistory(s, c) => coverage[s] < c
    BY DEF StoppedCommitHalts, StopApplies
  <2>1. \A t \in Targets : folds[d][t][s][c] = 0
    BY DEF NothingOfStopped
  <2>2. ASSUME ~IsHistory(s, c) PROVE coverage[s] < c
    <3>1. coverage[s] \in Int /\ c \in Int /\ StartAnchor[s] \in Int
      BY ConstantsAssumption DEF ConstantsAssumption, IInv, TypeOK, Seqs, Null
    <3>2. PICK t \in Route[d][s][c] : t \in Targets
      BY ConstantsAssumption DEF ConstantsAssumption, StopApplies, Stops, Several
    <3>3. ~Folded(d, s, c)
      BY <2>1, <3>2 DEF Folded
    <3>4. c \notin StartAnchor[s] .. (coverage[s] + 1) - 1
      BY <3>3 DEF IInv, CoverageSound, FoldedBelow
    <3> QED BY <2>2, <3>1, <3>4 DEF IsHistory
  <2> QED BY <2>1, <2>2
<1> QED BY <1>1, InductiveInvariant, NothingOfStoppedAlways, PTL

-----------------------------------------------------------------------------
\* The refinement of OrderedProjection.
LEMMA InitPromise == Init => Promise!Init
BY DEF Init, Promise!Init, Null

\* Changing one cell of a table.
LEMMA NestedExcept ==
  ASSUME NEW A, NEW B, NEW C, NEW f \in [A -> [B -> C]], NEW a \in A, NEW b \in B, NEW v \in C
  PROVE  /\ [f EXCEPT ![a][b] = v] \in [A -> [B -> C]]
         /\ \A x \in A, y \in B : [f EXCEPT ![a][b] = v][x][y] =
              IF x = a /\ y = b THEN v ELSE f[x][y]
OBVIOUS

\* The row of a document after one more fold of the commit, where it is routed.
BumpedRow(d, x, s, c) ==
  IF x \in Route[d][s][c] /\ folds[d][x][s][c] < ManyFolds
  THEN [folds[d][x] EXCEPT ![s][c] = folds[d][x][s][c] + 1]
  ELSE folds[d][x]

\* Every routed document of d counts one more fold, and nothing else changes.
FoldsBumped(d, s, c) ==
  /\ folds \in [Defs -> [Targets -> [Sources -> [Seqs -> 0 .. ManyFolds]]]]
  /\ folds' \in [Defs -> [Targets -> [Sources -> [Seqs -> 0 .. ManyFolds]]]]
  /\ \A e \in Defs, x \in Targets, r \in Sources, b \in Seqs :
       folds'[e][x][r][b] =
         IF e = d /\ r = s /\ b = c /\ x \in Route[d][s][c]
         THEN Bump(folds[e][x][r][b]) ELSE folds[e][x][r][b]

\* That is what the promise does to the documents.
LEMMA BumpPromise ==
  ASSUME NEW d \in Defs, NEW s \in Sources, NEW c \in Seqs, FoldsBumped(d, s, c)
  PROVE  Promise!FoldInto(d, s, c)
<1>0. /\ folds \in [Defs -> [Targets -> [Sources -> [Seqs -> 0 .. ManyFolds]]]]
      /\ folds' \in [Defs -> [Targets -> [Sources -> [Seqs -> 0 .. ManyFolds]]]]
  BY DEF FoldsBumped
<1>1. ASSUME NEW x \in Targets PROVE folds'[d][x] = BumpedRow(d, x, s, c)
  <2>1. PICK f \in [Sources -> [Seqs -> 0 .. ManyFolds]] : f = folds[d][x]
    BY <1>0
  <2>2. PICK g \in [Sources -> [Seqs -> 0 .. ManyFolds]] : g = folds'[d][x]
    BY <1>0
  <2>4. \A r \in Sources, b \in Seqs : g[r][b] =
          IF r = s /\ b = c /\ x \in Route[d][s][c] THEN Bump(f[r][b]) ELSE f[r][b]
    BY <2>1, <2>2 DEF FoldsBumped
  <2>5. f[s][c] \in 0 .. 2
    BY DEF ManyFolds
  <2>6. CASE x \in Route[d][s][c] /\ f[s][c] < ManyFolds
    <3> DEFINE v == f[s][c] + 1
               h == [f EXCEPT ![s][c] = v]
    <3>1. v \in 0 .. ManyFolds /\ v = Bump(f[s][c])
      BY <2>5, <2>6 DEF Bump, ManyFolds
    <3> HIDE DEF v
    <3>2. /\ h \in [Sources -> [Seqs -> 0 .. ManyFolds]]
          /\ \A r \in Sources, b \in Seqs : h[r][b] = IF r = s /\ b = c THEN v ELSE f[r][b]
      BY SMTT(60), <2>4, <3>1, NestedExcept
    <3> HIDE DEF h
    <3>3. \A r \in Sources, b \in Seqs : g[r][b] = h[r][b]
      BY <2>4, <2>6, <3>1, <3>2
    <3>4. \A r \in Sources : g[r] = h[r]
      BY <3>2, <3>3
    <3>5. g = h
      BY <3>2, <3>4
    <3> QED BY <2>6, <2>1, <2>2, <3>5 DEF h, v, BumpedRow
  <2>7. CASE ~(x \in Route[d][s][c] /\ f[s][c] < ManyFolds)
    <3>1. x \in Route[d][s][c] => Bump(f[s][c]) = f[s][c]
      BY <2>5, <2>7 DEF Bump, ManyFolds
    <3>2. \A r \in Sources, b \in Seqs : g[r][b] = f[r][b]
      BY <2>4, <3>1
    <3>3. \A r \in Sources : g[r] = f[r]
      BY <3>2
    <3>4. g = f
      BY <3>3
    <3> QED BY <2>7, <2>1, <2>2, <3>4 DEF BumpedRow
  <2> QED BY <2>6, <2>7
<1>2. folds'[d] = [x \in Targets |-> BumpedRow(d, x, s, c)]
  BY <1>0, <1>1
<1>3. ASSUME NEW e \in Defs, e # d PROVE folds'[e] = folds[e]
  <2>1. \A x \in Targets, r \in Sources, b \in Seqs : folds'[e][x][r][b] = folds[e][x][r][b]
    BY <1>3 DEF FoldsBumped
  <2>2. ASSUME NEW x \in Targets PROVE folds'[e][x] = folds[e][x]
    <3>1. ASSUME NEW r \in Sources PROVE folds'[e][x][r] = folds[e][x][r]
      BY <1>0, <2>1
    <3> QED BY <1>0, <3>1
  <2> QED BY <1>0, <2>2
<1>4. folds' = [folds EXCEPT ![d] = [x \in Targets |-> BumpedRow(d, x, s, c)]]
  BY <1>0, <1>2, <1>3
<1> QED BY <1>4 DEF Promise!FoldInto, BumpedRow

\* Only the append of a commit and the two outcomes of the conditional
\* update move what the promise counts.
LEMMA WhoMovesCounters ==
  ASSUME [Next]_vars
  PROVE  /\ coverage' # coverage =>
              \E w \in Workers, s \in Sources : AdvanceCas(w, s) \/ CasReplyLost(w, s)
         /\ tail' # tail => \E s \in Sources : AppendCommit(s)
<1>1. ASSUME NEW w \in Workers, NEW s \in Sources, Dispatch(w, s)
      PROVE  UNCHANGED <<tail, coverage>>
  BY <1>1 DEF Dispatch, ApplyCommit, durable
<1>2. ASSUME NEW w \in Workers, NEW s \in Sources,
             Admit(w, s) \/ ReadGap(w, s) \/ AdvanceRead(w, s) \/ Reconcile(w, s)
      PROVE  UNCHANGED <<tail, coverage>>
  BY <1>2 DEF Admit, ReadGap, AdvanceRead, Reconcile, durable
<1>3. ASSUME NEW w \in Workers, NEW s \in Sources, AdvanceCas(w, s) \/ CasReplyLost(w, s)
      PROVE  UNCHANGED tail
  BY SMTT(60), <1>3 DEF AdvanceCas, CasReplyLost
<1>4. ASSUME NEW w \in Workers, NEW s \in Sources, CallFails(w, s) \/ CommitReplyLost(w, s)
      PROVE  UNCHANGED <<tail, coverage>>
  BY <1>4 DEF CallFails, CommitReplyLost, ApplyCommit, durable
<1>5. ASSUME NEW w \in Workers, Crash(w) PROVE UNCHANGED <<tail, coverage>>
  BY <1>5 DEF Crash, durable
<1>6. ASSUME NEW w \in Workers, NEW s \in Sources, NEW n \in Seqs, NEW poll \in BOOLEAN,
             Receive(w, s, n, poll)
      PROVE  UNCHANGED <<tail, coverage>>
  BY <1>6 DEF Receive, durable
<1>7. ASSUME NEW s \in Sources, AppendCommit(s) PROVE UNCHANGED coverage
  BY <1>7 DEF AppendCommit, durable
<1>8. CASE UNCHANGED vars
  BY <1>8 DEF vars, durable
<1>9. CASE Next
  BY <1>1, <1>2, <1>3, <1>4, <1>5, <1>6, <1>7, <1>9 DEF Next, TaskStep, Faulty
<1> QED BY <1>8, <1>9

\* Taking a commit is a fold of the promise, or changes no document.
LEMMA TakingPromise ==
  ASSUME IInv, NothingOfStopped, UNCHANGED <<tail, coverage>>,
         NEW w \in Workers, NEW s \in Sources, NEW t \in Tasks, t = task[w][s],
         t.pc = "dispatch", Takes(t.def, s, t.at)
  PROVE  Promise!Next \/ UNCHANGED Promise!vars
<1> DEFINE d == t.def
           c == t.at
           docs == Applicable(d, s, c)
<1>0. /\ d \in Defs /\ c \in Seqs /\ t.n \in Seqs /\ c <= t.n /\ t.n < tail[s]
      /\ ~IsHistory(s, c) => FoldedBelow(d, s, c)
  BY CandidateFacts DEF Tasks
<1>1. /\ folds' \in [Defs -> [Targets -> [Sources -> [Seqs -> 0 .. ManyFolds]]]]
      /\ \A e \in Defs, x \in Targets, r \in Sources, b \in Seqs :
           folds'[e][x][r][b] =
             IF e = d /\ r = s /\ b = c /\ x \in docs
             THEN Bump(folds[e][x][r][b]) ELSE folds[e][x][r][b]
  BY <1>0, ApplyCommitEffect DEF Takes, IInv
<1>2. folds \in [Defs -> [Targets -> [Sources -> [Seqs -> 0 .. ManyFolds]]]]
  BY DEF IInv, TypeOK
<1>3. /\ StartAnchor[s] \in Nat /\ c \in Nat /\ t.n \in Nat /\ tail[s] \in Int
      /\ Route[d][s][c] \subseteq Targets
      /\ Strategy[d] \in Strategies
  BY <1>0, ConstantsAssumption DEF ConstantsAssumption, Seqs, IInv, TypeOK
<1>4. c < tail[s]
  BY <1>0, <1>3
<1>5. CASE docs = {}
  <2>1. \A e \in Defs : folds'[e] = folds[e]
    <3> SUFFICES ASSUME NEW e \in Defs PROVE folds'[e] = folds[e]
      OBVIOUS
    <3>1. ASSUME NEW x \in Targets PROVE folds'[e][x] = folds[e][x]
      <4>1. ASSUME NEW r \in Sources PROVE folds'[e][x][r] = folds[e][x][r]
        BY <1>1, <1>2, <1>5
      <4> QED BY <4>1, <1>1, <1>2
    <3> QED BY <3>1, <1>1, <1>2
  <2>2. folds' = folds
    BY <2>1, <1>1, <1>2
  <2> QED BY <2>2 DEF Promise!vars
<1>6. CASE docs # {}
  <2>1. ~Terminal(d, s, c)
    BY <1>6 DEF Takes
  <2>2. docs = Route[d][s][c]
    <3>1. CASE Strategy[d] = "in_document"
      <4>1. ~IsHistory(s, c)
        BY <3>1 DEF Takes, Skips
      <4>2. ~Several(Route[d][s][c])
        BY <1>0, <1>6, <2>1, <3>1, <4>1, StopsAtApply
           DEF StopApplies, Stops
      <4>3. docs \subseteq Route[d][s][c]
        BY <3>1 DEF Applicable
      <4> QED BY <1>6, <4>2, <4>3 DEF Several
    <3>2. CASE Strategy[d] = "own_record"
      BY <1>6, <3>2 DEF Applicable
    <3>3. CASE Strategy[d] = "none"
      BY <3>3 DEF Applicable
    <3> QED BY SMTT(60), <1>3, <3>1, <3>2, <3>3 DEF Strategies
  <2>3. Promise!FoldInto(d, s, c)
    <3> HIDE DEF d, c, docs
    <3>1. FoldsBumped(d, s, c)
      BY <1>1, <1>2, <2>2 DEF FoldsBumped
    <3> QED BY <1>0, <3>1, BumpPromise
  <2>4. CASE d \in Deduplicated
    <3>1. ~IsHistory(s, c)
      BY <2>4 DEF Takes, Skips, Deduplicated
    <3>2. StartAnchor[s] <= c /\ c < tail[s]
      BY <3>1, <1>3, <1>4 DEF IsHistory
    <3>3. \A b \in StartAnchor[s] .. c - 1 : Promise!Folded(d, s, b)
      BY SMTT(60), <1>0, <3>1 DEF FoldedBelow, Folded, Promise!Folded
    <3>4. ASSUME NEW x \in Route[d][s][c] PROVE folds[d][x][s][c] = 0
      <4>1. x \in Targets /\ x \in docs
        BY SMTT(60), <1>3, <2>2
      <4>2. folds[d][x][s][c] \in 0 .. ManyFolds
        <5>1. d \in Defs /\ s \in Sources /\ c \in Seqs
          BY <1>0
        <5> HIDE DEF d, c, docs
        <5> QED
          BY ONLY SMTT(30), <5>1, <1>2, <4>1
      <4>3. ~(folds[d][x][s][c] > 0)
        <5>1. CASE Strategy[d] = "own_record"
          <6>1. ownRecord[d][s] \in Seqs \cup {Null}
            BY <1>0 DEF IInv, TypeOK
          <6>2. ownRecord[d][s] \in Int /\ ~(c <= ownRecord[d][s])
            BY <4>1, <5>1, <6>1 DEF Seqs, Null, Applicable
          <6> QED BY <1>0, <4>1, <5>1, <6>2 DEF IInv, OwnRecordSound
        <5>2. CASE Strategy[d] = "in_document"
          <6>1. marker[d][x][s] \in Seqs \cup {Null}
            BY <1>0, <4>1 DEF IInv, TypeOK
          <6>2. marker[d][x][s] \in Int /\ c > marker[d][x][s]
            BY SMTT(60), <4>1, <5>2, <6>1 DEF Seqs, Null, Applicable
          <6> QED BY <1>0, <1>3, <4>1, <5>2, <6>2 DEF IInv, MarkerSound
        <5> QED BY <1>3, <2>4, <5>1, <5>2 DEF Strategies, Deduplicated
      <4> QED BY <4>2, <4>3 DEF ManyFolds
    <3>5. Promise!FoldOnce(d, s, c)
      BY <2>3, <2>4, <3>2, <3>3, <3>4 DEF Promise!FoldOnce
    <3> QED BY <1>0, <3>5 DEF Promise!Next
  <2>5. CASE d \notin Deduplicated
    <3>1. Promise!FoldAgain(d, s, c)
      BY <1>4, <2>3, <2>5 DEF Promise!FoldAgain
    <3> QED BY <1>0, <3>1 DEF Promise!Next
  <2> QED BY <2>4, <2>5
<1> QED BY <1>5, <1>6

\* So is moving the coverage row.
LEMMA CoveringPromise ==
  ASSUME IInv, NEW w \in Workers, NEW s \in Sources, NEW t \in Tasks, t = task[w][s],
         t.pc = "cas", coverage[s] = t.expected,
         coverage' = [coverage EXCEPT ![s] = t.at], UNCHANGED <<tail, folds>>
  PROVE  Promise!Cover(s)
<1>1. /\ TaskSound(s, t) /\ t.at \in Seqs /\ t.n \in Seqs /\ t.at <= t.n /\ t.n < tail[s]
  BY CandidateFacts DEF Tasks
<1>2. t.at < tail[s]
  <2>1. t.at \in Int /\ t.n \in Int /\ tail[s] \in Int
    BY <1>1 DEF Seqs, IInv, TypeOK
  <2> QED BY <1>1, <2>1
<1>3. t.at = IF coverage[s] = -1 THEN StartAnchor[s] ELSE coverage[s] + 1
  BY <1>1 DEF TaskSound, Null
<1>4. \A d \in Defs : Promise!Folded(d, s, t.at)
  BY <1>1 DEF TaskSound, Folded, Promise!Folded
<1> QED BY <1>2, <1>3, <1>4 DEF Promise!Cover

LEMMA StepPromise ==
  ASSUME IInv, NothingOfStopped, [Next]_vars
  PROVE  [Promise!Next]_(Promise!vars)
<1>1. CASE folds' # folds
  BY <1>1, FoldsChangeByTaking, TakingPromise
<1>2. CASE folds' = folds
  <2>1. CASE coverage' # coverage
    <3>1. PICK w \in Workers, s \in Sources : AdvanceCas(w, s) \/ CasReplyLost(w, s)
      BY <2>1, WhoMovesCounters
    <3>2. PICK t \in Tasks : t = task[w][s]
      BY DEF IInv, TypeOK
    <3>3. /\ t.pc = "cas" /\ coverage[s] = t.expected
          /\ coverage' = [coverage EXCEPT ![s] = t.at] /\ UNCHANGED tail
      BY <2>1, <3>1, <3>2 DEF AdvanceCas, CasReplyLost
    <3> QED BY <1>2, <3>2, <3>3, CoveringPromise DEF Promise!Next
  <2>2. CASE coverage' = coverage
    <3>1. CASE tail' # tail
      <4>1. PICK s \in Sources : AppendCommit(s)
        BY <3>1, WhoMovesCounters
      <4>2. tail[s] \in Seqs
        BY <4>1, ConstantsAssumption
           DEF ConstantsAssumption, AppendCommit, IInv, TypeOK, Seqs
      <4>3. Promise!Append(s)
        BY <1>2, <2>2, <4>1, <4>2 DEF AppendCommit, Promise!Append
      <4> QED BY <4>3 DEF Promise!Next
    <3>2. CASE tail' = tail
      BY <1>2, <2>2, <3>2 DEF Promise!vars
    <3> QED BY <3>1, <3>2
  <2> QED BY <2>1, <2>2
<1> QED BY <1>1, <1>2

\* The coordinator implements the promise.
THEOREM Refinement == Spec => ImplementsPromise
<1>1. Init => Promise!Init
  BY InitPromise
<1>2. IInv /\ NothingOfStopped /\ [Next]_vars => [Promise!Next]_(Promise!vars)
  BY StepPromise
<1> QED BY <1>1, <1>2, InductiveInvariant, NothingOfStoppedAlways, PTL
        DEF Spec, ImplementsPromise, Promise!Spec

-----------------------------------------------------------------------------
(***************************************************************************)
(* The pollers.                                                            *)
(***************************************************************************)
LEMMA PolledStep ==
  ASSUME PolledTypeOK, [PolledNext]_polledVars
  PROVE  [Next]_vars
<1>1. CASE UNCHANGED polledVars
  BY <1>1 DEF polledVars
<1>2. ASSUME NEW s \in Sources, LogGrows(s)
      PROVE  [Next]_vars
  BY <1>2 DEF LogGrows, Next
<1>3. ASSUME NEW w \in Workers, PollerStep(w) \/ PassFails(w)
      PROVE  [Next]_vars
  <2>1. CASE PollNext(w)
    <3>1. Polled(w) \in Sources
      BY PollingAssumption DEF PollingAssumption, PolledTypeOK, Pollers, Polled
    <3>2. PICK n \in Seqs : Receive(w, Polled(w), n, TRUE)
      BY <2>1 DEF PollNext
    <3> QED BY <3>1, <3>2 DEF Next
  <2>2. CASE Probe(w) \/ Load(w) \/ LeaveSource(w) \/ PassFails(w)
    BY <2>2 DEF Probe, Load, LeaveSource, PassFails
  <2> QED BY <1>3, <2>1, <2>2 DEF PollerStep
<1>4. ASSUME NEW w \in Workers, PolledCrash(w)
      PROVE  [Next]_vars
  BY <1>4 DEF PolledCrash, Next
<1>5. ASSUME NEW w \in Workers, NEW s \in Sources,
             Notify(w, s) \/ PolledTaskStep(w, s) \/ PolledFaulty(w, s)
      PROVE  [Next]_vars
  BY <1>5 DEF Notify, PolledTaskStep, PolledFaulty, Next
<1> QED
  <2>1. deployment.workers \subseteq Workers
    BY PollingAssumption DEF PollingAssumption, PolledTypeOK
  <2>2. \A i \in DOMAIN deployment.order : deployment.order[i] \in Sources
    BY PollingAssumption DEF PollingAssumption, PolledTypeOK
  <2> QED BY <1>1, <1>2, <1>3, <1>4, <1>5, <2>1, <2>2 DEF PolledNext

LEMMA SetPollerType ==
  ASSUME PolledTypeOK, NEW w \in Workers, NEW p \in Pollers, SetPoller(w, p),
         p.at <= Len(deployment.order)
  PROVE  /\ poller' \in [Workers -> Pollers]
         /\ \A v \in Workers : poller'[v].at <= Len(deployment.order)
BY DEF PolledTypeOK, SetPoller

LEMMA RestingType == ASSUME PolledTypeOK
                     PROVE Resting \in Pollers /\ Resting.at <= Len(deployment.order)
<1>1. deployment.order \in Seq(Sources) /\ deployment.order # <<>>
  BY PollingAssumption DEF PollingAssumption, PolledTypeOK
<1> QED BY <1>1, PollingAssumption DEF PollingAssumption, Resting, Pollers, Null

\* A pass goes on, whatever it has come to.
LEMMA PassType ==
  ASSUME NEW p \in Pollers, NEW pc \in {"probe", "load", "page", "await"},
         NEW after \in Int, NEW left \in 0 .. PassCommits
  PROVE  /\ [p EXCEPT !.pc = pc, !.after = after] \in Pollers
         /\ [p EXCEPT !.pc = pc, !.after = after].at = p.at
         /\ [p EXCEPT !.pc = pc, !.left = left] \in Pollers
         /\ [p EXCEPT !.pc = pc, !.left = left].at = p.at
<1> DEFINE a == [p EXCEPT !.pc = pc]
<1>1. a \in Pollers /\ a.at = p.at
  BY DEF Pollers
<1> HIDE DEF a
<1>2. [a EXCEPT !.after = after] \in Pollers /\ [a EXCEPT !.after = after].at = p.at
  BY <1>1 DEF Pollers
<1>3. [a EXCEPT !.left = left] \in Pollers /\ [a EXCEPT !.left = left].at = p.at
  BY <1>1 DEF Pollers
<1> QED BY <1>2, <1>3 DEF a

\* A pass turns to the pages of its source.
LEMMA PagesType ==
  ASSUME NEW p \in Pollers, NEW after \in Int, NEW left \in 0 .. PassCommits
  PROVE  /\ [p EXCEPT !.pc = "page", !.after = after, !.left = left] \in Pollers
         /\ [p EXCEPT !.pc = "page", !.after = after, !.left = left].at = p.at
<1> DEFINE a == [p EXCEPT !.pc = "page", !.after = after]
<1>1. a \in Pollers /\ a.at = p.at
  BY PassType
<1> HIDE DEF a
<1>2. [a EXCEPT !.left = left] \in Pollers /\ [a EXCEPT !.left = left].at = p.at
  BY <1>1 DEF Pollers
<1> QED BY <1>2 DEF a

LEMMA PolledTypeStep ==
  ASSUME PolledTypeOK, TypeOK', [PolledNext]_polledVars
  PROVE  PolledTypeOK'
<1> DEFINE Kept == /\ poller' \in [Workers -> Pollers]
                   /\ \A v \in Workers : poller'[v].at <= Len(deployment.order)
           Goal == Kept /\ deployment' = deployment /\ failedPasses' \in 0 .. MaxFaults
<1>0. /\ UNCHANGED poller => Kept
      /\ \A w \in Workers : SetPoller(w, Resting) => Kept
  BY RestingType, SetPollerType DEF PolledTypeOK
<1>1. CASE UNCHANGED polledVars
  BY <1>1 DEF polledVars, PolledTypeOK
<1>2. ASSUME NEW s \in Sources, LogGrows(s)
      PROVE  Goal
  BY <1>0, <1>2 DEF LogGrows, PolledTypeOK
<1>3. ASSUME NEW w \in Workers, PollerStep(w)
      PROVE  Goal
  <2> DEFINE p == poller[w]
  <2>0. p \in Pollers /\ p.at <= Len(deployment.order)
    BY DEF PolledTypeOK
  <2>00. /\ deployment.order \in Seq(Sources) /\ deployment.order # <<>>
         /\ \A i \in DOMAIN deployment.order : deployment.order[i] \in Sources
    BY PollingAssumption DEF PollingAssumption, PolledTypeOK
  <2>1. Polled(w) \in Sources
    BY <2>0, <2>00 DEF Pollers, Polled
  <2>2. tail[Polled(w)] - 1 \in Int /\ After(Polled(w)) \in Int
    BY <2>1, ConstantsAssumption DEF ConstantsAssumption, PolledTypeOK, TypeOK, After, Seqs, Null
  <2>3. CASE Probe(w)
    <3> DEFINE q == [p EXCEPT !.pc = "load", !.through = tail[Polled(w)] - 1]
    <3>1. q \in Pollers /\ q.at <= Len(deployment.order)
      BY <2>0, <2>2 DEF Pollers
    <3>2. SetPoller(w, q)
      BY <2>3 DEF Probe
    <3> HIDE DEF q
    <3>3. Kept
      BY <3>1, <3>2, SetPollerType
    <3> QED BY <2>3, <3>3 DEF Probe, PolledTypeOK
  <2>4. CASE Load(w)
    <3> DEFINE q(left) == [p EXCEPT !.pc = "page", !.after = After(Polled(w)), !.left = left]
    <3>1. \A left \in 1 .. PassCommits : q(left) \in Pollers /\ q(left).at <= Len(deployment.order)
      <4> SUFFICES ASSUME NEW left \in 1 .. PassCommits
                   PROVE  q(left) \in Pollers /\ q(left).at <= Len(deployment.order)
        OBVIOUS
      <4>1. left \in 0 .. PassCommits
        OBVIOUS
      <4>2. q(left) \in Pollers /\ q(left).at = p.at
        BY <2>0, <2>2, <4>1, PagesType, Zenon
      <4> HIDE DEF q
      <4> QED BY <2>0, <4>2
    <3>2. CASE SetPoller(w, Resting)
      BY <1>0, <2>4, <3>2 DEF Load, PolledTypeOK
    <3>3. CASE \E left \in 1 .. PassCommits : SetPoller(w, q(left))
      <4>1. PICK left \in 1 .. PassCommits : SetPoller(w, q(left))
        BY <3>3
      <4>2. q(left) \in Pollers /\ q(left).at <= Len(deployment.order)
        BY <3>1
      <4> HIDE DEF q
      <4>3. Kept
        BY <4>1, <4>2, SetPollerType
      <4> QED BY <2>4, <4>3 DEF Load, PolledTypeOK
    <3> QED BY <2>4, <3>2, <3>3 DEF Load
  <2>5. CASE PollNext(w)
    <3> DEFINE q == [p EXCEPT !.pc = "await", !.left = @ - 1]
    <3>1. q \in Pollers /\ q.at <= Len(deployment.order)
      <4>0. p.left > 0 /\ p.left \in 0 .. PassCommits
        BY <2>0, <2>5 DEF PollNext, Pollers
      <4>1. p.left - 1 \in 0 .. PassCommits /\ p.after \in Int
        BY <2>0, <4>0, PollingAssumption DEF PollingAssumption, Pollers
      <4> DEFINE left == p.left - 1
      <4>2. p \in Pollers /\ left \in 0 .. PassCommits /\ p.at <= Len(deployment.order)
            /\ "await" \in {"probe", "load", "page", "await"}
        BY <2>0, <4>1
      <4> HIDE DEF p, left
      <4>3. LET u == [p EXCEPT !.pc = "await", !.left = left]
            IN  u \in Pollers /\ u.at = p.at
        BY <4>1, <4>2, PassType
      <4> QED BY <4>2, <4>3 DEF left
    <3>2. SetPoller(w, q)
      BY <2>5 DEF PollNext
    <3> HIDE DEF q
    <3>3. Kept
      BY <3>1, <3>2, SetPollerType
    <3> QED BY <2>5, <3>3 DEF PollNext, PolledTypeOK
  <2>6. CASE LeaveSource(w)
    <3>1. NextSource(w) \in Pollers /\ NextSource(w).at <= Len(deployment.order)
      <4>1. CASE p.at < Len(deployment.order)
        BY <2>0, <2>00, <4>1, RestingType DEF NextSource, Resting, Pollers
      <4>2. CASE ~(p.at < Len(deployment.order))
        BY <4>2, RestingType DEF NextSource
      <4> QED BY <4>1, <4>2
    <3> QED BY <2>6, <3>1, SetPollerType DEF LeaveSource, PolledTypeOK
  <2> QED BY <1>3, <2>3, <2>4, <2>5, <2>6 DEF PollerStep
<1>4. ASSUME NEW w \in Workers, PassFails(w) \/ PolledCrash(w)
      PROVE  Goal
  BY <1>0, <1>4, ConstantsAssumption
     DEF ConstantsAssumption, PassFails, PolledCrash, FaultsLeft, PolledTypeOK, TypeOK
<1>5. ASSUME NEW w \in Workers, NEW s \in Sources,
             Notify(w, s) \/ PolledTaskStep(w, s) \/ PolledFaulty(w, s)
      PROVE  Goal
  <2> DEFINE p == poller[w]
             onward == [p EXCEPT !.pc = "page", !.after = @ + 1]
  <2>1. onward \in Pollers /\ onward.at <= Len(deployment.order)
    <3>1. p \in Pollers /\ p.at <= Len(deployment.order)
      BY DEF PolledTypeOK
    <3>2. p.after + 1 \in Int
      BY <3>1 DEF Pollers
    <3>3. 0 \in 0 .. PassCommits
      BY PollingAssumption DEF PollingAssumption
    <3> DEFINE after == p.after + 1
    <3>4. p \in Pollers /\ after \in Int
      BY <3>1, <3>2, Zenon
    <3> HIDE DEF p, after
    <3>5. LET u == [p EXCEPT !.pc = "page", !.after = after]
          IN  u \in Pollers /\ u.at = p.at
      BY <3>3, <3>4, PassType
    <3> QED BY <3>1, <3>5 DEF after
  <2>2. SetPoller(w, onward) => Kept
    <3> HIDE DEF onward
    <3> QED BY <2>1, SetPollerType
  <2>3. ASSUME NEW completed, Answered(w, s, completed) PROVE Kept
    <3>1. UNCHANGED poller \/ SetPoller(w, Resting) \/ SetPoller(w, onward)
      BY <2>3, Zenon DEF Answered
    <3> QED BY <1>0, <2>2, <3>1
  <2>4. CASE Notify(w, s)
    BY <1>0, <2>4 DEF Notify, PolledTypeOK
  <2>5. CASE PolledTaskStep(w, s)
    BY <2>3, <2>5 DEF PolledTaskStep, PolledTypeOK
  <2>6. CASE PolledFaulty(w, s)
    BY <2>3, <2>6 DEF PolledFaulty, PolledTypeOK
  <2> QED BY <1>5, <2>4, <2>5, <2>6
<1> QED
  <2>1. deployment.workers \subseteq Workers
    BY PollingAssumption DEF PollingAssumption, PolledTypeOK
  <2>2. \A i \in DOMAIN deployment.order : deployment.order[i] \in Sources
    BY PollingAssumption DEF PollingAssumption, PolledTypeOK
  <2>3. CASE PolledNext
    <3>1. Goal
      BY <1>2, <1>3, <1>4, <1>5, <2>1, <2>2, <2>3 DEF PolledNext
    <3> QED BY <3>1 DEF PolledTypeOK
  <2> QED BY <1>1, <2>3

LEMMA PolledInvariant == PolledSpec => [](PolledTypeOK /\ IInv)
<1>1. PolledInit => PolledTypeOK /\ IInv
  <2> SUFFICES ASSUME PolledInit PROVE PolledTypeOK /\ IInv
    OBVIOUS
  <2>1. IInv
    BY InitSound DEF PolledInit
  <2>2. deployment.order \in Seq(Sources) /\ deployment.order # <<>>
    BY PollingAssumption DEF PollingAssumption, PolledInit
  <2>3. Resting \in Pollers /\ Resting.at <= Len(deployment.order)
    BY <2>2, PollingAssumption DEF PollingAssumption, Resting, Pollers, Null
  <2> QED BY <2>1, <2>3, ConstantsAssumption
          DEF ConstantsAssumption, PolledInit, PolledTypeOK, IInv
<1>2. PolledTypeOK /\ IInv /\ [PolledNext]_polledVars => (PolledTypeOK /\ IInv)'
  BY PolledStep, NextSound, PolledTypeStep DEF IInv
<1> QED BY <1>1, <1>2, PTL DEF PolledSpec

\* Workers whose pollers walk the sources in order are workers of the
\* coordinator: whatever holds of its behaviours holds of theirs.
THEOREM PollersAreOfTheCoordinator == PolledSpec => Spec
<1>1. PolledInit => Init
  BY DEF PolledInit
<1>2. PolledTypeOK /\ [PolledNext]_polledVars => [Next]_vars
  BY PolledStep
<1> QED BY <1>1, <1>2, PolledInvariant, PTL DEF PolledSpec, Spec
=============================================================================
