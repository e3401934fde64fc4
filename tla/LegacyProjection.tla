--------------------------- MODULE LegacyProjection ---------------------------
(***************************************************************************)
(* The runtime of packages/projection-runtime: a batch folds the commits    *)
(* after the cursor into documents it keeps in memory, adding links as it   *)
(* goes, then saves the documents one by one and the cursor last.  Alone    *)
(* (ProjectionRuntimeProcessor) its stores survive the process; under the   *)
(* ProjectionDaemon of the same package the links, the cursor and the       *)
(* documents' metadata live in memory beside a store of plain states.  A    *)
(* document's content is the sequence of the commits folded into it.        *)
(***************************************************************************)
EXTENDS Naturals, Sequences, SequencesExt, FiniteSets

CONSTANTS
  LegacyFeed,        \* the commits, in order: [own, to, links]; an own one
                     \* goes to `to`, a joined one to the documents linked
  LegacyDocs,
  LegacyBatch,       \* batchSize
  MaxLegacyFaults    \* bound of failed calls and crashes

VARIABLES
  kind,          \* "processor" or "daemon"
  saved,         \* [LegacyDocs -> the store: content, known (it has metadata)]
  linked,        \* the documents linked to the joined aggregate
  savedCursor,   \* the cursor store
  batch,         \* the batch in hand
  legacyFaults,
  broken         \* history: a batch was broken off

\* The documents of a commit are distinct (uniqueDocumentIds).
ASSUME LegacyAssumption ==
  /\ IsFiniteSet(LegacyDocs) /\ LegacyBatch \in Nat
  /\ LegacyFeed \in Seq([own : BOOLEAN, to : Seq(LegacyDocs), links : BOOLEAN])
  /\ \A i \in DOMAIN LegacyFeed : IsInjective(LegacyFeed[i].to)

legacyVars == <<kind, saved, linked, savedCursor, batch, legacyFaults, broken>>

NoPending == [loaded |-> FALSE, content |-> <<>>]
NoBatch == [phase |-> "none", at |-> 0, last |-> 0, to |-> <<>>,
            pending |-> [d \in LegacyDocs |-> NoPending]]

LegacyInit ==
  /\ kind \in {"processor", "daemon"}
  /\ saved = [d \in LegacyDocs |-> [content |-> <<>>, known |-> FALSE]]
  /\ linked = {} /\ savedCursor = 0 /\ batch = NoBatch
  /\ legacyFaults = 0 /\ broken = FALSE

-----------------------------------------------------------------------------
\* processNextBatch(): the cursor, and up to so many commits after it.
BatchBegins(count) ==
  /\ batch.phase = "none" /\ count \in 1..LegacyBatch /\ savedCursor + count <= Len(LegacyFeed)
  /\ batch' = [NoBatch EXCEPT !.phase = "resolve", !.at = savedCursor + 1, !.last = savedCursor + count]
  /\ UNCHANGED <<kind, saved, linked, savedCursor, legacyFaults, broken>>

\* The targets of the commit: its identities, or what is linked by now.
Resolve ==
  /\ batch.phase = "resolve"
  /\ batch' = [batch EXCEPT !.phase = "fold",
                 !.to = IF LegacyFeed[batch.at].own THEN LegacyFeed[batch.at].to ELSE SetToSeq(linked)]
  /\ UNCHANGED <<kind, saved, linked, savedCursor, legacyFaults, broken>>

\* A document without metadata is started afresh.
Loaded(d) ==
  IF batch.pending[d].loaded THEN batch.pending[d].content
  ELSE IF saved[d].known THEN saved[d].content ELSE <<>>

\* The daemon's store hands its state out by reference: what the handler
\* changes within it is changed in the store too.
Shared(d, content) ==
  IF kind = "daemon" /\ saved[d].known THEN [saved EXCEPT ![d].content = content] ELSE saved

\* The handler folds the commit into the next target and its links are added.
FoldTarget ==
  LET d == Head(batch.to)
      content == Append(Loaded(d), batch.at)
  IN /\ batch.phase = "fold" /\ batch.to # <<>>
     /\ batch' = [batch EXCEPT !.to = Tail(@),
                    !.pending[d] = [loaded |-> TRUE, content |-> content]]
     /\ saved' = Shared(d, content)
     /\ linked' = IF LegacyFeed[batch.at].links THEN linked \cup {d} ELSE linked
     /\ UNCHANGED <<kind, savedCursor, legacyFaults, broken>>

\* Mutant of AfterFold: the cursor is saved before the documents.
AfterFoldCursor == "cursor first"

AfterFold == "save"

CommitFolded ==
  /\ batch.phase = "fold" /\ batch.to = <<>>
  /\ batch' = IF batch.at < batch.last THEN [batch EXCEPT !.phase = "resolve", !.at = @ + 1]
              ELSE [batch EXCEPT !.phase = AfterFold]
  /\ UNCHANGED <<kind, saved, linked, savedCursor, legacyFaults, broken>>

\* persistProjectedState() reads the version it expects just before it writes.
SaveDocument(d) ==
  /\ batch.phase = "save" /\ batch.pending[d].loaded
  /\ saved' = [saved EXCEPT ![d] = [content |-> batch.pending[d].content, known |-> TRUE]]
  /\ batch' = [batch EXCEPT !.pending[d] = NoPending]
  /\ UNCHANGED <<kind, linked, savedCursor, legacyFaults, broken>>

SaveCursor ==
  /\ \/ batch.phase = "save" /\ \A d \in LegacyDocs : ~batch.pending[d].loaded
     \/ batch.phase = "cursor first"
  /\ savedCursor' = batch.last
  /\ batch' = IF batch.phase = "save" THEN NoBatch ELSE [batch EXCEPT !.phase = "save"]
  /\ UNCHANGED <<kind, saved, linked, legacyFaults, broken>>

LegacyFault == legacyFaults < MaxLegacyFaults /\ legacyFaults' = legacyFaults + 1

\* A call fails, or a handler throws: the batch is given up.
BatchFails ==
  /\ batch.phase # "none" /\ LegacyFault
  /\ batch' = NoBatch /\ broken' = TRUE
  /\ UNCHANGED <<kind, saved, linked, savedCursor>>

\* The process ends, and with it what lives in memory.
LegacyCrash ==
  /\ LegacyFault /\ batch' = NoBatch /\ broken' = TRUE
  /\ IF kind = "processor" THEN UNCHANGED <<saved, linked, savedCursor>>
     ELSE /\ saved' = [d \in LegacyDocs |-> [saved[d] EXCEPT !.known = FALSE]]
          /\ linked' = {} /\ savedCursor' = 0
  /\ UNCHANGED kind

LegacyNext ==
  \/ \E count \in 1..LegacyBatch : BatchBegins(count)
  \/ Resolve \/ FoldTarget \/ CommitFolded
  \/ \E d \in LegacyDocs : SaveDocument(d)
  \/ SaveCursor \/ BatchFails \/ LegacyCrash

LegacySpec == LegacyInit /\ [][LegacyNext]_legacyVars

-----------------------------------------------------------------------------
\* What the commits up to n leave, folded one at a time, with the links so far.
FoldCommit(acc, i) ==
  LET c == LegacyFeed[i]
      to == IF c.own THEN ToSet(c.to) ELSE acc.linked
  IN [content |-> [d \in LegacyDocs |-> IF d \in to THEN Append(acc.content[d], i) ELSE acc.content[d]],
      linked |-> IF c.links THEN acc.linked \cup to ELSE acc.linked]

LeftBy(n) ==
  FoldLeft(FoldCommit, [content |-> [d \in LegacyDocs |-> <<>>], linked |-> {}], [i \in 1..n |-> i])

\* How much of a sequence another one holds, in order.
HeldOf(want, have) ==
  FoldLeft(LAMBDA i, n : IF i < Len(want) /\ have[n] = want[i + 1] THEN i + 1 ELSE i, 0,
           [n \in DOMAIN have |-> n])

(* However a batch is cut and wherever it breaks off, every document holds,  *)
(* in order, at least what the commits up to the cursor leave when they are  *)
(* folded one at a time; and as long as no batch broke off, between batches  *)
(* it holds exactly that.  A batch that breaks off is folded again, without  *)
(* deduplication, also into the documents it had saved, and a joined commit  *)
(* may then find links that a later commit of the batch added.               *)
DocumentsCoverTheCursor ==
  \A d \in LegacyDocs :
    LET want == LeftBy(savedCursor).content[d]
        have == saved[d].content
    IN /\ HeldOf(want, have) = Len(want)
       /\ batch.phase = "none" /\ ~broken => have = want
=============================================================================
