------------------------------ MODULE AtomicMany ------------------------------
(***************************************************************************)
(* commitAtomicMany of the projection stores: a batch of writes, each of    *)
(* some documents under preconditions and of one dedupe key, is stored as a *)
(* whole or not at all.  MongoDB runs it write by write in a transaction,   *)
(* the in-memory store on a copy in one go.                                 *)
(***************************************************************************)
EXTENDS Naturals, Sequences, SequencesExt, FiniteSets

CONSTANTS
  BatchCalls, BatchDocs,
  WritesOf,         \* [call -> sequence of writes, each a sequence of documents]
  SequenceOf,       \* [call -> the sequence of its checkpoints]
  MaxBatchTries,    \* bound of the attempts of a caller
  MaxBatchFaults    \* bound of the failures of the server

ASSUME AtomicAssumption ==
  /\ WritesOf \in [BatchCalls -> Seq(Seq(BatchDocs))]
  /\ SequenceOf \in [BatchCalls -> Nat \ {0}]
  /\ \A b, c \in BatchCalls : SequenceOf[b] = SequenceOf[c] => b = c
  /\ MaxBatchTries \in Nat /\ MaxBatchFaults \in Nat

VARIABLES
  adapter,       \* "mongo" or "memory"
  batchStore,    \* [docs: [BatchDocs -> [revision, calls]], dedupe]
  batchCall,     \* [BatchCalls -> the call of commitAtomicMany and its host]
  batchFaults

atomicVars == <<adapter, batchStore, batchCall, batchFaults>>

NoDocument == [revision |-> 0, calls |-> <<>>]
EmptyStore == [docs |-> [d \in BatchDocs |-> NoDocument], dedupe |-> {}]
NewCall == [phase |-> "new", tries |-> 1, read |-> EmptyStore.docs,
            index |-> 1, base |-> EmptyStore, view |-> EmptyStore, result |-> "none"]

Writes(c) == DOMAIN WritesOf[c]
DocsOf(c) == UNION {ToSet(WritesOf[c][i]) : i \in Writes(c)}
KeysOf(c) == {<<c, i>> : i \in Writes(c)}

AtomicInit ==
  /\ adapter \in {"mongo", "memory"}
  /\ batchStore = EmptyStore
  /\ batchCall = [c \in BatchCalls |-> NewCall]
  /\ batchFaults = 0

Becomes(c, call) == batchCall' = [batchCall EXCEPT ![c] = call]
BatchFault == batchFaults < MaxBatchFaults /\ batchFaults' = batchFaults + 1

-----------------------------------------------------------------------------
\* The caller: unless its dedupe keys are stored it reads the revisions of
\* its documents, then the documents, and tries again what was not terminal.
HostReadsRevisions(c) ==
  LET call == batchCall[c]
  IN /\ call.phase = "new"
     /\ Becomes(c, IF KeysOf(c) # {} /\ KeysOf(c) \subseteq batchStore.dedupe
                   THEN [call EXCEPT !.phase = "done", !.result = "duplicate"]
                   ELSE [call EXCEPT !.phase = "reading", !.read = batchStore.docs])
     /\ UNCHANGED <<adapter, batchStore, batchFaults>>

HostReadsDocuments(c) ==
  LET call == batchCall[c]
  IN /\ call.phase = "reading"
     /\ Becomes(c, [call EXCEPT !.phase = "ready",
          !.read = [d \in BatchDocs |-> [@[d] EXCEPT !.calls = batchStore.docs[d].calls]]])
     /\ UNCHANGED <<adapter, batchStore, batchFaults>>

HostRetries(c) ==
  LET call == batchCall[c]
  IN /\ call.phase = "done" /\ call.result \in {"conflict", "transient"}
     /\ call.tries < MaxBatchTries
     /\ Becomes(c, [NewCall EXCEPT !.tries = call.tries + 1])
     /\ UNCHANGED <<adapter, batchStore, batchFaults>>

-----------------------------------------------------------------------------
\* A document may be written once in a batch, which may not be empty.
Duplicates(c) ==
  \/ \E i, j \in Writes(c) : i # j /\ ToSet(WritesOf[c][i]) \cap ToSet(WritesOf[c][j]) # {}
  \/ \E i \in Writes(c) : ~IsInjective(WritesOf[c][i])
Invalid(c) == Writes(c) = {} \/ Duplicates(c)

\* Mutant of AsRead: a document that was not there is not looked at again.
AsReadUnlessNew(c, view, d) ==
  LET expected == batchCall[c].read[d].revision
  IN expected # 0 => view.docs[d].revision = expected

\* The precondition of a document: the revision is as it was read.
AsRead(c, view, d) == view.docs[d].revision = batchCall[c].read[d].revision

\* A write as the transaction sees it: its documents, then its dedupe key.
Refused(c, view, i) == \E d \in ToSet(WritesOf[c][i]) : ~AsRead(c, view, d)
Applied(c, view, i) ==
  LET Folded(d) == [revision |-> SequenceOf[c], calls |-> Append(batchCall[c].read[d].calls, c)]
  IN [docs |-> [d \in BatchDocs |-> IF d \in ToSet(WritesOf[c][i]) THEN Folded(d) ELSE view.docs[d]],
      dedupe |-> view.dedupe \cup {<<c, i>>}]

Answered(c, result) == [batchCall[c] EXCEPT !.phase = "done", !.result = result, !.base = EmptyStore, !.view = EmptyStore]

CommitInvalid(c) ==
  /\ batchCall[c].phase = "ready"
  /\ Invalid(c)
  /\ Becomes(c, Answered(c, "terminal"))
  /\ UNCHANGED <<adapter, batchStore, batchFaults>>

\* All writes on a copy that replaces the maps when none was refused.
CommitInMemory(c) ==
  LET Apply(staged, i) == [view |-> Applied(c, staged.view, i), refused |-> staged.refused \/ Refused(c, staged.view, i)]
      staged == FoldLeft(Apply, [view |-> batchStore, refused |-> FALSE], [i \in Writes(c) |-> i])
  IN /\ adapter = "memory" /\ batchCall[c].phase = "ready"
     /\ ~Invalid(c)
     /\ IF staged.refused
        THEN Becomes(c, Answered(c, "conflict")) /\ UNCHANGED batchStore
        ELSE Becomes(c, Answered(c, "committed")) /\ batchStore' = staged.view
     /\ UNCHANGED <<adapter, batchFaults>>

Begun(c) == [batchCall[c] EXCEPT !.phase = "open", !.index = 1, !.base = batchStore, !.view = batchStore]
BeginTransaction(c) ==
  /\ adapter = "mongo" /\ batchCall[c].phase = "ready"
  /\ ~Invalid(c)
  /\ Becomes(c, Begun(c))
  /\ UNCHANGED <<adapter, batchStore, batchFaults>>

\* The server ends a transaction that writes what another open one has
\* written, or what has changed since its snapshot; the driver runs it again.
Staged(c) == {d \in BatchDocs : batchCall[c].phase = "open" /\ batchCall[c].view.docs[d] # batchCall[c].base.docs[d]}
WriteConflict(c, i) == \E d \in ToSet(WritesOf[c][i]) :
  \/ batchCall[c].base.docs[d] # batchStore.docs[d]
  \/ \E other \in BatchCalls \ {c} : d \in Staged(other)

ApplyWrite(c) ==
  LET call == batchCall[c]
      i == call.index
  IN /\ call.phase = "open" /\ i \in Writes(c)
     /\ Becomes(c, CASE Refused(c, call.view, i) -> Answered(c, "conflict")
                     [] ~Refused(c, call.view, i) /\ WriteConflict(c, i) -> Begun(c)
                     [] OTHER -> [call EXCEPT !.view = Applied(c, @, i), !.index = i + 1])
     /\ UNCHANGED <<adapter, batchStore, batchFaults>>

WithBatch(c) ==
  LET view == batchCall[c].view
  IN [docs |-> [d \in BatchDocs |-> IF d \in Staged(c) THEN view.docs[d] ELSE batchStore.docs[d]],
      dedupe |-> batchStore.dedupe \cup KeysOf(c)]

CommitTransaction(c) ==
  /\ batchCall[c].phase = "open" /\ batchCall[c].index \notin Writes(c)
  /\ batchStore' = WithBatch(c)
  /\ Becomes(c, Answered(c, "committed"))
  /\ UNCHANGED <<adapter, batchFaults>>

\* The transaction is committed but the driver gives up on the outcome.
CommitUnknown(c) ==
  /\ BatchFault
  /\ batchCall[c].phase = "open" /\ batchCall[c].index \notin Writes(c)
  /\ batchStore' = WithBatch(c)
  /\ Becomes(c, Answered(c, "transient"))
  /\ UNCHANGED adapter

TransactionFails(c) ==
  /\ BatchFault
  /\ batchCall[c].phase = "open"
  /\ Becomes(c, Answered(c, "transient"))
  /\ UNCHANGED <<adapter, batchStore>>

AtomicNext == \E c \in BatchCalls :
  \/ HostReadsRevisions(c) \/ HostReadsDocuments(c) \/ HostRetries(c)
  \/ CommitInvalid(c) \/ CommitInMemory(c) \/ BeginTransaction(c)
  \/ ApplyWrite(c) \/ CommitTransaction(c) \/ CommitUnknown(c) \/ TransactionFails(c)

AtomicSpec == AtomicInit /\ [][AtomicNext]_atomicVars

-----------------------------------------------------------------------------
(* As long as no two batches write the same sequence, so that a revision     *)
(* names a content, a batch is folded into all its documents together with   *)
(* all its dedupe keys, or into none; no concurrent batch is ever lost, and  *)
(* none is folded twice, although an answer that is not terminal may belong  *)
(* to a batch that was stored and is tried again; an answer that says        *)
(* committed, conflict or terminal is true.                                  *)
BatchesAreWhole == \A c \in BatchCalls :
  LET stored == KeysOf(c) \cap batchStore.dedupe # {}
      result == batchCall[c].result
  IN /\ stored => KeysOf(c) \subseteq batchStore.dedupe
     /\ \A d \in DocsOf(c) :
          Cardinality({n \in DOMAIN batchStore.docs[d].calls : batchStore.docs[d].calls[n] = c}) = IF stored THEN 1 ELSE 0
     /\ result \in {"committed", "duplicate"} => stored
     /\ result \in {"conflict", "terminal"} => ~stored
=============================================================================
