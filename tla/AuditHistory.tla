----------------------------- MODULE AuditHistory -----------------------------
(***************************************************************************)
(* The audit read model of the saga runtime: every upsert of an execution   *)
(* record is compared with the one before and leaves an entry per changed    *)
(* field in the history of the execution; readers page through the history   *)
(* of one execution or of all of them by the index they have reached, while  *)
(* it grows.                                                                 *)
(***************************************************************************)
EXTENDS Naturals, Sequences, SequencesExt, FiniteSets

CONSTANTS
  AuditedIds,     \* execution ids, natural numbers for their order as strings
  AuditRecords,   \* records upserted: [status, attempt, ref, metadata]
  MaxAuditTime, MaxUpserts,   \* bounds of the clock and of the upserts
  PageLimit       \* limit of a query

VARIABLES
  auditTime,
  audited,        \* [AuditedIds -> the record last upserted]
  nextSequence,   \* [AuditedIds -> executionSequence]
  auditLog,       \* [AuditedIds -> executionHistory]
  upserts,
  auditReader     \* a caller that pages through the history

auditVars == <<auditTime, audited, nextSequence, auditLog, upserts, auditReader>>

Unrecorded == [status |-> "none", attempt |-> 0, ref |-> FALSE, metadata |-> FALSE]

ASSUME AuditAssumption ==
  /\ AuditedIds \subseteq Nat /\ IsFiniteSet(AuditedIds)
  /\ Unrecorded \notin AuditRecords /\ \A record \in AuditRecords : record.ref \in BOOLEAN
  /\ PageLimit \in Nat

NoReader == [of |-> {}, since |-> 0, cursor |-> 0, seen |-> <<>>, more |-> FALSE]

AuditInit ==
  /\ auditTime = 1
  /\ audited = [e \in AuditedIds |-> Unrecorded]
  /\ nextSequence = [e \in AuditedIds |-> 1]
  /\ auditLog = [e \in AuditedIds |-> <<>>]
  /\ upserts = 0
  /\ auditReader = NoReader

HistoryPrecedes(a, b) ==
  \/ a.at < b.at
  \/ a.at = b.at /\ a.id < b.id
  \/ a.at = b.at /\ a.id = b.id /\ a.sequence < b.sequence

\* The place of an entry when they are sorted, by a sort that is stable.
Rank(entries, i) ==
  Cardinality({j \in DOMAIN entries :
                 \/ HistoryPrecedes(entries[j], entries[i])
                 \/ ~HistoryPrecedes(entries[i], entries[j]) /\ j <= i})
HistoryOrder(entries) ==
  LET placed == {<<Rank(entries, i), entries[i]>> : i \in DOMAIN entries}
  IN [k \in DOMAIN entries |-> (CHOOSE p \in placed : p[1] = k)[2]]

-----------------------------------------------------------------------------
\* The kinds of the entries an upsert leaves, in their order: a cleared
\* response reference is none of them.
EntryIf(changed, kind) == IF changed THEN <<kind>> ELSE <<>>
Changes(before, after) ==
  IF before = Unrecorded THEN <<"created">>
  ELSE EntryIf(before.status # after.status, "status") \o EntryIf(before.attempt # after.attempt, "attempt")
       \o EntryIf(before.ref # after.ref /\ after.ref, "ref")
       \o EntryIf(before.metadata # after.metadata, "metadata")

\* Mutant of NewSequence: an upsert counts as one entry.
NewSequenceByUpsert(e, entries) == nextSequence[e] + 1

NewSequence(e, entries) == nextSequence[e] + Len(entries)

UpsertExecution(e, record) ==
  LET kinds == Changes(audited[e], record)
      entries == [k \in DOMAIN kinds |->
        [id |-> e, sequence |-> nextSequence[e] + k - 1, at |-> auditTime, kind |-> kinds[k],
         before |-> audited[e], after |-> record]]
  IN /\ upserts < MaxUpserts /\ upserts' = upserts + 1
     /\ audited' = [audited EXCEPT ![e] = record]
     /\ IF kinds = <<>> THEN UNCHANGED <<nextSequence, auditLog>>
        ELSE /\ nextSequence' = [nextSequence EXCEPT ![e] = NewSequence(e, entries)]
             /\ auditLog' = [auditLog EXCEPT ![e] = HistoryOrder(@ \o entries)]
     /\ UNCHANGED <<auditTime, auditReader>>

AuditTick ==
  /\ auditTime < MaxAuditTime /\ auditTime' = auditTime + 1
  /\ UNCHANGED <<audited, nextSequence, auditLog, upserts, auditReader>>

-----------------------------------------------------------------------------
\* The histories of some executions, put together and sorted.
Filtered(of) == HistoryOrder(FlattenSeq([i \in DOMAIN SetToSeq(of) |-> auditLog[SetToSeq(of)[i]]]))

\* A query of the history of some executions from a cursor.
QueryHistory(reader0) ==
  LET all == Filtered(reader0.of)
      next == IF reader0.cursor + PageLimit < Len(all) THEN reader0.cursor + PageLimit ELSE Len(all)
  IN auditReader' = [reader0 EXCEPT !.cursor = next, !.more = next < Len(all),
                                    !.seen = @ \o SubSeq(all, reader0.cursor + 1, next)]

BeginReading(of) ==
  /\ auditReader = NoReader
  /\ QueryHistory([NoReader EXCEPT !.of = of, !.since = auditTime])
  /\ UNCHANGED <<auditTime, audited, nextSequence, auditLog, upserts>>

ReadOn ==
  /\ auditReader.more
  /\ QueryHistory(auditReader)
  /\ UNCHANGED <<auditTime, audited, nextSequence, auditLog, upserts>>

AuditNext ==
  \/ \E e \in AuditedIds, record \in AuditRecords : UpsertExecution(e, record)
  \/ AuditTick
  \/ \E of \in {AuditedIds} \cup {{e} : e \in AuditedIds} : BeginReading(of)
  \/ ReadOn

AuditSpec == AuditInit /\ [][AuditNext]_auditVars

-----------------------------------------------------------------------------
\* The records agree in all that a change of leaves an entry.
SameTrail(a, b) == a.status = b.status /\ a.attempt = b.attempt /\ a.metadata = b.metadata /\ (b.ref => a.ref)

(* The history of an execution, by sequence number, has no gap and no number *)
(* twice, starts with its creation, and leads from every recorded state to   *)
(* the next and to the record that is stored now (a cleared response         *)
(* reference apart, which leaves no entry); and a reader who pages while the *)
(* history grows has been given what was recorded before its first page,     *)
(* each entry at the index it has in the history and, once there is no next  *)
(* page, all of it, although the cursor is only an index                     *)
(* (runtimeAuditProjections.ts:230-341, 389-419).                            *)
AuditTrailIsComplete ==
  /\ \A e \in AuditedIds :
       LET log == auditLog[e]
           At(n) == log[CHOOSE i \in DOMAIN log : log[i].sequence = n]
       IN /\ {log[i].sequence : i \in DOMAIN log} = 1 .. Len(log)
          /\ log # <<>> => /\ At(1).kind = "created"
                           /\ SameTrail(At(Len(log)).after, audited[e])
          /\ \A n \in 2 .. Len(log) :
               \/ At(n).before = At(n - 1).before /\ At(n).after = At(n - 1).after
               \/ SameTrail(At(n - 1).after, At(n).before)
  /\ LET all == Filtered(auditReader.of)
         seen == auditReader.seen
         Old(entries) == {k \in DOMAIN entries : entries[k].at < auditReader.since}
     IN /\ \A k \in Old(seen) : k \in Old(all) /\ seen[k] = all[k]
        /\ \A k \in Old(all) : k \in DOMAIN seen => seen[k] = all[k]
        /\ auditReader # NoReader /\ ~auditReader.more => Old(all) \subseteq DOMAIN seen
=============================================================================
