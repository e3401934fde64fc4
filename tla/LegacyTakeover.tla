---------------------------- MODULE LegacyTakeover ----------------------------
(***************************************************************************)
(* A collection changes hands: the workers of the commit-native runtime     *)
(* adopt the documents the old runtime has left, by comparing what they     *)
(* read at first touch, and notice when it writes again                     *)
(* (projection-runtime-store-mongodb, store/sourceCommitV2.ts).  The old    *)
(* writer should have been stopped; nothing but these comparisons stands    *)
(* between it and the new ones.                                            *)
(*                                                                         *)
(* A state is known by the number of the write that first made it, 0 for    *)
(* none.  Times of different machines are in no order; a checkpoint or a    *)
(* time 0 is an absent field, a revision 0 an absent v2Revision.            *)
(***************************************************************************)
EXTENDS Naturals

CONSTANTS
  TakenDocs,     \* documents of the collection
  Folders,       \* executions of the new runtime, each with a source of its own
  Times,         \* readings of the machines' clocks
  MaxStates,     \* bound of the writes
  MaxTakeoverFaults

VARIABLES
  row,       \* the collection
  lastBy,    \* history: who wrote the document last
  old,       \* the old writer: the states it holds and its checkpoint
  fold,      \* the executions of the new one
  states,    \* writes so far
  upsets     \* transactions that have thrown

takeoverVars == <<row, lastBy, old, fold, states, upsets>>

\* What a document held when it was adopted or last written by an adopter.
Observed(r) == {[stamp |-> r.stamp, checkpoint |-> r.checkpoint]}
Resting == [pc |-> "idle", doc |-> 0, rev |-> 0, state |-> 0, original |-> {}]
NoRow == [rev |-> 0, state |-> 0, stamp |-> 0, checkpoint |-> 0, observed |-> {}]
OldRow(stamp, checkpoint) ==
  [rev |-> 0, state |-> 1, stamp |-> stamp, checkpoint |-> checkpoint, observed |-> {}]

\* Documents of the old runtime, some from before it kept times or checkpoints.
TakeoverInit ==
  /\ row \in [TakenDocs -> {NoRow} \cup {OldRow(t, k) : t \in Times \cup {0}, k \in {0, 1}}]
  /\ lastBy = [d \in TakenDocs |-> "old"]
  /\ old = [held |-> [d \in TakenDocs |-> row[d].state], checkpoint |-> 1]
  /\ fold = [f \in Folders |-> Resting]
  /\ states = 1 /\ upsets = 0

-----------------------------------------------------------------------------
(* The old writer, which loads a batch's documents and saves them later.    *)

OldLoad(d) ==
  /\ old' = [old EXCEPT !.held[d] = row[d].state]
  /\ UNCHANGED <<row, lastBy, fold, states, upsets>>

\* saveWithSession: the state a handler made, or left as it was, with the
\* checkpoint of the batch.
OldSave(d, stamp) ==
  /\ states < MaxStates
  /\ \E state \in {old.held[d], states + 1} \ {0} :
       /\ row' = [row EXCEPT ![d].state = state, ![d].stamp = stamp, ![d].checkpoint = old.checkpoint + 1]
       /\ old' = [held |-> [old.held EXCEPT ![d] = state], checkpoint |-> old.checkpoint + 1]
  /\ lastBy' = [lastBy EXCEPT ![d] = "old"]
  /\ states' = states + 1
  /\ UNCHANGED <<fold, upsets>>

-----------------------------------------------------------------------------
(* The new runtime.                                                        *)

\* Mutant of Noticed: only the time is compared.
NoticedByTime(r) == r.observed # {} /\ \A o \in r.observed : o.stamp # r.stamp

\* readDocuments throws: the document is not as its adopters left it.
Noticed(r) == r.observed # {} /\ r.observed # Observed(r)

\* legacyOriginal, of a document no adopter has written.
Original(r) ==
  IF r.rev = 0 /\ r.state # 0
  THEN {[state |-> r.state, stamp |-> r.stamp, checkpoint |-> r.checkpoint]} ELSE {}

Halts(f, why) == fold' = [fold EXCEPT ![f] = [Resting EXCEPT !.pc = why, !.doc = fold[f].doc]]
Conflicts(f) == fold' = [fold EXCEPT ![f] = Resting]

Load(f, d) ==
  /\ fold[f].pc = "idle"
  /\ fold' = [fold EXCEPT ![f] =
       IF Noticed(row[d]) THEN [Resting EXCEPT !.pc = "noticed", !.doc = d]
       ELSE [pc |-> "loaded", doc |-> d, rev |-> row[d].rev, state |-> row[d].state, original |-> Original(row[d])]]
  /\ UNCHANGED <<row, lastBy, old, states, upsets>>

\* lacksLegacyOriginal, and the comparisons of validateSnapshot.
Unannounced(f, r) == fold[f].rev = 0 /\ fold[f].original = {} /\ Original(r) # {}
Outrun(f, r) == fold[f].rev # r.rev
Changed(f, r) == fold[f].original # {} /\ fold[f].original # Original(r)
Accepts(f, r) == ~Noticed(r) /\ ~Unannounced(f, r) /\ ~Outrun(f, r) /\ ~Changed(f, r)

\* writeDocuments; its filters repeat, in the transaction, what was compared.
Replaced(f, r, stamp) ==
  [r EXCEPT !.rev = @ + 1, !.state = states + 1, !.stamp = stamp,
            !.observed = IF fold[f].original # {} \/ r.observed # {}
                         THEN Observed([r EXCEPT !.stamp = stamp]) ELSE {}]

Stores(f, stamp) ==
  LET d == fold[f].doc
  IN /\ states < MaxStates
     /\ row' = [row EXCEPT ![d] = Replaced(f, row[d], stamp)]
     /\ lastBy' = [lastBy EXCEPT ![d] = "new"]
     /\ states' = states + 1

Commit(f, stamp) ==
  /\ fold[f].pc = "loaded" /\ Accepts(f, row[fold[f].doc])
  /\ Stores(f, stamp)
  /\ fold' = [fold EXCEPT ![f] = Resting]
  /\ UNCHANGED <<old, upsets>>

Refuse(f) ==
  LET r == row[fold[f].doc]
  IN /\ fold[f].pc = "loaded" /\ ~Accepts(f, r)
     /\ CASE Noticed(r) -> Halts(f, "noticed")
          [] ~Noticed(r) /\ Unannounced(f, r) -> Halts(f, "changed")
          [] ~Noticed(r) /\ ~Unannounced(f, r) /\ Outrun(f, r) -> Conflicts(f)
          [] OTHER -> Halts(f, "changed")
     /\ UNCHANGED <<row, lastBy, old, states, upsets>>

\* The transaction throws, before or after the server has committed it: at
\* first touch an operator must look, later the executor tries again.
Throws(f) == IF fold[f].original # {} THEN Halts(f, "inspect") ELSE Conflicts(f)

CommitThrows(f) ==
  /\ fold[f].pc = "loaded" /\ upsets < MaxTakeoverFaults
  /\ Throws(f) /\ upsets' = upsets + 1
  /\ \/ UNCHANGED <<row, lastBy, states>>
     \/ Accepts(f, row[fold[f].doc]) /\ (\E stamp \in Times : Stores(f, stamp))
  /\ UNCHANGED old

\* The halted source is offered its commit again.
Resume(f) ==
  /\ fold[f].pc \in {"noticed", "changed", "inspect"}
  /\ fold' = [fold EXCEPT ![f] = Resting]
  /\ UNCHANGED <<row, lastBy, old, states, upsets>>

TakeoverNext ==
  \/ \E d \in TakenDocs : OldLoad(d) \/ (\E stamp \in Times : OldSave(d, stamp))
  \/ \E f \in Folders :
       \/ \E d \in TakenDocs : Load(f, d)
       \/ \E stamp \in Times : Commit(f, stamp)
       \/ Refuse(f) \/ CommitThrows(f) \/ Resume(f)

TakeoverSpec == TakeoverInit /\ [][TakeoverNext]_takeoverVars

-----------------------------------------------------------------------------
(* An old writer that goes on behind the takeover, whatever the clocks say:  *)
(* an adopted document it has written is recognised, and only such a one; no *)
(* fold that began from another state than it replaces is accepted on a      *)
(* document of the old runtime; and a source is halted only by a document    *)
(* the old writer has changed in the meantime, or by a transaction that has  *)
(* thrown (sourceCommitV2.ts:51-55, 99-106, 141-161, 251-274; the promise of *)
(* docs/architecture/projection-accepted-baseline-cutover.md:14-16).         *)
OldWritesAreNoticed ==
  /\ \A d \in TakenDocs : row[d].observed # {} => (Noticed(row[d]) <=> lastBy[d] = "old")
  /\ \A f \in Folders :
       LET r == row[fold[f].doc] IN
       /\ fold[f].pc = "loaded" =>
            (Accepts(f, r) /\ (r.observed # {} \/ Original(r) # {}) => fold[f].state = r.state)
       /\ fold[f].pc \in {"noticed", "changed"} => r.checkpoint > 1
       /\ fold[f].pc = "inspect" => upsets > 0
=============================================================================
