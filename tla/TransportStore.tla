--------------------------- MODULE TransportStore ---------------------------
(***************************************************************************)
(* The durable rows behind one queue of the projection transport           *)
(* (packages/projection-transport/src/mongoTransportStore.ts, with         *)
(* acceptedBaseline.ts and joinedCutover.ts): the manifest the queue is    *)
(* bound to, the accepted baseline and the coverage of each source, the    *)
(* diagnostic probe of each source and the adoption of the operator's      *)
(* approval of the initial links.                                          *)
(*                                                                         *)
(* CommitCoordinator takes `admitForDispatch` for one step; here it is the *)
(* dozen awaited calls it consists of, interleaved with those of other     *)
(* clients.  A client is one chain of awaited calls of some process.       *)
(* An approval is its own digest; the rows are inserted once ($setOnInsert *)
(* or a unique `_id`), and replaced only where an action says so.          *)
(***************************************************************************)
EXTENDS Integers

CONSTANTS
  Clients, Sources,
  Manifests,      \* registry manifests some deployment carries
  Joined,         \* those with joined definitions
  Anchors,        \* start anchors an operator may accept
  Inventories,    \* complete contents of the joined link collections
  Moved,          \* their content once dispatches subscribe or unsubscribe
  None,
  MaxSeq,         \* bound: last sequence of a source
  MaxApprovals,   \* bound: approvals ever provisioned
  MaxFaults       \* bound: failed calls and lost replies

NoSeq == -1       \* a coverage of `null`

Baseline == [manifest : Manifests, anchor : Anchors]
Approval == [manifest : Joined, inventory : Inventories]
Coverage == [anchor : Anchors, seq : NoSeq .. MaxSeq]

\* `null` is neither a manifest nor a stored row.
ASSUME TransportAssumption ==
  /\ Joined \subseteq Manifests /\ Anchors \subseteq 0 .. MaxSeq
  /\ Moved \notin Inventories
  /\ None \notin Manifests \cup Baseline \cup Approval \cup Coverage
  /\ MaxSeq \in Nat /\ MaxApprovals \in Nat /\ MaxFaults \in Nat

VARIABLES
  manifest,   \* the manifest each client is deployed with
  binding,    \* the queue's binding row
  baseline,   \* accepted-baseline rows
  coverage,   \* coverage rows
  probe,      \* the queue topology last recorded for each source
  approval,   \* the operator's approval row
  adoption,   \* the adoption row
  links,      \* the joined link collections
  seeded,     \* history: their initial content
  ready,      \* the cached readiness of each client
  client,     \* the call in progress
  approvals, faults

rows == <<binding, baseline, coverage, probe, adoption>>
operator == <<manifest, seeded, approval, approvals>>
vars == <<rows, operator, links, ready, client, faults>>

Idle == [pc |-> "idle", op |-> "none", s |-> None, rec |-> None, app |-> None,
         cov |-> NoSeq, seen |-> "none"]

Opening == {"bind", "bind_insert", "bind_check"}
Installing == {"prior", "coverage_check", "insert", "compare"}
Admitting == {"baseline", "binding", "approval", "adoption", "verify", "adopt", "assert"}
Probing == {"probe_base", "probe_read", "probe_write"}
Covering == {"upsert", "read_coverage"}
Advancing == {"admitted", "advance", "reconcile"}

\* A coverage row may have been left by a release that kept no baselines.
Init ==
  /\ manifest \in [Clients -> Manifests]
  /\ binding = None
  /\ baseline = [s \in Sources |-> None]
  /\ coverage \in [Sources -> {None} \cup {[anchor |-> a, seq |-> a] : a \in Anchors}]
  /\ probe = [s \in Sources |-> "none"]
  /\ approval = None /\ adoption = None
  /\ links \in Inventories /\ seeded = links
  /\ ready = [c \in Clients |-> "no"]
  /\ client = [c \in Clients |-> Idle]
  /\ approvals = 0 /\ faults = 0

-----------------------------------------------------------------------------
At(c, pc) == client[c].pc = pc
Src(c) == client[c].s
Go(c, pc) == client' = [client EXCEPT ![c].pc = pc]
Reject(c) == client' = [client EXCEPT ![c] = Idle]

\* A step that only reads the rows.
Reads == UNCHANGED <<rows, operator, links, ready, faults>>
\* A step that writes one row and nothing else, named by its own conjunct.
Writes == UNCHANGED <<operator, links, ready, faults>>

\* Where a call goes once its client is ready.
First(op) == CASE op = "install" -> "prior"
               [] op = "probe"   -> "probe_base"
               [] op = "admit"   -> "baseline"

\* assertAcceptedBaseline, against the manifest of the client.
ValidBaseline(c, r) == r # None /\ r.manifest = manifest[c]

\* An operator's tool installs a baseline, a starting worker probes a source,
\* a coordinator asks for a commit's admission.
Begin(c) ==
  /\ At(c, "idle") /\ ready[c] # "failed"
  /\ \E s \in Sources, op \in {"install", "probe", "admit"}, a \in Anchors :
       client' = [client EXCEPT ![c] = [Idle EXCEPT
         !.pc = IF ready[c] = "yes" THEN First(op) ELSE "bind", !.op = op, !.s = s,
         !.rec = IF op = "install" THEN [manifest |-> manifest[c], anchor |-> a] ELSE None]]
  /\ Reads

-----------------------------------------------------------------------------
(* initialize: the readiness promise, kept whether it resolves or rejects. *)

Opened(c) ==
  /\ ready' = [ready EXCEPT ![c] = "yes"]
  /\ Go(c, First(client[c].op))

NotOpened(c) ==
  /\ ready' = [ready EXCEPT ![c] = "failed"]
  /\ Reject(c)

ReadBinding(c) ==
  /\ At(c, "bind")
  /\ \/ binding = None /\ Go(c, "bind_insert") /\ UNCHANGED ready
     \/ binding = manifest[c] /\ Opened(c)
     \/ binding \notin {None, manifest[c]} /\ NotOpened(c)
  /\ UNCHANGED <<rows, operator, links, faults>>

PutBinding(c) == binding' = IF binding = None THEN manifest[c] ELSE binding

InsertBinding(c) ==
  /\ At(c, "bind_insert")
  /\ PutBinding(c) /\ Go(c, "bind_check")
  /\ UNCHANGED <<baseline, coverage, probe, adoption>> /\ Writes

CheckBinding(c) ==
  /\ At(c, "bind_check")
  /\ IF binding = manifest[c] THEN Opened(c) ELSE NotOpened(c)
  /\ UNCHANGED <<rows, operator, links, faults>>

-----------------------------------------------------------------------------
(* installAcceptedBaseline.                                                *)

ReadPrior(c) ==
  /\ At(c, "prior")
  /\ Go(c, IF baseline[Src(c)] = None THEN "coverage_check" ELSE "insert")
  /\ Reads

CheckCoverage(c) ==
  /\ At(c, "coverage_check")
  /\ IF coverage[Src(c)] = None THEN Go(c, "insert") ELSE Reject(c)
  /\ Reads

InsertBaseline(c) ==
  /\ At(c, "insert")
  /\ baseline' = [baseline EXCEPT ![Src(c)] = IF @ = None THEN client[c].rec ELSE @]
  /\ Go(c, "compare")
  /\ UNCHANGED <<binding, coverage, probe, adoption>> /\ Writes

CompareBaseline(c) ==
  /\ At(c, "compare")
  /\ IF baseline[Src(c)] = client[c].rec THEN Go(c, "probe_read") ELSE Reject(c)
  /\ Reads

-----------------------------------------------------------------------------
(* admitForDispatch and verifyJoinedCutover.                               *)

ReadBaseline(c) ==
  /\ At(c, "baseline")
  /\ IF ValidBaseline(c, baseline[Src(c)])
     THEN client' = [client EXCEPT ![c].rec = baseline[Src(c)], ![c].pc = "binding"]
     ELSE Reject(c)
  /\ Reads

\* The baseline and the binding, both immutable, are read once more.
VerifyBinding(c) ==
  /\ At(c, "binding")
  /\ IF ~ValidBaseline(c, baseline[Src(c)]) \/ binding # manifest[c] THEN Reject(c)
     ELSE Go(c, IF manifest[c] \in Joined THEN "approval" ELSE "probe_base")
  /\ Reads

ReadApproval(c) ==
  /\ At(c, "approval")
  /\ IF approval # None /\ approval.manifest = manifest[c]
     THEN client' = [client EXCEPT ![c].app = approval, ![c].pc = "adoption"]
     ELSE Reject(c)
  /\ Reads

ReadAdoption(c) ==
  /\ At(c, "adoption")
  /\ Go(c, IF adoption = None THEN "verify" ELSE "assert")
  /\ Reads

\* What the adoption transaction finds in its snapshot.
Verified(c) ==
  approval = client[c].app /\ adoption = None /\ links = client[c].app.inventory

\* The transaction reads.  When it throws, its catch goes to the same check
\* of the adoption row as its success.
Verify(c) ==
  /\ At(c, "verify")
  /\ Go(c, IF Verified(c) THEN "adopt" ELSE "assert")
  /\ Reads

\* It commits; if another client's commit came first it is retried, and
\* finds that row.
Adopt(c) ==
  /\ At(c, "adopt")
  /\ adoption' = IF adoption = None THEN client[c].app ELSE adoption
  /\ Go(c, "assert")
  /\ UNCHANGED <<binding, baseline, coverage, probe>> /\ Writes

\* Mutant of AssertAdoption: any adoption will do.
AssertAnyAdoption(c) ==
  /\ At(c, "assert")
  /\ IF adoption # None THEN Go(c, "probe_base") ELSE Reject(c)
  /\ Reads

\* assertJoinedAdoption; the attempts of the catch are one look that may be late.
AssertAdoption(c) ==
  /\ At(c, "assert")
  /\ IF adoption = client[c].app THEN Go(c, "probe_base") ELSE Reject(c)
  /\ Reads

PutCoverage(c) ==
  coverage' = [coverage EXCEPT ![Src(c)] =
    IF @ = None THEN [anchor |-> client[c].rec.anchor, seq |-> NoSeq] ELSE @]

UpsertCoverage(c) ==
  /\ At(c, "upsert")
  /\ PutCoverage(c) /\ Go(c, "read_coverage")
  /\ UNCHANGED <<binding, baseline, probe, adoption>> /\ Writes

ReadCoverage(c) ==
  LET row == coverage[Src(c)] IN
  /\ At(c, "read_coverage")
  /\ IF row # None /\ row.anchor = client[c].rec.anchor
     THEN client' = [client EXCEPT ![c].cov = row.seq, ![c].pc = "admitted"]
     ELSE Reject(c)
  /\ Reads

-----------------------------------------------------------------------------
(* probeRegisteredSource and recordSourceProbe.                            *)

ReadProbedBaseline(c) ==
  /\ At(c, "probe_base")
  /\ IF ValidBaseline(c, baseline[Src(c)]) THEN Go(c, "probe_read") ELSE Reject(c)
  /\ Reads

ReadProbe(c) ==
  /\ At(c, "probe_read")
  /\ client' = [client EXCEPT ![c].seen = probe[Src(c)], ![c].pc = "probe_write"]
  /\ Reads

\* Only a starting worker has asserted the topology; others keep what is known.
PutProbe(c) ==
  probe' = [probe EXCEPT ![Src(c)] =
    IF client[c].op = "probe" THEN "asserted"
    ELSE IF client[c].seen # "none" THEN client[c].seen ELSE "not_checked"]

WriteProbe(c) ==
  /\ At(c, "probe_write")
  /\ PutProbe(c)
  /\ IF client[c].op = "admit" THEN Go(c, "upsert") ELSE Reject(c)
  /\ UNCHANGED <<binding, baseline, coverage, adoption>> /\ Writes

-----------------------------------------------------------------------------
(* An admitted coordinator dispatches and advances the coverage.           *)

NextSeq(cov, anchor) == IF cov = NoSeq THEN anchor ELSE cov + 1
Wanted(c) == NextSeq(client[c].cov, client[c].rec.anchor)

\* Handlers of joined definitions subscribe and unsubscribe documents.
Dispatch(c) ==
  /\ At(c, "admitted") /\ manifest[c] \in Joined
  /\ links' = Moved
  /\ UNCHANGED <<rows, operator, ready, client, faults>>

AdvanceRead(c) ==
  LET row == coverage[Src(c)] IN
  /\ At(c, "admitted") /\ Wanted(c) <= MaxSeq
  /\ IF row.seq = client[c].cov /\ Wanted(c) = NextSeq(row.seq, row.anchor)
     THEN Go(c, "advance") ELSE Reject(c)
  /\ Reads

Covered(c) == client' = [client EXCEPT ![c].cov = Wanted(c), ![c].pc = "admitted"]
PutAdvance(c) == coverage' = [coverage EXCEPT ![Src(c)].seq = Wanted(c)]

\* Mutant of AdvanceCas: the update does not compare.
AdvanceBlindly(c) ==
  /\ At(c, "advance")
  /\ PutAdvance(c) /\ Covered(c)
  /\ UNCHANGED <<binding, baseline, probe, adoption>> /\ Writes

AdvanceCas(c) ==
  /\ At(c, "advance")
  /\ IF coverage[Src(c)].seq = client[c].cov
     THEN PutAdvance(c) /\ Covered(c)
     ELSE UNCHANGED coverage /\ Go(c, "reconcile")
  /\ UNCHANGED <<binding, baseline, probe, adoption>> /\ Writes

Reconcile(c) ==
  /\ At(c, "reconcile")
  /\ IF coverage[Src(c)].seq = Wanted(c) THEN Covered(c) ELSE Reject(c)
  /\ Reads

\* The coordinator has nothing further to cover.
Leave(c) == At(c, "admitted") /\ Reject(c) /\ Reads

-----------------------------------------------------------------------------
(* The operator and the failures.                                          *)

Approve ==
  /\ approvals < MaxApprovals
  /\ approval' \in Approval
  /\ approvals' = approvals + 1
  /\ UNCHANGED <<rows, manifest, seeded, links, ready, client, faults>>

Fault == faults < MaxFaults /\ faults' = faults + 1

\* A call is not carried out and throws.
CallFails(c) ==
  /\ ~At(c, "idle") /\ ~At(c, "admitted") /\ Fault
  /\ CASE client[c].pc \in Opening  -> NotOpened(c)
       [] client[c].pc = "insert"   -> Go(c, "compare") /\ UNCHANGED ready
       [] client[c].pc \in {"verify", "adopt"} -> Go(c, "assert") /\ UNCHANGED ready
       [] client[c].pc = "advance"  -> Go(c, "reconcile") /\ UNCHANGED ready
       [] OTHER                     -> Reject(c) /\ UNCHANGED ready
  /\ UNCHANGED <<rows, operator, links>>

\* A write is carried out, but its caller sees it throw.
ReplyLost(c) ==
  /\ Fault
  /\ \/ At(c, "bind_insert") /\ PutBinding(c) /\ NotOpened(c)
        /\ UNCHANGED <<baseline, coverage, probe, adoption>>
     \/ At(c, "upsert") /\ PutCoverage(c) /\ Reject(c)
        /\ UNCHANGED <<binding, baseline, probe, adoption, ready>>
     \/ At(c, "probe_write") /\ PutProbe(c) /\ Reject(c)
        /\ UNCHANGED <<binding, baseline, coverage, adoption, ready>>
     \/ At(c, "advance") /\ coverage[Src(c)].seq = client[c].cov /\ PutAdvance(c)
        /\ Go(c, "reconcile") /\ UNCHANGED <<binding, baseline, probe, adoption, ready>>
  /\ UNCHANGED <<operator, links>>

\* The process of the client ends and is started again.
Restart(c) ==
  /\ ready[c] # "no"
  /\ ready' = [ready EXCEPT ![c] = "no"]
  /\ Reject(c)
  /\ UNCHANGED <<rows, operator, links, faults>>

Step(c) ==
  \/ ReadBinding(c) \/ InsertBinding(c) \/ CheckBinding(c)
  \/ ReadPrior(c) \/ CheckCoverage(c) \/ InsertBaseline(c) \/ CompareBaseline(c)
  \/ ReadBaseline(c) \/ VerifyBinding(c) \/ ReadApproval(c) \/ ReadAdoption(c)
  \/ Verify(c) \/ Adopt(c) \/ AssertAdoption(c)
  \/ UpsertCoverage(c) \/ ReadCoverage(c)
  \/ ReadProbedBaseline(c) \/ ReadProbe(c) \/ WriteProbe(c)
  \/ Dispatch(c) \/ AdvanceRead(c) \/ AdvanceCas(c) \/ Reconcile(c) \/ Leave(c)

Next ==
  \/ \E c \in Clients : Begin(c) \/ Step(c) \/ CallFails(c) \/ ReplyLost(c) \/ Restart(c)
  \/ Approve

Spec == Init /\ [][Next]_vars

-----------------------------------------------------------------------------
\* The coverage of a source against its baseline, in the row and in the hands
\* of the admitted clients (mongoTransportStore.ts:156-158, 284-291).
AnchorsAgree ==
  /\ \A s \in Sources : coverage[s] # None /\ baseline[s] # None =>
       coverage[s].anchor = baseline[s].anchor
  /\ \A c \in Clients : client[c].pc \in Advancing =>
       /\ baseline[Src(c)] = client[c].rec
       /\ coverage[Src(c)] # None /\ coverage[Src(c)].anchor = client[c].rec.anchor

\* The binding of a queue, its baselines, its adopted inventory and its clients.
OneBinding ==
  /\ \A c \in Clients : ready[c] = "yes" => binding = manifest[c]
  /\ \A s \in Sources : baseline[s] # None => baseline[s].manifest = binding
  /\ adoption # None => adoption.manifest = binding /\ adoption.inventory = seeded
  /\ \A c \in Clients :
       client[c].pc \in Covering \cup Advancing /\ manifest[c] \in Joined =>
         adoption = client[c].app /\ adoption # None
  /\ links = Moved => adoption # None
  /\ adoption = None /\ binding \in Joined =>
       \A s \in Sources : baseline[s] # None => coverage[s] = None

(* Two deployments with different manifests may race for one queue, and an   *)
(* approval may be replaced while a client still goes by it: the rows of a   *)
(* queue all belong to the manifest it is bound to, a client of any other    *)
(* never becomes ready, the adopted inventory lists the links as the         *)
(* operator left them, every admitted client goes by that approval, and      *)
(* before the adoption no coverage row is written and no link moves          *)
(* (mongoTransportStore.ts:129-141, 216-270, 336-339; "A rejected inventory  *)
(* must write neither coverage nor own-record progress").  The coverage of a *)
(* source counts from the anchor its baseline was accepted with, however     *)
(* installations, admissions and rows of an older release meet.              *)
OneRegistry == OneBinding /\ AnchorsAgree

(* A coverage row is created empty and then takes one sequence after the    *)
(* other, whichever clients advance it and whichever replies are lost: it   *)
(* never goes back and never passes over a sequence                         *)
(* (mongoTransportStore.ts:295-315, 352-365).                               *)
CoverageByOne ==
  [][\A s \in Sources : coverage'[s] # coverage[s] =>
       \/ coverage[s] = None /\ coverage'[s].seq = NoSeq
       \/ coverage[s] # None /\ coverage'[s] =
            [coverage[s] EXCEPT !.seq = NextSeq(coverage[s].seq, coverage[s].anchor)]]_vars
=============================================================================
