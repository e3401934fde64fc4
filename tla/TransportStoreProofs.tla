------------------------- MODULE TransportStoreProofs -------------------------
(***************************************************************************)
(* Proofs about TransportStore, for any clients, sources, manifests,       *)
(* anchors and inventories, and any number of approvals and faults; and    *)
(* about LegacyTakeover, for any documents, executions, clocks and any     *)
(* number of writes and failed transactions; and about RangePaging, for    *)
(* any histories, sizes of commits and limits of a page and of a pass.     *)
(***************************************************************************)
EXTENDS TransportStore, LegacyTakeover, RangePaging, SequenceTheorems, WellFoundedInduction,
        TLAPS

-----------------------------------------------------------------------------
(* TransportStore: the inductive invariant.                                *)

Places == {"idle"} \cup Opening \cup Installing \cup Admitting \cup Probing
          \cup Covering \cup Advancing

Call == [pc : Places, op : {"none", "install", "probe", "admit"},
         s : Sources \cup {None}, rec : Baseline \cup {None},
         app : Approval \cup {None}, cov : NoSeq .. MaxSeq,
         seen : {"none", "asserted", "not_checked"}]

TypeOK ==
  /\ manifest \in [Clients -> Manifests]
  /\ binding \in Manifests \cup {None}
  /\ baseline \in [Sources -> Baseline \cup {None}]
  /\ coverage \in [Sources -> Coverage \cup {None}]
  /\ probe \in [Sources -> {"none", "asserted", "not_checked"}]
  /\ approval \in Approval \cup {None}
  /\ adoption \in Approval \cup {None}
  /\ links \in Inventories \cup {Moved}
  /\ seeded \in Inventories
  /\ ready \in [Clients -> {"no", "yes", "failed"}]
  /\ client \in [Clients -> Call]
  /\ approvals \in Nat /\ faults \in Nat

\* The rows among themselves.
RowsAgree ==
  /\ \A s \in Sources : baseline[s] # None => baseline[s].manifest = binding
  /\ \A s \in Sources : coverage[s] # None /\ baseline[s] # None =>
       coverage[s].anchor = baseline[s].anchor
  /\ adoption # None => adoption.manifest = binding /\ adoption.inventory = seeded
  /\ adoption = None => links = seeded
  /\ adoption = None /\ binding \in Joined =>
       \A s \in Sources : baseline[s] # None => coverage[s] = None

\* What a call has read, against the rows it has read it from.
Chained(c) ==
  /\ ready[c] = "yes" => binding = manifest[c]
  /\ ~At(c, "idle") => Src(c) \in Sources /\ client[c].op # "none"
  /\ client[c].pc \notin {"idle"} \cup Opening => ready[c] = "yes"
  /\ client[c].pc \in Installing => client[c].op = "install"
  /\ client[c].pc \in Admitting \cup Covering \cup Advancing => client[c].op = "admit"
  /\ client[c].op = "install" =>
       client[c].rec # None /\ client[c].rec.manifest = manifest[c]

\* An installation that is about to write has no coverage before it.
Installs(c) ==
  At(c, "insert") /\ baseline[Src(c)] = None => coverage[Src(c)] = None

\* An admission holds the baseline of its source and, for a joined manifest,
\* the approval that it has found, or is about to put, in the adoption row.
Admits(c) ==
  /\ client[c].op = "admit" /\ client[c].pc \notin {"idle", "baseline"} \cup Opening =>
       client[c].rec # None /\ baseline[Src(c)] = client[c].rec
  /\ At(c, "approval") => manifest[c] \in Joined
  /\ client[c].pc \in {"adoption", "verify", "adopt", "assert"} =>
       client[c].app # None /\ client[c].app.manifest = manifest[c]
  /\ At(c, "adopt") /\ adoption = None => client[c].app.inventory = seeded
  /\ client[c].op = "admit" /\ client[c].pc \in Probing \cup Covering \cup Advancing
       /\ manifest[c] \in Joined => adoption = client[c].app /\ adoption # None

\* An admitted client has found the coverage that counts from its anchor, and
\* goes on to advance it by one within the bound.
Advances(c) ==
  /\ client[c].pc \in Advancing =>
       coverage[Src(c)] # None /\ coverage[Src(c)].anchor = client[c].rec.anchor
  /\ client[c].pc \in {"advance", "reconcile"} => Wanted(c) <= MaxSeq

ClientOK(c) == Chained(c) /\ Installs(c) /\ Admits(c) /\ Advances(c)

IInv == TypeOK /\ RowsAgree /\ \A c \in Clients : ClientOK(c)

-----------------------------------------------------------------------------
(* What every step does to the rows: a binding, a baseline and an adoption  *)
(* are never replaced, a coverage keeps its anchor, and none appears before *)
(* the baseline of its source.                                              *)
Grows ==
  /\ UNCHANGED <<manifest, seeded>>
  /\ binding # None => binding' = binding
  /\ \A s \in Sources : baseline[s] # None => baseline'[s] = baseline[s]
  /\ \A s \in Sources : coverage[s] # None =>
       coverage'[s] # None /\ coverage'[s].anchor = coverage[s].anchor
  /\ \A s \in Sources : coverage[s] = None /\ baseline[s] = None => coverage'[s] = None
  /\ adoption # None => adoption' = adoption

(* A call in progress is not disturbed by what others write.                *)
LEMMA OthersKeep ==
  ASSUME IInv, Grows, NEW d \in Clients, client'[d] = client[d], ready'[d] = ready[d]
  PROVE  ClientOK(d)'
<1>1. manifest[d] # None /\ manifest'[d] = manifest[d]
  BY TransportAssumption DEF IInv, TypeOK, Grows
<1>2. client[d] \in Call  BY DEF IInv, TypeOK
<1>3. ClientOK(d)  BY DEF IInv
<1>4. Chained(d)'
  BY <1>1, <1>3 DEF ClientOK, Chained, Grows, At, Src
<1>5. Installs(d)'
  BY <1>1, <1>3 DEF ClientOK, Chained, Installs, Grows, At, Src, Installing
<1>6. Admits(d)'
  <2>1. client[d].pc # "idle" => Src(d) \in Sources
    BY <1>3 DEF ClientOK, Chained, At
  <2> QED
    BY <1>1, <1>3, <2>1 DEF ClientOK, Admits, Grows, At, Src
<1>7. Advances(d)'
  BY <1>1, <1>3 DEF ClientOK, Chained, Advances, Grows, At, Src, Wanted, Advancing
<1> QED  BY <1>4, <1>5, <1>6, <1>7 DEF ClientOK

(* A step is the business of one client.                                    *)
LEMMA OneClientMoves ==
  ASSUME IInv, Grows, TypeOK', RowsAgree', NEW c \in Clients, ClientOK(c)',
         \A d \in Clients \ {c} : client'[d] = client[d] /\ ready'[d] = ready[d]
  PROVE  IInv'
BY OthersKeep DEF IInv

(* A step that writes no row leaves nothing to show but its own client.     *)
LEMMA RowsRest ==
  ASSUME IInv, UNCHANGED <<rows, operator, links>>
  PROVE  Grows /\ RowsAgree'
BY DEF IInv, RowsAgree, Grows, rows, operator

LEMMA ReadingStep ==
  ASSUME IInv, UNCHANGED <<rows, operator, links>>, faults' \in Nat,
         NEW c \in Clients, NEW e \in Call, client' = [client EXCEPT ![c] = e],
         NEW r \in {"no", "yes", "failed"}, ready' = [ready EXCEPT ![c] = r],
         ClientOK(c)'
  PROVE  IInv'
<1>1. TypeOK'  BY DEF IInv, TypeOK, rows, operator
<1> QED
  BY <1>1, RowsRest, OneClientMoves DEF IInv, TypeOK

(* Going on changes nothing that a call holds.                              *)
LEMMA GoKeeps ==
  ASSUME IInv, NEW c \in Clients, NEW p, Go(c, p)
  PROVE  /\ client'[c].pc = p
         /\ client'[c].op = client[c].op /\ client'[c].s = client[c].s
         /\ client'[c].rec = client[c].rec /\ client'[c].app = client[c].app
         /\ client'[c].cov = client[c].cov
         /\ ClientOK(c) /\ manifest[c] # None
BY TransportAssumption DEF Go, IInv, TypeOK, Call

(* A call that goes on with what it holds, and one that ends.               *)
LEMMA GoingOn ==
  ASSUME IInv, Reads, NEW c \in Clients, NEW p \in Places, Go(c, p), ClientOK(c)'
  PROVE  IInv'
<1>1. client[c] \in Call /\ ready[c] \in {"no", "yes", "failed"}
  BY DEF IInv, TypeOK
<1>2. [client[c] EXCEPT !.pc = p] \in Call  BY <1>1 DEF Call
<1>3. client' = [client EXCEPT ![c] = [client[c] EXCEPT !.pc = p]]
  BY DEF Go, IInv, TypeOK
<1>4. ready' = [ready EXCEPT ![c] = ready[c]]  BY DEF Reads, IInv, TypeOK
<1> QED  BY <1>1, <1>2, <1>3, <1>4, ReadingStep DEF Reads, IInv, TypeOK

LEMMA IdleIsOK ==
  ASSUME IInv, Grows, NEW c \in Clients, client'[c] = Idle,
         ready'[c] = "yes" => binding' = manifest[c]
  PROVE  ClientOK(c)' /\ Idle \in Call
<1>1. Idle \in Call  BY TransportAssumption DEF Idle, Call, Places, NoSeq
<1> QED
  BY <1>1 DEF ClientOK, Chained, Installs, Admits, Advances, At, Idle, Opening,
     Installing, Admitting, Probing, Covering, Advancing, Grows

LEMMA EndingReading ==
  ASSUME IInv, UNCHANGED <<rows, operator, links>>, faults' \in Nat,
         NEW c \in Clients, Reject(c),
         NEW r \in {"no", "yes", "failed"}, ready' = [ready EXCEPT ![c] = r],
         r = "yes" => ready[c] = "yes"
  PROVE  IInv'
<1>1. client' = [client EXCEPT ![c] = Idle] /\ client'[c] = Idle /\ ready'[c] = r
  BY DEF Reject, IInv, TypeOK
<1>2. r = "yes" => binding' = manifest[c]
  BY DEF IInv, ClientOK, Chained, rows
<1>3. ClientOK(c)' /\ Idle \in Call  BY <1>1, <1>2, IdleIsOK, RowsRest
<1> QED  BY <1>1, <1>3, ReadingStep

LEMMA Ending ==
  ASSUME IInv, Reads, NEW c \in Clients, Reject(c)
  PROVE  IInv'
<1>1. ready[c] \in {"no", "yes", "failed"} /\ ready' = [ready EXCEPT ![c] = ready[c]]
      /\ faults' \in Nat
  BY DEF Reads, IInv, TypeOK
<1> QED  BY <1>1, EndingReading DEF Reads

-----------------------------------------------------------------------------
(* The steps of a call that only read.                                      *)

LEMMA BeginIInv ==
  ASSUME IInv, NEW c \in Clients, Begin(c)
  PROVE  IInv'
<1>1. PICK s \in Sources, op \in {"install", "probe", "admit"}, a \in Anchors :
        client' = [client EXCEPT ![c] = [Idle EXCEPT
          !.pc = IF ready[c] = "yes" THEN First(op) ELSE "bind", !.op = op, !.s = s,
          !.rec = IF op = "install" THEN [manifest |-> manifest[c], anchor |-> a] ELSE None]]
  BY DEF Begin
<1> DEFINE e == [Idle EXCEPT
          !.pc = IF ready[c] = "yes" THEN First(op) ELSE "bind", !.op = op, !.s = s,
          !.rec = IF op = "install" THEN [manifest |-> manifest[c], anchor |-> a] ELSE None]
<1>2. manifest[c] \in Manifests /\ [manifest |-> manifest[c], anchor |-> a] \in Baseline
  BY DEF IInv, TypeOK, Baseline
<1>3. First("install") = "prior" /\ First("probe") = "probe_base" /\ First("admit") = "baseline"
  BY DEF First
<1>4. First(op) \in Places /\ "bind" \in Places
  BY <1>3 DEF Places, Opening, Installing, Probing, Admitting
<1>5. Idle \in Call
  BY TransportAssumption DEF Idle, Call, Places, NoSeq
<1>6. e \in Call  BY <1>2, <1>4, <1>5 DEF Call
<1>7. client'[c] = e  BY <1>1, <1>6 DEF IInv, TypeOK
<1>8. /\ e.op = op /\ e.s = s /\ e.pc = IF ready[c] = "yes" THEN First(op) ELSE "bind"
      /\ op = "install" => e.rec = [manifest |-> manifest[c], anchor |-> a]
  BY <1>5 DEF Call
<1>9. ready'[c] = ready[c] /\ manifest' = manifest /\ binding' = binding
  BY DEF Begin, Reads, rows, operator
<1>10. op = "install" => e.rec # None /\ e.rec.manifest = manifest[c]
  BY <1>2, <1>8, TransportAssumption
<1>11. ClientOK(c)'
  <2>1. Chained(c)'
    BY <1>7, <1>3, <1>8, <1>9, <1>10
    DEF IInv, ClientOK, Chained, At, Src, Opening, Installing, Admitting, Covering, Advancing
  <2>2. Installs(c)' /\ Admits(c)' /\ Advances(c)'
    BY <1>7, <1>3, <1>8
    DEF Installs, Admits, Advances, At, Opening, Probing, Covering, Advancing
  <2> QED  BY <2>1, <2>2 DEF ClientOK
<1>12. ready[c] \in {"no", "yes", "failed"} /\ ready' = [ready EXCEPT ![c] = ready[c]]
       /\ faults' \in Nat /\ UNCHANGED <<rows, operator, links>>
  BY DEF Begin, Reads, IInv, TypeOK
<1> QED  BY <1>1, <1>6, <1>11, <1>12, ReadingStep

LEMMA ReadPriorIInv ==
  ASSUME IInv, NEW c \in Clients, ReadPrior(c)
  PROVE  IInv'
<1>1. CASE Reject(c)  BY <1>1, Ending DEF ReadPrior
<1>2. ASSUME NEW p \in {"coverage_check", "insert"}, Go(c, p), ~Reject(c)  PROVE IInv'
  <2>1. p \in Places /\ Reads
    BY DEF ReadPrior, Places, Installing, Admitting, Probing, Covering, Advancing
  <2>2. UNCHANGED <<binding, baseline, coverage, adoption, manifest, seeded, ready>>
    BY <2>1 DEF Reads, rows, operator
  <2>3. Chained(c)'
    BY <1>2, <2>2, GoKeeps
    DEF ReadPrior, At, Src, ClientOK, Chained,
        Opening, Installing, Admitting, Probing, Covering, Advancing
  <2>4. Installs(c)'
    BY <1>2, <2>2, GoKeeps
    DEF ReadPrior, At, Src, ClientOK, Chained, Installs,
        Opening, Installing, Admitting, Probing, Covering, Advancing
  <2>5. Admits(c)'
    BY <1>2, <2>2, GoKeeps
    DEF ReadPrior, At, Src, ClientOK, Chained, Admits,
        Opening, Installing, Admitting, Probing, Covering, Advancing
  <2>6. Advances(c)'
    BY <1>2, <2>2, GoKeeps
    DEF ReadPrior, At, Src, ClientOK, Chained, Admits, Advances, Wanted,
        Opening, Installing, Admitting, Probing, Covering, Advancing
  <2> QED  BY <1>2, <2>1, <2>3, <2>4, <2>5, <2>6, GoingOn DEF ClientOK
<1> QED  BY <1>1, <1>2 DEF ReadPrior

LEMMA CheckCoverageIInv ==
  ASSUME IInv, NEW c \in Clients, CheckCoverage(c)
  PROVE  IInv'
<1>1. CASE Reject(c)  BY <1>1, Ending DEF CheckCoverage
<1>2. ASSUME NEW p \in {"insert"}, Go(c, p), ~Reject(c)  PROVE IInv'
  <2>1. p \in Places /\ Reads
    BY DEF CheckCoverage, Places, Installing, Admitting, Probing, Covering, Advancing
  <2>2. UNCHANGED <<binding, baseline, coverage, adoption, manifest, seeded, ready>>
    BY <2>1 DEF Reads, rows, operator
  <2>3. Chained(c)'
    BY <1>2, <2>2, GoKeeps
    DEF CheckCoverage, At, Src, ClientOK, Chained,
        Opening, Installing, Admitting, Probing, Covering, Advancing
  <2>4. Installs(c)'
    BY <1>2, <2>2, GoKeeps
    DEF CheckCoverage, At, Src, ClientOK, Chained, Installs,
        Opening, Installing, Admitting, Probing, Covering, Advancing
  <2>5. Admits(c)'
    BY <1>2, <2>2, GoKeeps
    DEF CheckCoverage, At, Src, ClientOK, Chained, Admits,
        Opening, Installing, Admitting, Probing, Covering, Advancing
  <2>6. Advances(c)'
    BY <1>2, <2>2, GoKeeps
    DEF CheckCoverage, At, Src, ClientOK, Chained, Admits, Advances, Wanted,
        Opening, Installing, Admitting, Probing, Covering, Advancing
  <2> QED  BY <1>2, <2>1, <2>3, <2>4, <2>5, <2>6, GoingOn DEF ClientOK
<1> QED  BY <1>1, <1>2 DEF CheckCoverage

LEMMA CompareBaselineIInv ==
  ASSUME IInv, NEW c \in Clients, CompareBaseline(c)
  PROVE  IInv'
<1>1. CASE Reject(c)  BY <1>1, Ending DEF CompareBaseline
<1>2. ASSUME NEW p \in {"probe_read"}, Go(c, p), ~Reject(c)  PROVE IInv'
  <2>1. p \in Places /\ Reads
    BY DEF CompareBaseline, Places, Installing, Admitting, Probing, Covering, Advancing
  <2>2. UNCHANGED <<binding, baseline, coverage, adoption, manifest, seeded, ready>>
    BY <2>1 DEF Reads, rows, operator
  <2>3. Chained(c)'
    BY <1>2, <2>2, GoKeeps
    DEF CompareBaseline, At, Src, ClientOK, Chained,
        Opening, Installing, Admitting, Probing, Covering, Advancing
  <2>4. Installs(c)'
    BY <1>2, <2>2, GoKeeps
    DEF CompareBaseline, At, Src, ClientOK, Chained, Installs,
        Opening, Installing, Admitting, Probing, Covering, Advancing
  <2>5. Admits(c)'
    BY <1>2, <2>2, GoKeeps
    DEF CompareBaseline, At, Src, ClientOK, Chained, Admits,
        Opening, Installing, Admitting, Probing, Covering, Advancing
  <2>6. Advances(c)'
    BY <1>2, <2>2, GoKeeps
    DEF CompareBaseline, At, Src, ClientOK, Chained, Admits, Advances, Wanted,
        Opening, Installing, Admitting, Probing, Covering, Advancing
  <2> QED  BY <1>2, <2>1, <2>3, <2>4, <2>5, <2>6, GoingOn DEF ClientOK
<1> QED  BY <1>1, <1>2 DEF CompareBaseline

LEMMA VerifyBindingIInv ==
  ASSUME IInv, NEW c \in Clients, VerifyBinding(c)
  PROVE  IInv'
<1>1. CASE Reject(c)  BY <1>1, Ending DEF VerifyBinding
<1>2. ASSUME NEW p \in {"approval", "probe_base"}, Go(c, p), ~Reject(c)  PROVE IInv'
  <2>1. p \in Places /\ Reads
    BY DEF VerifyBinding, Places, Installing, Admitting, Probing, Covering, Advancing
  <2>2. UNCHANGED <<binding, baseline, coverage, adoption, manifest, seeded, ready>>
    BY <2>1 DEF Reads, rows, operator
  <2>3. Chained(c)'
    BY <1>2, <2>2, GoKeeps
    DEF VerifyBinding, At, Src, ClientOK, Chained,
        Opening, Installing, Admitting, Probing, Covering, Advancing
  <2>4. Installs(c)'
    BY <1>2, <2>2, GoKeeps
    DEF VerifyBinding, At, Src, ClientOK, Chained, Installs,
        Opening, Installing, Admitting, Probing, Covering, Advancing
  <2>5. Admits(c)'
    BY <1>2, <2>2, GoKeeps
    DEF VerifyBinding, At, Src, ClientOK, Chained, Admits, ValidBaseline,
        Opening, Installing, Admitting, Probing, Covering, Advancing
  <2>6. Advances(c)'
    BY <1>2, <2>2, GoKeeps
    DEF VerifyBinding, At, Src, ClientOK, Chained, Admits, Advances, Wanted,
        Opening, Installing, Admitting, Probing, Covering, Advancing
  <2> QED  BY <1>2, <2>1, <2>3, <2>4, <2>5, <2>6, GoingOn DEF ClientOK
<1> QED  BY <1>1, <1>2 DEF VerifyBinding

LEMMA ReadAdoptionIInv ==
  ASSUME IInv, NEW c \in Clients, ReadAdoption(c)
  PROVE  IInv'
<1>1. CASE Reject(c)  BY <1>1, Ending DEF ReadAdoption
<1>2. ASSUME NEW p \in {"verify", "assert"}, Go(c, p), ~Reject(c)  PROVE IInv'
  <2>1. p \in Places /\ Reads
    BY DEF ReadAdoption, Places, Installing, Admitting, Probing, Covering, Advancing
  <2>2. UNCHANGED <<binding, baseline, coverage, adoption, manifest, seeded, ready>>
    BY <2>1 DEF Reads, rows, operator
  <2>3. Chained(c)'
    BY <1>2, <2>2, GoKeeps
    DEF ReadAdoption, At, Src, ClientOK, Chained,
        Opening, Installing, Admitting, Probing, Covering, Advancing
  <2>4. Installs(c)'
    BY <1>2, <2>2, GoKeeps
    DEF ReadAdoption, At, Src, ClientOK, Chained, Installs,
        Opening, Installing, Admitting, Probing, Covering, Advancing
  <2>5. Admits(c)'
    BY <1>2, <2>2, GoKeeps
    DEF ReadAdoption, At, Src, ClientOK, Chained, Admits,
        Opening, Installing, Admitting, Probing, Covering, Advancing
  <2>6. Advances(c)'
    BY <1>2, <2>2, GoKeeps
    DEF ReadAdoption, At, Src, ClientOK, Chained, Admits, Advances, Wanted,
        Opening, Installing, Admitting, Probing, Covering, Advancing
  <2> QED  BY <1>2, <2>1, <2>3, <2>4, <2>5, <2>6, GoingOn DEF ClientOK
<1> QED  BY <1>1, <1>2 DEF ReadAdoption

LEMMA VerifyIInv ==
  ASSUME IInv, NEW c \in Clients, Verify(c)
  PROVE  IInv'
<1>1. CASE Reject(c)  BY <1>1, Ending DEF Verify
<1>2. ASSUME NEW p \in {"adopt", "assert"}, Go(c, p), ~Reject(c)  PROVE IInv'
  <2>1. p \in Places /\ Reads
    BY DEF Verify, Places, Installing, Admitting, Probing, Covering, Advancing
  <2>2. UNCHANGED <<binding, baseline, coverage, adoption, manifest, seeded, ready>>
    BY <2>1 DEF Reads, rows, operator
  <2>3. Chained(c)'
    BY <1>2, <2>2, GoKeeps
    DEF Verify, At, Src, ClientOK, Chained,
        Opening, Installing, Admitting, Probing, Covering, Advancing
  <2>4. Installs(c)'
    BY <1>2, <2>2, GoKeeps
    DEF Verify, At, Src, ClientOK, Chained, Installs,
        Opening, Installing, Admitting, Probing, Covering, Advancing
  <2>5. Admits(c)'
    BY <1>2, <2>2, GoKeeps
    DEF Verify, At, Src, ClientOK, Chained, Admits, Verified, IInv, RowsAgree,
        Opening, Installing, Admitting, Probing, Covering, Advancing
  <2>6. Advances(c)'
    BY <1>2, <2>2, GoKeeps
    DEF Verify, At, Src, ClientOK, Chained, Admits, Advances, Wanted,
        Opening, Installing, Admitting, Probing, Covering, Advancing
  <2> QED  BY <1>2, <2>1, <2>3, <2>4, <2>5, <2>6, GoingOn DEF ClientOK
<1> QED  BY <1>1, <1>2 DEF Verify

LEMMA AssertAdoptionIInv ==
  ASSUME IInv, NEW c \in Clients, AssertAdoption(c)
  PROVE  IInv'
<1>1. CASE Reject(c)  BY <1>1, Ending DEF AssertAdoption
<1>2. ASSUME NEW p \in {"probe_base"}, Go(c, p), ~Reject(c)  PROVE IInv'
  <2>1. p \in Places /\ Reads
    BY DEF AssertAdoption, Places, Installing, Admitting, Probing, Covering, Advancing
  <2>2. UNCHANGED <<binding, baseline, coverage, adoption, manifest, seeded, ready>>
    BY <2>1 DEF Reads, rows, operator
  <2>3. Chained(c)'
    BY <1>2, <2>2, GoKeeps
    DEF AssertAdoption, At, Src, ClientOK, Chained,
        Opening, Installing, Admitting, Probing, Covering, Advancing
  <2>4. Installs(c)'
    BY <1>2, <2>2, GoKeeps
    DEF AssertAdoption, At, Src, ClientOK, Chained, Installs,
        Opening, Installing, Admitting, Probing, Covering, Advancing
  <2>5. Admits(c)'
    BY <1>2, <2>2, GoKeeps
    DEF AssertAdoption, At, Src, ClientOK, Chained, Admits,
        Opening, Installing, Admitting, Probing, Covering, Advancing
  <2>6. Advances(c)'
    BY <1>2, <2>2, GoKeeps
    DEF AssertAdoption, At, Src, ClientOK, Chained, Admits, Advances, Wanted,
        Opening, Installing, Admitting, Probing, Covering, Advancing
  <2> QED  BY <1>2, <2>1, <2>3, <2>4, <2>5, <2>6, GoingOn DEF ClientOK
<1> QED  BY <1>1, <1>2 DEF AssertAdoption

LEMMA ReadProbedBaselineIInv ==
  ASSUME IInv, NEW c \in Clients, ReadProbedBaseline(c)
  PROVE  IInv'
<1>1. CASE Reject(c)  BY <1>1, Ending DEF ReadProbedBaseline
<1>2. ASSUME NEW p \in {"probe_read"}, Go(c, p), ~Reject(c)  PROVE IInv'
  <2>1. p \in Places /\ Reads
    BY DEF ReadProbedBaseline, Places, Installing, Admitting, Probing, Covering, Advancing
  <2>2. UNCHANGED <<binding, baseline, coverage, adoption, manifest, seeded, ready>>
    BY <2>1 DEF Reads, rows, operator
  <2>3. Chained(c)'
    BY <1>2, <2>2, GoKeeps
    DEF ReadProbedBaseline, At, Src, ClientOK, Chained,
        Opening, Installing, Admitting, Probing, Covering, Advancing
  <2>4. Installs(c)'
    BY <1>2, <2>2, GoKeeps
    DEF ReadProbedBaseline, At, Src, ClientOK, Chained, Installs,
        Opening, Installing, Admitting, Probing, Covering, Advancing
  <2>5. Admits(c)'
    BY <1>2, <2>2, GoKeeps
    DEF ReadProbedBaseline, At, Src, ClientOK, Chained, Admits,
        Opening, Installing, Admitting, Probing, Covering, Advancing
  <2>6. Advances(c)'
    BY <1>2, <2>2, GoKeeps
    DEF ReadProbedBaseline, At, Src, ClientOK, Chained, Admits, Advances, Wanted,
        Opening, Installing, Admitting, Probing, Covering, Advancing
  <2> QED  BY <1>2, <2>1, <2>3, <2>4, <2>5, <2>6, GoingOn DEF ClientOK
<1> QED  BY <1>1, <1>2 DEF ReadProbedBaseline

LEMMA AdvanceReadIInv ==
  ASSUME IInv, NEW c \in Clients, AdvanceRead(c)
  PROVE  IInv'
<1>1. CASE Reject(c)  BY <1>1, Ending DEF AdvanceRead
<1>2. ASSUME NEW p \in {"advance"}, Go(c, p), ~Reject(c)  PROVE IInv'
  <2>1. p \in Places /\ Reads
    BY DEF AdvanceRead, Places, Installing, Admitting, Probing, Covering, Advancing
  <2>2. UNCHANGED <<binding, baseline, coverage, adoption, manifest, seeded, ready>>
    BY <2>1 DEF Reads, rows, operator
  <2>3. Chained(c)'
    BY <1>2, <2>2, GoKeeps
    DEF AdvanceRead, At, Src, ClientOK, Chained,
        Opening, Installing, Admitting, Probing, Covering, Advancing
  <2>4. Installs(c)'
    BY <1>2, <2>2, GoKeeps
    DEF AdvanceRead, At, Src, ClientOK, Chained, Installs,
        Opening, Installing, Admitting, Probing, Covering, Advancing
  <2>5. Admits(c)'
    BY <1>2, <2>2, GoKeeps
    DEF AdvanceRead, At, Src, ClientOK, Chained, Admits,
        Opening, Installing, Admitting, Probing, Covering, Advancing
  <2>6. Advances(c)'
    BY <1>2, <2>2, GoKeeps
    DEF AdvanceRead, At, Src, ClientOK, Chained, Admits, Advances, Wanted,
        Opening, Installing, Admitting, Probing, Covering, Advancing
  <2> QED  BY <1>2, <2>1, <2>3, <2>4, <2>5, <2>6, GoingOn DEF ClientOK
<1> QED  BY <1>1, <1>2 DEF AdvanceRead

(* The readiness of a client that has found its own binding, and of one     *)
(* that has not.                                                            *)
LEMMA OpenedIInv ==
  ASSUME IInv, NEW c \in Clients, client[c].pc \in Opening, Opened(c),
         binding = manifest[c], UNCHANGED <<rows, operator, links, faults>>
  PROVE  IInv'
<1> DEFINE p == First(client[c].op)
<1>1. client[c].op \in {"install", "probe", "admit"} /\ client[c] \in Call
  BY DEF IInv, TypeOK, Call, ClientOK, Chained, At, Opening
<1>2. /\ client[c].op = "install" => p = "prior"
      /\ client[c].op = "probe" => p = "probe_base"
      /\ client[c].op = "admit" => p = "baseline"
  BY <1>1 DEF First
<1>3. p \in Places  BY <1>1, <1>2 DEF Places, Installing, Probing, Admitting
<1>4. [client[c] EXCEPT !.pc = p] \in Call  BY <1>1, <1>3 DEF Call
<1>5. client' = [client EXCEPT ![c] = [client[c] EXCEPT !.pc = p]]
  BY DEF Opened, Go, IInv, TypeOK
<1>6. ready' = [ready EXCEPT ![c] = "yes"] /\ ready'[c] = "yes" /\ faults' \in Nat
  BY DEF Opened, IInv, TypeOK
<1>7. UNCHANGED <<binding, baseline, coverage, adoption, manifest, seeded>>
  BY DEF rows, operator
<1>8. Go(c, p)  BY DEF Opened
<1>9. Chained(c)'
  BY <1>1, <1>2, <1>6, <1>7, <1>8, GoKeeps
  DEF At, Src, ClientOK, Chained, Opening, Installing, Admitting, Probing, Covering, Advancing
<1>10. Installs(c)' /\ Admits(c)' /\ Advances(c)'
  BY <1>1, <1>2, <1>8, GoKeeps
  DEF At, Installs, Admits, Advances, Opening, Installing, Admitting, Probing, Covering, Advancing
<1> QED  BY <1>4, <1>5, <1>6, <1>9, <1>10, ReadingStep DEF ClientOK

LEMMA NotOpenedIInv ==
  ASSUME IInv, NEW c \in Clients, NotOpened(c), faults' \in Nat,
         UNCHANGED <<rows, operator, links>>
  PROVE  IInv'
BY EndingReading DEF NotOpened

LEMMA ReadBindingIInv ==
  ASSUME IInv, NEW c \in Clients, ReadBinding(c)
  PROVE  IInv'
<1>1. faults' \in Nat /\ UNCHANGED <<rows, operator, links, faults>>
      /\ client[c].pc \in Opening /\ At(c, "bind")
  BY DEF ReadBinding, IInv, TypeOK, At, Opening
<1>2. CASE binding = None /\ Go(c, "bind_insert") /\ UNCHANGED ready
  <2>1. Reads /\ "bind_insert" \in Places  BY <1>1, <1>2 DEF Reads, Places, Opening
  <2>2. UNCHANGED <<binding, manifest, ready>>  BY <1>1, <1>2 DEF rows, operator
  <2>3. ClientOK(c)'
    BY <1>1, <1>2, <2>2, GoKeeps
    DEF At, Src, ClientOK, Chained, Installs, Admits, Advances, Opening, Installing, Admitting, Probing, Covering, Advancing
  <2> QED  BY <1>2, <2>1, <2>3, GoingOn
<1>3. CASE binding = manifest[c] /\ Opened(c)  BY <1>1, <1>3, OpenedIInv
<1>4. CASE NotOpened(c)  BY <1>1, <1>4, NotOpenedIInv
<1> QED  BY <1>2, <1>3, <1>4 DEF ReadBinding

LEMMA CheckBindingIInv ==
  ASSUME IInv, NEW c \in Clients, CheckBinding(c)
  PROVE  IInv'
<1>1. faults' \in Nat /\ UNCHANGED <<rows, operator, links, faults>>
      /\ client[c].pc \in Opening
  BY DEF CheckBinding, IInv, TypeOK, At, Opening
<1> QED  BY <1>1, OpenedIInv, NotOpenedIInv DEF CheckBinding

LEMMA ReadBaselineIInv ==
  ASSUME IInv, NEW c \in Clients, ReadBaseline(c)
  PROVE  IInv'
<1>1. CASE Reject(c)  BY <1>1, Ending DEF ReadBaseline
<1>2. CASE ~Reject(c)
  <2> DEFINE e == [client[c] EXCEPT !.rec = baseline[Src(c)], !.pc = "binding"]
  <2>1. client[c] \in Call /\ ClientOK(c)  BY DEF IInv, TypeOK
  <2>2. baseline[Src(c)] # None
    BY <1>2, TransportAssumption DEF ReadBaseline, ValidBaseline, IInv, TypeOK
  <2>3. baseline[Src(c)] \in Baseline \cup {None}
    <3>1. Src(c) \in Sources  BY <2>1 DEF ReadBaseline, ClientOK, Chained, At
    <3> QED  BY <2>2, <3>1 DEF IInv, TypeOK
  <2>4. "binding" \in Places  BY DEF Places, Opening, Installing, Admitting, Probing, Covering, Advancing
  <2>5. e \in Call  BY <2>1, <2>3, <2>4 DEF Call
  <2>6. client' = [client EXCEPT ![c] = e]
    BY <1>2 DEF ReadBaseline, IInv, TypeOK
  <2>7. Reads /\ At(c, "baseline")
    BY DEF ReadBaseline
  <2>8. UNCHANGED <<binding, baseline, coverage, adoption, manifest, seeded, ready>>
    BY <2>7 DEF Reads, rows, operator
  <2>9. client'[c] = e  BY <2>6 DEF IInv, TypeOK
  <2>10. /\ client'[c].rec = baseline[Src(c)] /\ client'[c].pc = "binding"
         /\ client'[c].op = client[c].op
         /\ client'[c].s = client[c].s
         /\ client'[c].app = client[c].app
         /\ client'[c].cov = client[c].cov
    BY <2>1, <2>9 DEF Call
  <2>11. ClientOK(c)'
    <3>1. Chained(c)'
      BY <2>1, <2>7, <2>8, <2>10 DEF At, Src, ClientOK, Chained,
         Opening, Installing, Admitting, Probing, Covering, Advancing
    <3>2. Installs(c)' /\ Advances(c)'
      BY <2>1, <2>2, <2>7, <2>8, <2>10 DEF At, Src, ClientOK, Installs, Advances, Chained,
         Opening, Installing, Admitting, Probing, Covering, Advancing
    <3>3. Admits(c)'
      BY <2>1, <2>2, <2>7, <2>8, <2>10 DEF At, Src, ClientOK, Admits, Chained,
         Opening, Installing, Admitting, Probing, Covering, Advancing
    <3> QED  BY <3>1, <3>2, <3>3 DEF ClientOK
  <2>12. ready[c] \in {"no", "yes", "failed"} /\ ready' = [ready EXCEPT ![c] = ready[c]]
         /\ faults' \in Nat /\ UNCHANGED <<rows, operator, links>>
    BY <2>7 DEF Reads, IInv, TypeOK
  <2> QED  BY <2>5, <2>6, <2>11, <2>12, ReadingStep
<1> QED  BY <1>1, <1>2

LEMMA ReadApprovalIInv ==
  ASSUME IInv, NEW c \in Clients, ReadApproval(c)
  PROVE  IInv'
<1>1. CASE Reject(c)  BY <1>1, Ending DEF ReadApproval
<1>2. CASE ~Reject(c)
  <2> DEFINE e == [client[c] EXCEPT !.app = approval, !.pc = "adoption"]
  <2>1. client[c] \in Call /\ ClientOK(c)  BY DEF IInv, TypeOK
  <2>2. approval # None /\ approval.manifest = manifest[c]
    BY <1>2, TransportAssumption DEF ReadApproval, IInv, TypeOK
  <2>3. approval \in Approval \cup {None}
    <3>1. Src(c) \in Sources  BY <2>1 DEF ReadApproval, ClientOK, Chained, At
    <3> QED  BY <2>2, <3>1 DEF IInv, TypeOK
  <2>4. "adoption" \in Places  BY DEF Places, Opening, Installing, Admitting, Probing, Covering, Advancing
  <2>5. e \in Call  BY <2>1, <2>3, <2>4 DEF Call
  <2>6. client' = [client EXCEPT ![c] = e]
    BY <1>2 DEF ReadApproval, IInv, TypeOK
  <2>7. Reads /\ At(c, "approval")
    BY DEF ReadApproval
  <2>8. UNCHANGED <<binding, baseline, coverage, adoption, manifest, seeded, ready>>
    BY <2>7 DEF Reads, rows, operator
  <2>9. client'[c] = e  BY <2>6 DEF IInv, TypeOK
  <2>10. /\ client'[c].app = approval /\ client'[c].pc = "adoption"
         /\ client'[c].op = client[c].op
         /\ client'[c].s = client[c].s
         /\ client'[c].rec = client[c].rec
         /\ client'[c].cov = client[c].cov
    BY <2>1, <2>9 DEF Call
  <2>11. ClientOK(c)'
    <3>1. Chained(c)'
      BY <2>1, <2>7, <2>8, <2>10 DEF At, Src, ClientOK, Chained,
         Opening, Installing, Admitting, Probing, Covering, Advancing
    <3>2. Installs(c)' /\ Advances(c)'
      BY <2>1, <2>2, <2>7, <2>8, <2>10 DEF At, Src, ClientOK, Installs, Advances, Chained,
         Opening, Installing, Admitting, Probing, Covering, Advancing
    <3>3. Admits(c)'
      BY <2>1, <2>2, <2>7, <2>8, <2>10 DEF At, Src, ClientOK, Admits, Chained,
         Opening, Installing, Admitting, Probing, Covering, Advancing
    <3> QED  BY <3>1, <3>2, <3>3 DEF ClientOK
  <2>12. ready[c] \in {"no", "yes", "failed"} /\ ready' = [ready EXCEPT ![c] = ready[c]]
         /\ faults' \in Nat /\ UNCHANGED <<rows, operator, links>>
    BY <2>7 DEF Reads, IInv, TypeOK
  <2> QED  BY <2>5, <2>6, <2>11, <2>12, ReadingStep
<1> QED  BY <1>1, <1>2

LEMMA ReadCoverageIInv ==
  ASSUME IInv, NEW c \in Clients, ReadCoverage(c)
  PROVE  IInv'
<1>1. CASE Reject(c)  BY <1>1, Ending DEF ReadCoverage
<1>2. CASE ~Reject(c)
  <2> DEFINE e == [client[c] EXCEPT !.cov = coverage[Src(c)].seq, !.pc = "admitted"]
  <2>1. client[c] \in Call /\ ClientOK(c)  BY DEF IInv, TypeOK
  <2>2. coverage[Src(c)] # None /\ coverage[Src(c)].anchor = client[c].rec.anchor
    BY <1>2, TransportAssumption DEF ReadCoverage, IInv, TypeOK
  <2>3. coverage[Src(c)].seq \in NoSeq .. MaxSeq
    <3>1. Src(c) \in Sources  BY <2>1 DEF ReadCoverage, ClientOK, Chained, At
    <3> QED  BY <2>2, <3>1 DEF IInv, TypeOK, Coverage
  <2>4. "admitted" \in Places  BY DEF Places, Opening, Installing, Admitting, Probing, Covering, Advancing
  <2>5. e \in Call  BY <2>1, <2>3, <2>4 DEF Call
  <2>6. client' = [client EXCEPT ![c] = e]
    BY <1>2 DEF ReadCoverage, IInv, TypeOK
  <2>7. Reads /\ At(c, "read_coverage")
    BY DEF ReadCoverage
  <2>8. UNCHANGED <<binding, baseline, coverage, adoption, manifest, seeded, ready>>
    BY <2>7 DEF Reads, rows, operator
  <2>9. client'[c] = e  BY <2>6 DEF IInv, TypeOK
  <2>10. /\ client'[c].cov = coverage[Src(c)].seq /\ client'[c].pc = "admitted"
         /\ client'[c].op = client[c].op
         /\ client'[c].s = client[c].s
         /\ client'[c].rec = client[c].rec
         /\ client'[c].app = client[c].app
    BY <2>1, <2>9 DEF Call
  <2>11. ClientOK(c)'
    <3>1. Chained(c)'
      BY <2>1, <2>7, <2>8, <2>10 DEF At, Src, ClientOK, Chained,
         Opening, Installing, Admitting, Probing, Covering, Advancing
    <3>2. Installs(c)' /\ Advances(c)'
      BY <2>1, <2>2, <2>7, <2>8, <2>10 DEF At, Src, ClientOK, Installs, Advances, Chained,
         Opening, Installing, Admitting, Probing, Covering, Advancing
    <3>3. Admits(c)'
      BY <2>1, <2>2, <2>7, <2>8, <2>10 DEF At, Src, ClientOK, Admits, Chained,
         Opening, Installing, Admitting, Probing, Covering, Advancing
    <3> QED  BY <3>1, <3>2, <3>3 DEF ClientOK
  <2>12. ready[c] \in {"no", "yes", "failed"} /\ ready' = [ready EXCEPT ![c] = ready[c]]
         /\ faults' \in Nat /\ UNCHANGED <<rows, operator, links>>
    BY <2>7 DEF Reads, IInv, TypeOK
  <2> QED  BY <2>5, <2>6, <2>11, <2>12, ReadingStep
<1> QED  BY <1>1, <1>2

LEMMA ReadProbeIInv ==
  ASSUME IInv, NEW c \in Clients, ReadProbe(c)
  PROVE  IInv'
<1>1. CASE Reject(c)  BY <1>1, Ending DEF ReadProbe
<1>2. CASE ~Reject(c)
  <2> DEFINE e == [client[c] EXCEPT !.seen = probe[Src(c)], !.pc = "probe_write"]
  <2>1. client[c] \in Call /\ ClientOK(c)  BY DEF IInv, TypeOK
  <2>2. TRUE
    BY <1>2, TransportAssumption DEF ReadProbe, IInv, TypeOK
  <2>3. probe[Src(c)] \in {"none", "asserted", "not_checked"}
    <3>1. Src(c) \in Sources  BY <2>1 DEF ReadProbe, ClientOK, Chained, At
    <3> QED  BY <2>2, <3>1 DEF IInv, TypeOK
  <2>4. "probe_write" \in Places  BY DEF Places, Opening, Installing, Admitting, Probing, Covering, Advancing
  <2>5. e \in Call  BY <2>1, <2>3, <2>4 DEF Call
  <2>6. client' = [client EXCEPT ![c] = e]
    BY <1>2 DEF ReadProbe, IInv, TypeOK
  <2>7. Reads /\ At(c, "probe_read")
    BY DEF ReadProbe
  <2>8. UNCHANGED <<binding, baseline, coverage, adoption, manifest, seeded, ready>>
    BY <2>7 DEF Reads, rows, operator
  <2>9. client'[c] = e  BY <2>6 DEF IInv, TypeOK
  <2>10. /\ client'[c].seen = probe[Src(c)] /\ client'[c].pc = "probe_write"
         /\ client'[c].op = client[c].op
         /\ client'[c].s = client[c].s
         /\ client'[c].rec = client[c].rec
         /\ client'[c].app = client[c].app
         /\ client'[c].cov = client[c].cov
    BY <2>1, <2>9 DEF Call
  <2>11. ClientOK(c)'
    <3>1. Chained(c)'
      BY <2>1, <2>7, <2>8, <2>10 DEF At, Src, ClientOK, Chained,
         Opening, Installing, Admitting, Probing, Covering, Advancing
    <3>2. Installs(c)' /\ Advances(c)'
      BY <2>1, <2>2, <2>7, <2>8, <2>10 DEF At, Src, ClientOK, Installs, Advances, Chained,
         Opening, Installing, Admitting, Probing, Covering, Advancing
    <3>3. Admits(c)'
      BY <2>1, <2>2, <2>7, <2>8, <2>10 DEF At, Src, ClientOK, Admits, Chained,
         Opening, Installing, Admitting, Probing, Covering, Advancing
    <3> QED  BY <3>1, <3>2, <3>3 DEF ClientOK
  <2>12. ready[c] \in {"no", "yes", "failed"} /\ ready' = [ready EXCEPT ![c] = ready[c]]
         /\ faults' \in Nat /\ UNCHANGED <<rows, operator, links>>
    BY <2>7 DEF Reads, IInv, TypeOK
  <2> QED  BY <2>5, <2>6, <2>11, <2>12, ReadingStep
<1> QED  BY <1>1, <1>2

LEMMA LeaveIInv ==
  ASSUME IInv, NEW c \in Clients, Leave(c)
  PROVE  IInv'
BY Ending DEF Leave

-----------------------------------------------------------------------------
(* The steps that write a row.                                              *)

RowTypes ==
  /\ binding \in Manifests \cup {None}
  /\ baseline \in [Sources -> Baseline \cup {None}]
  /\ coverage \in [Sources -> Coverage \cup {None}]
  /\ probe \in [Sources -> {"none", "asserted", "not_checked"}]
  /\ adoption \in Approval \cup {None}

LEMMA WritingStep ==
  ASSUME IInv, Grows, RowTypes', RowsAgree', UNCHANGED <<operator, links>>, faults' \in Nat,
         NEW c \in Clients, NEW e \in Call, client' = [client EXCEPT ![c] = e],
         NEW r \in {"no", "yes", "failed"}, ready' = [ready EXCEPT ![c] = r],
         ClientOK(c)'
  PROVE  IInv'
<1>1. TypeOK'  BY DEF IInv, TypeOK, RowTypes, operator
<1> QED  BY <1>1, OneClientMoves DEF IInv, TypeOK

LEMMA GoingWriting ==
  ASSUME IInv, Grows, RowTypes', RowsAgree', UNCHANGED <<operator, links, ready>>, faults' \in Nat,
         NEW c \in Clients, NEW p \in Places, Go(c, p), ClientOK(c)'
  PROVE  IInv'
<1>1. client[c] \in Call /\ ready[c] \in {"no", "yes", "failed"}
  BY DEF IInv, TypeOK
<1>2. [client[c] EXCEPT !.pc = p] \in Call  BY <1>1 DEF Call
<1>3. client' = [client EXCEPT ![c] = [client[c] EXCEPT !.pc = p]]
      /\ ready' = [ready EXCEPT ![c] = ready[c]]
  BY DEF Go, IInv, TypeOK
<1> QED  BY <1>1, <1>2, <1>3, WritingStep

LEMMA EndingWriting ==
  ASSUME IInv, Grows, RowTypes', RowsAgree', UNCHANGED <<operator, links>>, faults' \in Nat,
         NEW c \in Clients, Reject(c),
         NEW r \in {"no", "failed"}, UNCHANGED ready \/ ready' = [ready EXCEPT ![c] = r]
  PROVE  IInv'
<1>1. client' = [client EXCEPT ![c] = Idle] /\ client'[c] = Idle
  BY DEF Reject, IInv, TypeOK
<1>2. PICK q \in {"no", "yes", "failed"} :
        ready' = [ready EXCEPT ![c] = q] /\ (q = "yes" => ready[c] = "yes")
  BY DEF IInv, TypeOK
<1>3. ready'[c] = "yes" => binding' = manifest[c]
  BY <1>2, TransportAssumption DEF IInv, TypeOK, ClientOK, Chained, Grows
<1> QED  BY <1>1, <1>2, <1>3, IdleIsOK, WritingStep

(* The binding is inserted before anything else is: no row refers to none.  *)
LEMMA PutBindingRows ==
  ASSUME IInv, NEW c \in Clients, PutBinding(c), UNCHANGED <<operator, links>>,
         UNCHANGED <<baseline, coverage, probe, adoption>>
  PROVE  Grows /\ RowTypes' /\ RowsAgree'
<1>1. manifest[c] \in Manifests  BY DEF IInv, TypeOK
<1>2. RowTypes'  BY <1>1 DEF IInv, TypeOK, RowTypes, PutBinding
<1>3. Grows  BY DEF Grows, PutBinding, operator
<1>4. ASSUME binding # None  PROVE RowsAgree'
  BY <1>4 DEF IInv, RowsAgree, PutBinding, operator
<1>5. ASSUME binding = None  PROVE RowsAgree'
  <2>1. \A s \in Sources : baseline[s] = None
    BY <1>5, TransportAssumption DEF IInv, TypeOK, RowsAgree, Baseline
  <2>2. adoption = None
    BY <1>5, TransportAssumption DEF IInv, TypeOK, RowsAgree, Approval
  <2> QED  BY <2>1, <2>2 DEF IInv, RowsAgree, operator
<1> QED  BY <1>2, <1>3, <1>4, <1>5

(* An installation puts a baseline of its own manifest where there was none *)
(* and, as it has seen, no coverage either.                                 *)
LEMMA PutBaselineRows ==
  ASSUME IInv, NEW c \in Clients, At(c, "insert"), UNCHANGED <<operator, links>>,
         baseline' = [baseline EXCEPT ![Src(c)] = IF @ = None THEN client[c].rec ELSE @],
         UNCHANGED <<binding, coverage, probe, adoption>>
  PROVE  Grows /\ RowTypes' /\ RowsAgree'
<1>1. /\ Src(c) \in Sources /\ client[c].rec \in Baseline
      /\ client[c].rec.manifest = manifest[c] /\ binding = manifest[c]
      /\ baseline[Src(c)] = None => coverage[Src(c)] = None
  <2>1. client[c].rec \in Baseline \cup {None}  BY DEF IInv, TypeOK, Call
  <2> QED  BY <2>1 DEF IInv, ClientOK, Chained, Installs, At, Opening, Installing
<1>2. RowTypes'  BY <1>1 DEF IInv, TypeOK, RowTypes
<1>3. Grows  BY <1>1 DEF Grows, operator, IInv, TypeOK
<1>4. \A s \in Sources : baseline'[s] =
        IF s = Src(c) /\ baseline[s] = None THEN client[c].rec ELSE baseline[s]
  BY <1>1 DEF IInv, TypeOK
<1>5. RowsAgree'  BY <1>1, <1>4 DEF IInv, RowsAgree, operator
<1> QED  BY <1>2, <1>3, <1>5

(* A coverage row starts at the anchor of the baseline, and after adoption. *)
LEMMA PutCoverageRows ==
  ASSUME IInv, NEW c \in Clients, At(c, "upsert"), UNCHANGED <<operator, links>>,
         PutCoverage(c), UNCHANGED <<binding, baseline, probe, adoption>>
  PROVE  Grows /\ RowTypes' /\ RowsAgree'
<1> DEFINE new == [anchor |-> client[c].rec.anchor, seq |-> NoSeq]
<1>1. /\ Src(c) \in Sources /\ client[c].rec \in Baseline
      /\ baseline[Src(c)] = client[c].rec /\ baseline[Src(c)] # None
      /\ binding = manifest[c] /\ (manifest[c] \in Joined => adoption # None)
  <2>1. client[c].rec \in Baseline \cup {None}  BY DEF IInv, TypeOK, Call
  <2> QED  BY <2>1 DEF IInv, ClientOK, Chained, Admits, At, Src, Opening, Covering
<1>2. new \in Coverage /\ new # None
  BY <1>1, TransportAssumption DEF Coverage, Baseline, NoSeq
<1>3. \A s \in Sources : coverage'[s] =
        IF s = Src(c) /\ coverage[s] = None THEN new ELSE coverage[s]
  BY <1>1 DEF IInv, TypeOK, PutCoverage
<1>4. RowTypes'
  <2>1. coverage' \in [Sources -> Coverage \cup {None}]
    BY <1>1, <1>2 DEF IInv, TypeOK, PutCoverage
  <2> QED  BY <2>1 DEF IInv, TypeOK, RowTypes
<1>5. Grows  BY <1>1, <1>2, <1>3 DEF Grows, operator
<1>6. RowsAgree'
  <2>1. new.anchor = client[c].rec.anchor  OBVIOUS
  <2> QED  BY <1>1, <1>3, <2>1 DEF IInv, RowsAgree, operator
<1> QED  BY <1>4, <1>5, <1>6

LEMMA PutProbeRows ==
  ASSUME IInv, NEW c \in Clients, At(c, "probe_write"), UNCHANGED <<operator, links>>,
         PutProbe(c), UNCHANGED <<binding, baseline, coverage, adoption>>
  PROVE  Grows /\ RowTypes' /\ RowsAgree'
<1>1. client[c].seen \in {"none", "asserted", "not_checked"}  BY DEF IInv, TypeOK, Call
<1>2. RowTypes'  BY <1>1 DEF IInv, TypeOK, RowTypes, PutProbe
<1> QED  BY <1>2 DEF Grows, IInv, RowsAgree, operator

(* The sequence that an admitted client asks for is a sequence.             *)
LEMMA WantedIsASequence ==
  ASSUME IInv, NEW c \in Clients, client[c].pc \in {"advance", "reconcile"}
  PROVE  Wanted(c) \in 0 .. MaxSeq
<1>1. client[c].rec \in Baseline /\ client[c].cov \in NoSeq .. MaxSeq /\ Wanted(c) <= MaxSeq
  <2>1. client[c].rec \in Baseline \cup {None} /\ client[c].cov \in NoSeq .. MaxSeq
    BY DEF IInv, TypeOK, Call
  <2> QED
    BY <2>1 DEF IInv, ClientOK, Chained, Admits, Advances, Opening, Advancing
<1>2. client[c].rec.anchor \in 0 .. MaxSeq  BY <1>1, TransportAssumption DEF Baseline
<1> QED  BY <1>1, <1>2, TransportAssumption DEF Wanted, NextSeq, NoSeq

(* An advance moves the coverage to that sequence and keeps its anchor.     *)
LEMMA PutAdvanceRows ==
  ASSUME IInv, NEW c \in Clients, At(c, "advance"), UNCHANGED <<operator, links>>,
         PutAdvance(c), UNCHANGED <<binding, baseline, probe, adoption>>
  PROVE  Grows /\ RowTypes' /\ RowsAgree'
<1>1. Wanted(c) \in 0 .. MaxSeq  BY WantedIsASequence DEF At
<1>2. Src(c) \in Sources /\ coverage[Src(c)] \in Coverage /\ coverage[Src(c)] # None
  <2>1. Src(c) \in Sources /\ coverage[Src(c)] # None
    BY DEF IInv, ClientOK, Chained, Advances, At, Advancing
  <2> QED  BY <2>1 DEF IInv, TypeOK
<1> DEFINE new == [coverage[Src(c)] EXCEPT !.seq = Wanted(c)]
<1>3. new \in Coverage /\ new # None /\ new.anchor = coverage[Src(c)].anchor
  BY <1>1, <1>2, TransportAssumption DEF Coverage, NoSeq
<1>4. coverage' = [coverage EXCEPT ![Src(c)] = new]
  BY <1>2 DEF PutAdvance, IInv, TypeOK
<1>5. \A s \in Sources : coverage'[s] = IF s = Src(c) THEN new ELSE coverage[s]
  BY <1>4 DEF IInv, TypeOK
<1>6. RowTypes'  BY <1>2, <1>3, <1>4 DEF IInv, TypeOK, RowTypes
<1>7. Grows  BY <1>2, <1>3, <1>5 DEF Grows, operator
<1>8. RowsAgree'  BY <1>2, <1>3, <1>5 DEF IInv, RowsAgree, operator
<1> QED  BY <1>6, <1>7, <1>8

(* A client that has covered its next sequence is as admitted as before.    *)
LEMMA CoveredIsOK ==
  ASSUME IInv, Grows, NEW c \in Clients, client[c].pc \in {"advance", "reconcile"},
         Covered(c), ready' = ready
  PROVE  /\ ClientOK(c)'
         /\ \E e \in Call : client' = [client EXCEPT ![c] = e]
<1> DEFINE e == [client[c] EXCEPT !.cov = Wanted(c), !.pc = "admitted"]
<1>1. client[c] \in Call /\ ClientOK(c) /\ manifest[c] # None
  BY TransportAssumption DEF IInv, TypeOK
<1>2. Wanted(c) \in NoSeq .. MaxSeq  BY WantedIsASequence, TransportAssumption DEF NoSeq
<1>3. e \in Call  BY <1>1, <1>2 DEF Call, Places, Advancing
<1>4. client' = [client EXCEPT ![c] = e] /\ client'[c] = e
  BY DEF Covered, IInv, TypeOK
<1>5. /\ client'[c].pc = "admitted" /\ client'[c].op = client[c].op
      /\ client'[c].s = client[c].s /\ client'[c].rec = client[c].rec
      /\ client'[c].app = client[c].app
  <2>1. /\ e.pc = "admitted" /\ e.op = client[c].op /\ e.s = client[c].s
        /\ e.rec = client[c].rec /\ e.app = client[c].app
    BY <1>1 DEF Call
  <2> QED  BY <1>4, <2>1
<1>6. Chained(c)' /\ Installs(c)'
  BY <1>1, <1>5 DEF ClientOK, Chained, Installs, Grows, At, Src, Opening, Installing, Admitting, Probing, Covering, Advancing
<1>7. Src(c) \in Sources  BY <1>1 DEF ClientOK, Chained, At
<1>8. Admits(c)' /\ Advances(c)'
  BY <1>1, <1>5, <1>7
  DEF ClientOK, Chained, Admits, Advances, Grows, At, Src, Opening, Installing, Admitting, Probing, Covering, Advancing
<1> QED  BY <1>3, <1>4, <1>6, <1>8 DEF ClientOK

LEMMA ReconcileIInv ==
  ASSUME IInv, NEW c \in Clients, Reconcile(c)
  PROVE  IInv'
<1>1. Reads /\ client[c].pc = "reconcile"  BY DEF Reconcile, At
<1>2. CASE Reject(c)  BY <1>1, <1>2, Ending
<1>3. CASE Covered(c)
  <2>1. UNCHANGED <<rows, operator, links, ready>> /\ faults' \in Nat
    BY <1>1 DEF Reads, IInv, TypeOK
  <2>2. Grows  BY <2>1, RowsRest
  <2>3. ClientOK(c)' /\ \E e \in Call : client' = [client EXCEPT ![c] = e]
    BY <1>1, <1>3, <2>1, <2>2, CoveredIsOK
  <2>4. ready[c] \in {"no", "yes", "failed"} /\ ready' = [ready EXCEPT ![c] = ready[c]]
    BY <2>1 DEF IInv, TypeOK
  <2> QED  BY <2>1, <2>3, <2>4, ReadingStep
<1> QED  BY <1>2, <1>3 DEF Reconcile

LEMMA AdvanceCasIInv ==
  ASSUME IInv, NEW c \in Clients, AdvanceCas(c)
  PROVE  IInv'
<1>1. /\ At(c, "advance") /\ client[c].pc = "advance"
      /\ UNCHANGED <<operator, links, ready, faults>> /\ faults' \in Nat
      /\ UNCHANGED <<binding, baseline, probe, adoption>>
  BY DEF AdvanceCas, Writes, At, IInv, TypeOK
<1>2. CASE PutAdvance(c) /\ Covered(c)
  <2>1. Grows /\ RowTypes' /\ RowsAgree'  BY <1>1, <1>2, PutAdvanceRows
  <2>2. ClientOK(c)' /\ \E e \in Call : client' = [client EXCEPT ![c] = e]
    BY <1>1, <1>2, <2>1, CoveredIsOK
  <2>3. ready[c] \in {"no", "yes", "failed"} /\ ready' = [ready EXCEPT ![c] = ready[c]]
    BY <1>1 DEF IInv, TypeOK
  <2> QED  BY <1>1, <2>1, <2>2, <2>3, WritingStep
<1>3. CASE UNCHANGED coverage /\ Go(c, "reconcile")
  <2>1. Reads /\ "reconcile" \in Places  BY <1>1, <1>3 DEF Reads, rows, Places, Advancing
  <2>2. ClientOK(c)'
    BY <1>1, <1>3, GoKeeps
    DEF At, Src, ClientOK, Chained, Installs, Admits, Advances, Wanted, operator,
        Opening, Installing, Admitting, Probing, Covering, Advancing
  <2> QED  BY <1>3, <2>1, <2>2, GoingOn
<1> QED  BY <1>2, <1>3 DEF AdvanceCas

(* Going on from a write: the next step of the call.                        *)
LEMMA GoingOnIsOK ==
  ASSUME IInv, Grows, NEW c \in Clients, ready' = ready, NEW p, Go(c, p),
         \/ At(c, "insert") /\ p = "compare"
         \/ At(c, "bind_insert") /\ p = "bind_check"
         \/ At(c, "upsert") /\ p = "read_coverage"
         \/ At(c, "probe_write") /\ client[c].op = "admit" /\ p = "upsert"
         \/ client[c].pc \in {"verify", "adopt"} /\ p = "assert"
         \/ At(c, "advance") /\ p = "reconcile"
  PROVE  ClientOK(c)' /\ p \in Places
<1>1. p \in Places  BY DEF Places, Opening, Installing, Admitting, Probing, Covering, Advancing
<1>2. Src(c) \in Sources  BY DEF IInv, ClientOK, Chained, At
<1>3. Chained(c)'
  BY GoKeeps DEF At, Src, ClientOK, Chained, Grows, Opening, Installing, Admitting, Probing, Covering, Advancing
<1>4. Installs(c)' /\ Advances(c)'
  BY <1>2, GoKeeps
  DEF At, Src, ClientOK, Chained, Installs, Advances, Wanted, Grows, Opening, Installing, Admitting, Probing, Covering, Advancing
<1>5. Admits(c)'
  BY <1>2, GoKeeps
  DEF At, Src, ClientOK, Chained, Admits, Grows, Opening, Installing, Admitting, Probing, Covering, Advancing
<1> QED  BY <1>1, <1>3, <1>4, <1>5 DEF ClientOK

LEMMA InsertBindingIInv ==
  ASSUME IInv, NEW c \in Clients, InsertBinding(c)
  PROVE  IInv'
<1>1. /\ At(c, "bind_insert") /\ PutBinding(c) /\ Go(c, "bind_check")
      /\ UNCHANGED <<operator, links, ready>> /\ faults' \in Nat
      /\ UNCHANGED <<baseline, coverage, probe, adoption>>
  BY DEF InsertBinding, Writes, IInv, TypeOK
<1> QED  BY <1>1, PutBindingRows, GoingOnIsOK, GoingWriting

LEMMA InsertBaselineIInv ==
  ASSUME IInv, NEW c \in Clients, InsertBaseline(c)
  PROVE  IInv'
<1>1. /\ At(c, "insert") /\ Go(c, "compare")
      /\ baseline' = [baseline EXCEPT ![Src(c)] = IF @ = None THEN client[c].rec ELSE @]
      /\ UNCHANGED <<operator, links, ready>> /\ faults' \in Nat
      /\ UNCHANGED <<binding, coverage, probe, adoption>>
  BY DEF InsertBaseline, Writes, IInv, TypeOK
<1> QED  BY <1>1, PutBaselineRows, GoingOnIsOK, GoingWriting

LEMMA UpsertCoverageIInv ==
  ASSUME IInv, NEW c \in Clients, UpsertCoverage(c)
  PROVE  IInv'
<1>1. /\ At(c, "upsert") /\ Go(c, "read_coverage") /\ PutCoverage(c)
      /\ UNCHANGED <<operator, links, ready>> /\ faults' \in Nat
      /\ UNCHANGED <<binding, baseline, probe, adoption>>
  BY DEF UpsertCoverage, Writes, IInv, TypeOK
<1> QED  BY <1>1, PutCoverageRows, GoingOnIsOK, GoingWriting

LEMMA WriteProbeIInv ==
  ASSUME IInv, NEW c \in Clients, WriteProbe(c)
  PROVE  IInv'
<1>1. /\ At(c, "probe_write") /\ PutProbe(c)
      /\ UNCHANGED <<operator, links, ready>> /\ faults' \in Nat
      /\ UNCHANGED <<binding, baseline, coverage, adoption>>
  BY DEF WriteProbe, Writes, IInv, TypeOK
<1>2. Grows /\ RowTypes' /\ RowsAgree'  BY <1>1, PutProbeRows
<1>3. CASE client[c].op = "admit" /\ Go(c, "upsert")
  BY <1>1, <1>2, <1>3, GoingOnIsOK, GoingWriting
<1>4. CASE Reject(c)  BY <1>1, <1>2, <1>4, EndingWriting
<1> QED  BY <1>3, <1>4 DEF WriteProbe

(* The adoption is of an approval that was found to list the links.         *)
LEMMA AdoptIInv ==
  ASSUME IInv, NEW c \in Clients, Adopt(c)
  PROVE  IInv'
<1>1. /\ At(c, "adopt") /\ Go(c, "assert")
      /\ adoption' = IF adoption = None THEN client[c].app ELSE adoption
      /\ UNCHANGED <<operator, links, ready>> /\ faults' \in Nat
      /\ UNCHANGED <<binding, baseline, coverage, probe>>
  BY DEF Adopt, Writes, IInv, TypeOK
<1>2. /\ client[c].app \in Approval /\ client[c].app # None
      /\ client[c].app.manifest = manifest[c] /\ binding = manifest[c]
      /\ adoption = None => client[c].app.inventory = seeded
  <2>1. client[c].app \in Approval \cup {None}  BY DEF IInv, TypeOK, Call
  <2> QED  BY <1>1, <2>1 DEF IInv, ClientOK, Chained, Admits, At, Opening
<1>3. RowTypes'  BY <1>1, <1>2 DEF IInv, TypeOK, RowTypes
<1>4. Grows  BY <1>1 DEF Grows, operator
<1>5. RowsAgree'
  <2>1. CASE adoption = None  BY <1>1, <1>2, <2>1 DEF IInv, RowsAgree, operator
  <2>2. CASE adoption # None  BY <1>1, <2>2 DEF IInv, RowsAgree, operator
  <2> QED  BY <2>1, <2>2
<1>6. ClientOK(c)' /\ "assert" \in Places  BY <1>1, <1>4, GoingOnIsOK DEF At
<1> QED  BY <1>1, <1>3, <1>4, <1>5, <1>6, GoingWriting

(* Links move only for clients admitted after the adoption.                 *)
LEMMA DispatchIInv ==
  ASSUME IInv, NEW c \in Clients, Dispatch(c)
  PROVE  IInv'
<1>1. adoption # None
  BY DEF Dispatch, IInv, ClientOK, Chained, Admits, At, Advancing
<1>2. Grows  BY DEF Dispatch, Grows, rows, operator
<1>3. TypeOK'  BY DEF Dispatch, IInv, TypeOK, rows, operator
<1>4. RowsAgree'  BY <1>1 DEF Dispatch, IInv, RowsAgree, rows, operator
<1>5. \A d \in Clients : ClientOK(d)'  BY <1>2, OthersKeep DEF Dispatch
<1> QED  BY <1>3, <1>4, <1>5 DEF IInv

-----------------------------------------------------------------------------
(* The operator, failures and restarts.                                     *)

LEMMA ApproveIInv ==
  ASSUME IInv, Approve
  PROVE  IInv'
<1>1. TypeOK'  BY DEF Approve, IInv, TypeOK, rows
<1>2. Grows /\ RowsAgree'  BY DEF Approve, IInv, RowsAgree, Grows, rows
<1>3. \A d \in Clients : ClientOK(d)'  BY <1>2, OthersKeep DEF Approve
<1> QED  BY <1>1, <1>2, <1>3 DEF IInv

LEMMA CallFailsIInv ==
  ASSUME IInv, NEW c \in Clients, CallFails(c)
  PROVE  IInv'
<1>1. UNCHANGED <<rows, operator, links>> /\ faults' \in Nat
  BY DEF CallFails, Fault, IInv, TypeOK
<1>2. Grows /\ RowsAgree'  BY <1>1, RowsRest
<1>3. RowTypes'  BY <1>1 DEF IInv, TypeOK, RowTypes, rows
<1>4. CASE client[c].pc \in Opening /\ NotOpened(c)  BY <1>1, <1>4, NotOpenedIInv
<1>5. CASE At(c, "insert") /\ Go(c, "compare") /\ UNCHANGED ready
  BY <1>1, <1>2, <1>3, <1>5, GoingOnIsOK, GoingWriting
<1>6. CASE client[c].pc \in {"verify", "adopt"} /\ Go(c, "assert") /\ UNCHANGED ready
  BY <1>1, <1>2, <1>3, <1>6, GoingOnIsOK, GoingWriting
<1>7. CASE At(c, "advance") /\ Go(c, "reconcile") /\ UNCHANGED ready
  BY <1>1, <1>2, <1>3, <1>7, GoingOnIsOK, GoingWriting
<1>8. CASE Reject(c) /\ UNCHANGED ready
  BY <1>1, <1>2, <1>3, <1>8, EndingWriting
<1> QED
  BY <1>4, <1>5, <1>6, <1>7, <1>8 DEF CallFails, At

LEMMA ReplyLostIInv ==
  ASSUME IInv, NEW c \in Clients, ReplyLost(c)
  PROVE  IInv'
<1>1. UNCHANGED <<operator, links>> /\ faults' \in Nat
  BY DEF ReplyLost, Fault, IInv, TypeOK
<1>2. CASE At(c, "bind_insert") /\ PutBinding(c) /\ NotOpened(c)
           /\ UNCHANGED <<baseline, coverage, probe, adoption>>
  <2>1. ready' = [ready EXCEPT ![c] = "failed"] /\ Reject(c)  BY <1>2 DEF NotOpened
  <2> QED  BY <1>1, <1>2, <2>1, PutBindingRows, EndingWriting
<1>3. CASE At(c, "upsert") /\ PutCoverage(c) /\ Reject(c)
           /\ UNCHANGED <<binding, baseline, probe, adoption, ready>>
  BY <1>1, <1>3, PutCoverageRows, EndingWriting
<1>4. CASE At(c, "probe_write") /\ PutProbe(c) /\ Reject(c)
           /\ UNCHANGED <<binding, baseline, coverage, adoption, ready>>
  BY <1>1, <1>4, PutProbeRows, EndingWriting
<1>5. CASE At(c, "advance") /\ PutAdvance(c) /\ Go(c, "reconcile")
           /\ UNCHANGED <<binding, baseline, probe, adoption, ready>>
  BY <1>1, <1>5, PutAdvanceRows, GoingOnIsOK, GoingWriting
<1> QED  BY <1>2, <1>3, <1>4, <1>5 DEF ReplyLost

LEMMA RestartIInv ==
  ASSUME IInv, NEW c \in Clients, Restart(c)
  PROVE  IInv'
<1>1. faults' \in Nat  BY DEF Restart, IInv, TypeOK
<1> QED  BY <1>1, EndingReading DEF Restart

-----------------------------------------------------------------------------
(* The theorems.                                                            *)

LEMMA InitIInv == Init => IInv
<1> SUFFICES ASSUME Init PROVE IInv  OBVIOUS
<1>1. Idle \in Call  BY TransportAssumption DEF Idle, Call, Places, NoSeq
<1>2. \A a \in Anchors : [anchor |-> a, seq |-> a] \in Coverage
  BY TransportAssumption DEF Coverage, NoSeq
<1>3. coverage \in [Sources -> Coverage \cup {None}]  BY <1>2 DEF Init
<1>4. TypeOK  BY <1>1, <1>3 DEF Init, TypeOK
<1>5. RowsAgree  BY TransportAssumption DEF Init, RowsAgree
<1>6. \A c \in Clients : ClientOK(c)
  BY DEF Init, ClientOK, Chained, Installs, Admits, Advances, At, Idle, Opening, Installing, Admitting, Probing, Covering, Advancing
<1> QED  BY <1>4, <1>5, <1>6 DEF IInv

LEMMA NextIInv == IInv /\ [Next]_vars => IInv'
<1> SUFFICES ASSUME IInv, [Next]_vars PROVE IInv'  OBVIOUS
<1>1. CASE UNCHANGED vars
  BY <1>1 DEF vars, rows, operator, IInv, TypeOK, RowsAgree, ClientOK, Chained,
     Installs, Admits, Advances, At, Src, Wanted
<1>2. CASE Approve  BY <1>2, ApproveIInv
<1>3. ASSUME NEW c \in Clients, Begin(c) \/ CallFails(c) \/ ReplyLost(c) \/ Restart(c)
      PROVE  IInv'
  BY <1>3, BeginIInv, CallFailsIInv, ReplyLostIInv, RestartIInv
<1>4. ASSUME NEW c \in Clients, Step(c)  PROVE IInv'
  <2>1. CASE ReadBinding(c) \/ InsertBinding(c) \/ CheckBinding(c)
    BY <2>1, ReadBindingIInv, InsertBindingIInv, CheckBindingIInv
  <2>2. CASE ReadPrior(c) \/ CheckCoverage(c) \/ InsertBaseline(c) \/ CompareBaseline(c)
    BY <2>2, ReadPriorIInv, CheckCoverageIInv, InsertBaselineIInv, CompareBaselineIInv
  <2>3. CASE ReadBaseline(c) \/ VerifyBinding(c) \/ ReadApproval(c) \/ ReadAdoption(c)
    BY <2>3, ReadBaselineIInv, VerifyBindingIInv, ReadApprovalIInv, ReadAdoptionIInv
  <2>4. CASE Verify(c) \/ Adopt(c) \/ AssertAdoption(c)
    BY <2>4, VerifyIInv, AdoptIInv, AssertAdoptionIInv
  <2>5. CASE UpsertCoverage(c) \/ ReadCoverage(c)
    BY <2>5, UpsertCoverageIInv, ReadCoverageIInv
  <2>6. CASE ReadProbedBaseline(c) \/ ReadProbe(c) \/ WriteProbe(c)
    BY <2>6, ReadProbedBaselineIInv, ReadProbeIInv, WriteProbeIInv
  <2>7. CASE Dispatch(c) \/ AdvanceRead(c) \/ AdvanceCas(c) \/ Reconcile(c) \/ Leave(c)
    BY <2>7, DispatchIInv, AdvanceReadIInv, AdvanceCasIInv, ReconcileIInv, LeaveIInv
  <2> QED  BY <1>4, <2>1, <2>2, <2>3, <2>4, <2>5, <2>6, <2>7 DEF Step
<1> QED  BY <1>1, <1>2, <1>3, <1>4 DEF Next

(* Every row, and what every call of a client holds, stays in its type, and *)
(* the sequence a coverage row reaches stays within the bound.              *)
THEOREM TypeCorrect == Spec => []TypeOK
<1>1. IInv => TypeOK  BY DEF IInv
<1> QED  BY <1>1, InitIInv, NextIInv, PTL DEF Spec

(* Whatever deployments race for a queue and however the approval changes,  *)
(* its rows belong to one manifest, joined clients go by the one adopted    *)
(* approval, and coverage counts from the accepted anchor                   *)
(* (mongoTransportStore.ts:129-141, 156-158, 216-270, 284-291, 336-339).    *)
THEOREM RegistryIsOne == Spec => []OneRegistry
<1>1. IInv => OneRegistry
  <2> SUFFICES ASSUME IInv PROVE OneRegistry  OBVIOUS
  <2>1. AnchorsAgree
    BY DEF IInv, RowsAgree, AnchorsAgree, ClientOK, Chained, Admits, Advances,
       Src, Opening, Advancing
  <2>2. \A c \in Clients :
         client[c].pc \in Covering \cup Advancing /\ manifest[c] \in Joined =>
           adoption = client[c].app /\ adoption # None
    BY DEF IInv, ClientOK, Chained, Admits
  <2>3. links = Moved => adoption # None
    BY TransportAssumption DEF IInv, TypeOK, RowsAgree
  <2>4. OneBinding
    BY <2>2, <2>3 DEF IInv, RowsAgree, ClientOK, Chained, OneBinding
  <2> QED  BY <2>1, <2>4 DEF OneRegistry
<1> QED  BY <1>1, InitIInv, NextIInv, PTL DEF Spec

(* What one step may do to the coverage of a source.                        *)
ByOne(s) ==
  coverage'[s] # coverage[s] =>
    \/ coverage[s] = None /\ coverage'[s].seq = NoSeq
    \/ coverage[s] # None /\ coverage'[s] =
         [coverage[s] EXCEPT !.seq = NextSeq(coverage[s].seq, coverage[s].anchor)]

LEMMA PutCoverageByOne ==
  ASSUME IInv, NEW c \in Clients, PutCoverage(c), NEW s \in Sources
  PROVE  ByOne(s)
BY DEF PutCoverage, ByOne, IInv, TypeOK

(* The advance finds the row as it was read, so that the sequence it asks   *)
(* for is the next of the row and not only of what was read.                *)
LEMMA PutAdvanceByOne ==
  ASSUME IInv, NEW c \in Clients, At(c, "advance"), PutAdvance(c),
         coverage[Src(c)].seq = client[c].cov, NEW s \in Sources
  PROVE  ByOne(s)
<1>1. /\ coverage[Src(c)] # None
      /\ coverage[Src(c)].anchor = client[c].rec.anchor
  BY DEF IInv, ClientOK, Advances, At, Advancing
<1>2. Wanted(c) = NextSeq(coverage[Src(c)].seq, coverage[Src(c)].anchor)
  BY <1>1 DEF Wanted
<1> QED  BY <1>1, <1>2 DEF PutAdvance, ByOne, IInv, TypeOK

(* A coverage row is created empty and takes one sequence after the other,  *)
(* whichever clients advance it and whichever replies are lost              *)
(* (mongoTransportStore.ts:295-315, 352-365).                               *)
THEOREM CoverageAdvancesByOne == Spec => CoverageByOne
<1>1. IInv /\ [Next]_vars => [\A s \in Sources : ByOne(s)]_vars
  <2> SUFFICES ASSUME IInv, Next, NEW s \in Sources  PROVE ByOne(s)
    OBVIOUS
  <2>1. CASE UNCHANGED coverage  BY <2>1 DEF ByOne
  <2>2. CASE Approve
    <3>1. UNCHANGED coverage  BY <2>2 DEF Approve, rows
    <3> QED  BY <2>1, <3>1
  <2>3. ASSUME NEW c \in Clients, Begin(c) \/ CallFails(c) \/ Restart(c)  PROVE ByOne(s)
    <3>1. CASE Begin(c)
      <4>1. UNCHANGED coverage  BY <3>1 DEF Begin, Reads, rows
      <4> QED  BY <2>1, <4>1
    <3>2. CASE CallFails(c)
      <4>1. UNCHANGED coverage  BY <3>2 DEF CallFails, rows
      <4> QED  BY <2>1, <4>1
    <3>3. CASE Restart(c)
      <4>1. UNCHANGED coverage  BY <3>3 DEF Restart, Reads, rows
      <4> QED  BY <2>1, <4>1
    <3> QED  BY <2>3, <3>1, <3>2, <3>3
  <2>4. ASSUME NEW c \in Clients, ReplyLost(c)  PROVE ByOne(s)
    BY <2>1, <2>4, PutCoverageByOne, PutAdvanceByOne DEF ReplyLost
  <2>5. ASSUME NEW c \in Clients, Step(c)  PROVE ByOne(s)
    <3>1. CASE UpsertCoverage(c)  BY <3>1, PutCoverageByOne DEF UpsertCoverage
    <3>2. CASE AdvanceCas(c)  BY <2>1, <3>2, PutAdvanceByOne DEF AdvanceCas
    <3>3. CASE ReadBinding(c) \/ InsertBinding(c) \/ CheckBinding(c)
      BY <2>1, <3>3 DEF ReadBinding, InsertBinding, CheckBinding, rows
    <3>4. CASE ReadPrior(c) \/ CheckCoverage(c) \/ InsertBaseline(c) \/ CompareBaseline(c)
      BY <2>1, <3>4 DEF ReadPrior, CheckCoverage, InsertBaseline, CompareBaseline, Reads, rows
    <3>5. CASE ReadBaseline(c) \/ VerifyBinding(c) \/ ReadApproval(c) \/ ReadAdoption(c)
      BY <2>1, <3>5 DEF ReadBaseline, VerifyBinding, ReadApproval, ReadAdoption, Reads, rows
    <3>6. CASE Verify(c) \/ Adopt(c) \/ AssertAdoption(c) \/ ReadCoverage(c)
      BY <2>1, <3>6 DEF Verify, Adopt, AssertAdoption, ReadCoverage, Reads, rows
    <3>7. CASE ReadProbedBaseline(c) \/ ReadProbe(c) \/ WriteProbe(c)
      BY <2>1, <3>7 DEF ReadProbedBaseline, ReadProbe, WriteProbe, Reads, rows
    <3>8. CASE Dispatch(c) \/ AdvanceRead(c) \/ Reconcile(c) \/ Leave(c)
      BY <2>1, <3>8 DEF Dispatch, AdvanceRead, Reconcile, Leave, Reads, rows
    <3> QED
      BY <2>5, <3>1, <3>2, <3>3, <3>4, <3>5, <3>6, <3>7, <3>8 DEF Step
  <2> QED  BY <2>2, <2>3, <2>4, <2>5 DEF Next
<1> QED  BY <1>1, InitIInv, NextIInv, PTL DEF Spec, CoverageByOne, ByOne

-----------------------------------------------------------------------------
(* LegacyTakeover: the inductive invariant.                                *)

Stamps == Times \cup {0}
Seen == [stamp : Stamps, checkpoint : Nat]
Row == [rev : Nat, state : Nat, stamp : Stamps, checkpoint : Nat, observed : SUBSET Seen]
Fold == [pc : {"idle", "loaded", "noticed", "changed", "inspect"}, doc : TakenDocs \cup {0},
         rev : Nat, state : Nat,
         original : SUBSET [state : Nat, stamp : Stamps, checkpoint : Nat]]

TakeoverTypeOK ==
  /\ row \in [TakenDocs -> Row]
  /\ lastBy \in [TakenDocs -> {"old", "new"}]
  /\ old \in [held : [TakenDocs -> Nat], checkpoint : Nat]
  /\ fold \in [Folders -> Fold]
  /\ states \in Nat /\ upsets \in Nat

\* The checkpoint of the old writer is ahead of every one it has left, and an
\* adopted document looks as it was left exactly until that writer saves it.
RowsAreMarked ==
  /\ old.checkpoint >= 1
  /\ \A d \in TakenDocs :
       /\ row[d].checkpoint <= old.checkpoint
       /\ \A o \in row[d].observed : o.checkpoint <= old.checkpoint
       /\ row[d].observed # {} /\ lastBy[d] = "new" => row[d].observed = Observed(row[d])
       /\ row[d].observed # {} /\ lastBy[d] = "old" =>
            row[d].observed # Observed(row[d]) /\ row[d].checkpoint > 1

\* What an execution has read, against the document as it is now.
ReadHolds(f, d) ==
  fold[f].pc = "loaded" /\ fold[f].doc = d =>
    /\ fold[f].rev <= row[d].rev
    /\ fold[f].original # {} => fold[f].rev = 0
    /\ \A o \in fold[f].original : o.state = fold[f].state
    /\ fold[f].rev = row[d].rev /\ row[d].observed # {} /\ lastBy[d] = "new" =>
         fold[f].state = row[d].state
    /\ fold[f].rev = 0 /\ row[d].rev = 0 /\ fold[f].original # Original(row[d]) =>
         row[d].checkpoint > 1

HaltsHaveReasons(f) ==
  /\ fold[f].pc # "idle" => fold[f].doc \in TakenDocs
  /\ fold[f].pc \in {"noticed", "changed"} => row[fold[f].doc].checkpoint > 1
  /\ fold[f].pc = "inspect" => upsets > 0

TakeoverIInv ==
  /\ TakeoverTypeOK /\ RowsAreMarked
  /\ \A f \in Folders : HaltsHaveReasons(f) /\ \A d \in TakenDocs : ReadHolds(f, d)

-----------------------------------------------------------------------------
(* LegacyTakeover: the steps.                                              *)

(* Rows that are saved by either runtime are rows.                         *)
LEMMA RowSaved ==
  ASSUME NEW r \in Row, NEW v \in Nat, NEW t \in Stamps, NEW c \in Nat
  PROVE  [r EXCEPT !.state = v, !.stamp = t, !.checkpoint = c] \in Row
BY DEF Row

LEMMA RowReplaced ==
  ASSUME NEW r \in Row, NEW n \in Nat, NEW v \in Nat, NEW t \in Stamps, NEW o \in SUBSET Seen
  PROVE  [r EXCEPT !.rev = n, !.state = v, !.stamp = t, !.observed = o] \in Row
BY DEF Row

LEMMA InitTakeoverIInv == TakeoverInit => TakeoverIInv
<1> SUFFICES ASSUME TakeoverInit PROVE TakeoverIInv  OBVIOUS
<1>1. \A d \in TakenDocs :
        /\ row[d] \in Row /\ row[d].observed = {} /\ row[d].checkpoint <= 1
        /\ row[d].state \in Nat
  <2> SUFFICES ASSUME NEW d \in TakenDocs
               PROVE  /\ row[d] \in Row /\ row[d].observed = {} /\ row[d].checkpoint <= 1
                      /\ row[d].state \in Nat
    OBVIOUS
  <2>1. row[d] = NoRow \/ \E t \in Times \cup {0}, k \in {0, 1} : row[d] = OldRow(t, k)
    BY DEF TakeoverInit
  <2>2. CASE row[d] = NoRow  BY <2>2 DEF NoRow, Row, Stamps
  <2>3. ASSUME NEW t \in Times \cup {0}, NEW k \in {0, 1}, row[d] = OldRow(t, k)
        PROVE  /\ row[d] \in Row /\ row[d].observed = {} /\ row[d].checkpoint <= 1
               /\ row[d].state \in Nat
    <3>1. k \in Nat /\ k <= 1  OBVIOUS
    <3> QED  BY <2>3, <3>1 DEF OldRow, Row, Stamps
  <2> QED  BY <2>1, <2>2, <2>3
<1>2. TakeoverTypeOK
  <2>1. row \in [TakenDocs -> Row]  BY <1>1 DEF TakeoverInit
  <2>2. Resting \in Fold  BY DEF Resting, Fold
  <2> QED  BY <1>1, <2>1, <2>2 DEF TakeoverInit, TakeoverTypeOK
<1>3. RowsAreMarked  BY <1>1 DEF TakeoverInit, RowsAreMarked
<1>4. \A f \in Folders : HaltsHaveReasons(f) /\ \A d \in TakenDocs : ReadHolds(f, d)
  BY DEF TakeoverInit, HaltsHaveReasons, ReadHolds, Resting
<1> QED  BY <1>2, <1>3, <1>4 DEF TakeoverIInv

(* An execution that rests, or halts over a document, holds nothing read.  *)
LEMMA FoldMoves ==
  ASSUME TakeoverIInv, NEW f \in Folders, NEW e \in Fold,
         fold' = [fold EXCEPT ![f] = e],
         UNCHANGED <<row, lastBy, old, states>>, upsets' \in Nat, upsets' >= upsets,
         HaltsHaveReasons(f)', \A d \in TakenDocs : ReadHolds(f, d)'
  PROVE  TakeoverIInv'
<1>1. \A g \in Folders : fold'[g] = IF g = f THEN e ELSE fold[g]
  BY DEF TakeoverIInv, TakeoverTypeOK
<1>2. TakeoverTypeOK'  BY DEF TakeoverIInv, TakeoverTypeOK
<1>3. RowsAreMarked'  BY DEF TakeoverIInv, RowsAreMarked
<1>4. upsets \in Nat  BY DEF TakeoverIInv, TakeoverTypeOK
<1>5. ASSUME NEW g \in Folders, g # f
      PROVE  HaltsHaveReasons(g)' /\ \A d \in TakenDocs : ReadHolds(g, d)'
  BY <1>1, <1>4, <1>5 DEF TakeoverIInv, HaltsHaveReasons, ReadHolds
<1> QED  BY <1>2, <1>3, <1>5 DEF TakeoverIInv

LEMMA OldLoadIInv ==
  ASSUME TakeoverIInv, NEW d \in TakenDocs, OldLoad(d)
  PROVE  TakeoverIInv'
<1>1. TakeoverTypeOK'  BY DEF OldLoad, TakeoverIInv, TakeoverTypeOK, Row
<1>2. old'.checkpoint = old.checkpoint  BY DEF OldLoad, TakeoverIInv, TakeoverTypeOK
<1>3. RowsAreMarked'  BY <1>2 DEF OldLoad, TakeoverIInv, RowsAreMarked
<1>4. \A f \in Folders : HaltsHaveReasons(f)' /\ \A e \in TakenDocs : ReadHolds(f, e)'
  BY DEF OldLoad, TakeoverIInv, HaltsHaveReasons, ReadHolds
<1> QED  BY <1>1, <1>3, <1>4 DEF TakeoverIInv

(* The old writer leaves a checkpoint that no adopter has seen.            *)
LEMMA OldSaveIInv ==
  ASSUME TakeoverIInv, NEW d \in TakenDocs, NEW stamp \in Times, OldSave(d, stamp)
  PROVE  TakeoverIInv'
<1>1. PICK state \in {old.held[d], states + 1} \ {0} :
        /\ row' = [row EXCEPT ![d].state = state, ![d].stamp = stamp,
                              ![d].checkpoint = old.checkpoint + 1]
        /\ old' = [held |-> [old.held EXCEPT ![d] = state], checkpoint |-> old.checkpoint + 1]
  BY DEF OldSave
<1>2. /\ row \in [TakenDocs -> Row] /\ old.held \in [TakenDocs -> Nat]
      /\ old.checkpoint \in Nat /\ old.checkpoint >= 1 /\ states \in Nat
  BY DEF TakeoverIInv, TakeoverTypeOK, RowsAreMarked
<1>3. state \in Nat /\ stamp \in Stamps  BY <1>1, <1>2 DEF Stamps
<1>4. row[d] \in Row  BY <1>2
<1>5. PICK new \in Row :
        /\ new.rev = row[d].rev /\ new.observed = row[d].observed
        /\ new.checkpoint = old.checkpoint + 1
        /\ row' = [row EXCEPT ![d] = new]
  <2>1. old.checkpoint + 1 \in Nat  BY <1>2
  <2>2. PICK new : new = [row[d] EXCEPT !.state = state, !.stamp = stamp,
                                        !.checkpoint = old.checkpoint + 1]
    OBVIOUS
  <2>3. new \in Row  BY <1>3, <1>4, <2>1, <2>2, RowSaved
  <2>4. /\ new.rev = row[d].rev /\ new.observed = row[d].observed
        /\ new.checkpoint = old.checkpoint + 1
    BY <1>4, <2>2 DEF Row
  <2>5. row' = [row EXCEPT ![d] = new]  BY <1>1, <1>2, <2>2
  <2> QED  BY <2>3, <2>4, <2>5
<1>6. row' = [row EXCEPT ![d] = new]  BY <1>5
<1>7. \A e \in TakenDocs : row'[e] = IF e = d THEN new ELSE row[e]  BY <1>2, <1>6
<1>8. \A e \in TakenDocs : lastBy'[e] = IF e = d THEN "old" ELSE lastBy[e]
  BY DEF OldSave, TakeoverIInv, TakeoverTypeOK
<1>9. TakeoverTypeOK'
  <2>1. row' \in [TakenDocs -> Row]  BY <1>2, <1>5, <1>6
  <2>2. old' \in [held : [TakenDocs -> Nat], checkpoint : Nat]  BY <1>1, <1>2, <1>3
  <2> QED  BY <1>2, <2>1, <2>2 DEF OldSave, TakeoverIInv, TakeoverTypeOK
<1>10. RowsAreMarked'
  <2>1. old'.checkpoint = old.checkpoint + 1  BY <1>1
  <2>2. ASSUME NEW e \in TakenDocs
        PROVE  /\ row[e].checkpoint \in Nat /\ row[e].checkpoint <= old.checkpoint
               /\ \A o \in row[e].observed : o.checkpoint \in Nat /\ o.checkpoint <= old.checkpoint
    BY <1>2 DEF TakeoverIInv, RowsAreMarked, Row, Seen
  <2>3. ASSUME NEW e \in TakenDocs, e # d
        PROVE  /\ row'[e].checkpoint <= old'.checkpoint
               /\ \A o \in row'[e].observed : o.checkpoint <= old'.checkpoint
               /\ row'[e].observed # {} /\ lastBy'[e] = "new" =>
                    row'[e].observed = Observed(row'[e])
               /\ row'[e].observed # {} /\ lastBy'[e] = "old" =>
                    row'[e].observed # Observed(row'[e]) /\ row'[e].checkpoint > 1
    <3>1. row'[e] = row[e] /\ lastBy'[e] = lastBy[e]  BY <1>7, <1>8, <2>3
    <3> QED  BY <1>2, <2>1, <2>2, <3>1 DEF TakeoverIInv, RowsAreMarked
  <2>4. /\ row'[d].checkpoint <= old'.checkpoint
        /\ \A o \in row'[d].observed : o.checkpoint <= old'.checkpoint
        /\ lastBy'[d] = "old" /\ row'[d].checkpoint > 1
    BY <1>2, <1>5, <1>7, <1>8, <2>1, <2>2
  <2>5. row'[d].observed # Observed(row'[d])
    <3>1. \E o \in Observed(row'[d]) : o.checkpoint = old.checkpoint + 1
      BY <1>5, <1>7 DEF Observed
    <3>2. \A o \in row'[d].observed : o.checkpoint # old.checkpoint + 1
      BY <1>2, <1>5, <1>7, <2>2
    <3> QED  BY <3>1, <3>2
  <2> QED  BY <1>2, <2>1, <2>3, <2>4, <2>5 DEF RowsAreMarked
<1>11. \A f \in Folders : HaltsHaveReasons(f)'
  <2>1. fold' = fold /\ upsets' = upsets  BY DEF OldSave
  <2>2. \A e \in TakenDocs : row[e].checkpoint > 1 => row'[e].checkpoint > 1
    BY <1>2, <1>5, <1>7
  <2> QED  BY <2>1, <2>2 DEF TakeoverIInv, HaltsHaveReasons
<1>12. ASSUME NEW f \in Folders, NEW e \in TakenDocs  PROVE ReadHolds(f, e)'
  <2>1. fold' = fold /\ ReadHolds(f, e)  BY DEF OldSave, TakeoverIInv
  <2>2. CASE e # d
    <3>1. row'[e] = row[e] /\ lastBy'[e] = lastBy[e]  BY <1>7, <1>8, <2>2
    <3> QED  BY <2>1, <3>1 DEF ReadHolds
  <2>3. CASE e = d
    <3>1. row'[e].rev = row[e].rev /\ lastBy'[e] = "old" /\ row'[e].checkpoint > 1
      BY <1>2, <1>5, <1>7, <1>8, <2>3
    <3> QED  BY <2>1, <3>1 DEF ReadHolds
  <2> QED  BY <2>2, <2>3
<1> QED  BY <1>9, <1>10, <1>11, <1>12 DEF TakeoverIInv

LEMMA LoadIInv ==
  ASSUME TakeoverIInv, NEW f \in Folders, NEW d \in TakenDocs, Load(f, d)
  PROVE  TakeoverIInv'
<1> DEFINE e == IF Noticed(row[d]) THEN [Resting EXCEPT !.pc = "noticed", !.doc = d]
                ELSE [pc |-> "loaded", doc |-> d, rev |-> row[d].rev, state |-> row[d].state,
                      original |-> Original(row[d])]
<1>1. fold' = [fold EXCEPT ![f] = e] /\ UNCHANGED <<row, lastBy, old, states, upsets>>
  BY DEF Load
<1>2. row[d] \in Row /\ upsets \in Nat  BY DEF TakeoverIInv, TakeoverTypeOK
<1>3. Original(row[d]) \in SUBSET [state : Nat, stamp : Stamps, checkpoint : Nat]
  BY <1>2 DEF Original, Row
<1>4. e \in Fold  BY <1>2, <1>3 DEF Fold, Resting, Row
<1>5. fold'[f] = e  BY <1>1 DEF TakeoverIInv, TakeoverTypeOK
<1>6. CASE Noticed(row[d])
  <2>1. fold'[f].pc = "noticed" /\ fold'[f].doc = d  BY <1>5, <1>6 DEF Resting
  <2>2. row[d].checkpoint > 1
    BY <1>6 DEF Noticed, TakeoverIInv, TakeoverTypeOK, RowsAreMarked
  <2>3. HaltsHaveReasons(f)' /\ \A x \in TakenDocs : ReadHolds(f, x)'
    BY <1>1, <2>1, <2>2 DEF HaltsHaveReasons, ReadHolds
  <2>4. upsets' \in Nat /\ upsets' >= upsets  BY <1>1, <1>2
  <2> HIDE DEF e
  <2> QED  BY <1>1, <1>4, <2>3, <2>4, FoldMoves
<1>7. CASE ~Noticed(row[d])
  <2>1. /\ fold'[f].pc = "loaded" /\ fold'[f].doc = d /\ fold'[f].rev = row[d].rev
        /\ fold'[f].state = row[d].state /\ fold'[f].original = Original(row[d])
    BY <1>5, <1>7
  <2>2. /\ Original(row[d]) # {} => row[d].rev = 0
        /\ \A o \in Original(row[d]) : o.state = row[d].state
    BY DEF Original
  <2>3. row[d].rev <= row[d].rev  BY <1>2 DEF Row
  <2>4. HaltsHaveReasons(f)'  BY <2>1 DEF HaltsHaveReasons
  <2>5. \A x \in TakenDocs : ReadHolds(f, x)'
    BY <1>1, <2>1, <2>2, <2>3 DEF ReadHolds
  <2>6. upsets' \in Nat /\ upsets' >= upsets  BY <1>1, <1>2
  <2> HIDE DEF e
  <2> QED  BY <1>1, <1>4, <2>4, <2>5, <2>6, FoldMoves
<1> QED  BY <1>6, <1>7

(* The halts and conflicts of an execution.                                *)
LEMMA RestsOrHalts ==
  ASSUME TakeoverIInv, NEW f \in Folders, UNCHANGED <<row, lastBy, old, states>>,
         upsets' \in Nat, upsets' >= upsets,
         \/ Conflicts(f)
         \/ /\ fold[f].pc = "loaded" /\ row[fold[f].doc].checkpoint > 1
            /\ Halts(f, "noticed") \/ Halts(f, "changed")
         \/ fold[f].pc = "loaded" /\ upsets' > 0 /\ Halts(f, "inspect")
  PROVE  TakeoverIInv'
<1>1. Resting \in Fold  BY DEF Resting, Fold
<1>2. CASE Conflicts(f)
  <2>1. fold' = [fold EXCEPT ![f] = Resting] /\ fold'[f] = Resting
    BY <1>2 DEF Conflicts, TakeoverIInv, TakeoverTypeOK
  <2>2. HaltsHaveReasons(f)' /\ \A d \in TakenDocs : ReadHolds(f, d)'
    BY <2>1 DEF HaltsHaveReasons, ReadHolds, Resting
  <2> QED  BY <1>1, <2>1, <2>2, FoldMoves
<1>3. ASSUME NEW why \in {"noticed", "changed", "inspect"}, Halts(f, why), fold[f].pc = "loaded",
             IF why = "inspect" THEN upsets' > 0 ELSE row[fold[f].doc].checkpoint > 1
      PROVE  TakeoverIInv'
  <2> DEFINE e == [Resting EXCEPT !.pc = why, !.doc = fold[f].doc]
  <2>1. fold[f].doc \in TakenDocs  BY <1>3 DEF TakeoverIInv, HaltsHaveReasons
  <2>2. e \in Fold  BY <1>1, <2>1 DEF Fold
  <2>3. fold' = [fold EXCEPT ![f] = e] /\ fold'[f] = e
    BY <1>3 DEF Halts, TakeoverIInv, TakeoverTypeOK
  <2>4. fold'[f].pc = why /\ fold'[f].doc = fold[f].doc
    <3>1. e.pc = why /\ e.doc = fold[f].doc  BY DEF Resting
    <3> QED  BY <2>3, <3>1
  <2>5. HaltsHaveReasons(f)' /\ \A d \in TakenDocs : ReadHolds(f, d)'
    BY <1>3, <2>1, <2>4 DEF HaltsHaveReasons, ReadHolds
  <2> QED  BY <2>2, <2>3, <2>5, FoldMoves
<1> QED  BY <1>2, <1>3

(* A fold is refused over a document that was taken over by another, or    *)
(* that the old writer has saved since it was read.                        *)
LEMMA RefuseIInv ==
  ASSUME TakeoverIInv, NEW f \in Folders, Refuse(f)
  PROVE  TakeoverIInv'
<1> DEFINE r == row[fold[f].doc]
<1>1. /\ fold[f].pc = "loaded" /\ ~Accepts(f, r) /\ UNCHANGED <<row, lastBy, old, states, upsets>>
  BY DEF Refuse
<1>2. fold[f].doc \in TakenDocs /\ upsets \in Nat
  BY <1>1 DEF TakeoverIInv, HaltsHaveReasons, TakeoverTypeOK
<1>3. ReadHolds(f, fold[f].doc)  BY <1>2 DEF TakeoverIInv
<1>4. CASE Conflicts(f)  BY <1>1, <1>2, <1>4, RestsOrHalts
<1>5. CASE Noticed(r) /\ Halts(f, "noticed")
  <2>1. r.checkpoint > 1
    BY <1>2, <1>5 DEF Noticed, TakeoverIInv, TakeoverTypeOK, RowsAreMarked
  <2> QED  BY <1>1, <1>2, <1>5, <2>1, RestsOrHalts
<1>6. CASE /\ ~Noticed(r) /\ (Unannounced(f, r) \/ ~Outrun(f, r))
           /\ Halts(f, "changed")
  <2>1. CASE Unannounced(f, r)
    <3>1. fold[f].rev = 0 /\ r.rev = 0 /\ fold[f].original # Original(r)
      BY <2>1 DEF Unannounced, Original
    <3>2. r.checkpoint > 1  BY <1>1, <1>3, <3>1 DEF ReadHolds
    <3> QED  BY <1>1, <1>2, <1>6, <3>2, RestsOrHalts
  <2>2. CASE ~Unannounced(f, r)
    <3>1. Changed(f, r) /\ ~Outrun(f, r)  BY <1>1, <1>6, <2>2 DEF Accepts
    <3>2. fold[f].rev = 0 /\ r.rev = 0 /\ fold[f].original # Original(r)
      BY <1>1, <1>3, <3>1 DEF Changed, Outrun, ReadHolds
    <3>3. r.checkpoint > 1  BY <1>1, <1>3, <3>2 DEF ReadHolds
    <3> QED  BY <1>1, <1>2, <1>6, <3>3, RestsOrHalts
  <2> QED  BY <2>1, <2>2
<1> QED
  <2>1. \/ Noticed(r) /\ Halts(f, "noticed")
        \/ ~Noticed(r) /\ Unannounced(f, r) /\ Halts(f, "changed")
        \/ ~Noticed(r) /\ ~Unannounced(f, r) /\ Outrun(f, r) /\ Conflicts(f)
        \/ ~Noticed(r) /\ ~Unannounced(f, r) /\ ~Outrun(f, r) /\ Halts(f, "changed")
    BY DEF Refuse
  <2> QED  BY <1>4, <1>5, <1>6, <2>1

(* An accepted fold replaces what it has read, with a revision of its own. *)
LEMMA StoresIInv ==
  ASSUME TakeoverIInv, NEW f \in Folders, NEW stamp \in Times, fold[f].pc = "loaded",
         Accepts(f, row[fold[f].doc]), Stores(f, stamp), UNCHANGED old,
         upsets' \in Nat, upsets' >= upsets,
         \/ Conflicts(f)
         \/ upsets' > 0 /\ Halts(f, "inspect")
  PROVE  TakeoverIInv'
<1> DEFINE d == fold[f].doc
           new == Replaced(f, row[d], stamp)
<1>1. d \in TakenDocs /\ row \in [TakenDocs -> Row] /\ states \in Nat /\ row[d] \in Row
  BY DEF TakeoverIInv, HaltsHaveReasons, TakeoverTypeOK
<1>2. row' = [row EXCEPT ![d] = new] /\ lastBy' = [lastBy EXCEPT ![d] = "new"]
      /\ states' = states + 1
  BY DEF Stores
<1>3. /\ new.rev = row[d].rev + 1 /\ new.state = states + 1 /\ new.stamp = stamp
      /\ new.checkpoint = row[d].checkpoint
      /\ new.observed = {} \/ new.observed = {[stamp |-> stamp, checkpoint |-> row[d].checkpoint]}
  BY <1>1 DEF Replaced, Observed, Row
<1>4. new \in Row
  <2>1. [stamp |-> stamp, checkpoint |-> row[d].checkpoint] \in Seen
    BY <1>1 DEF Seen, Stamps, Row
  <2>2. new.observed \in SUBSET Seen /\ stamp \in Stamps  BY <1>3, <2>1 DEF Stamps
  <2>3. PICK o : o = IF fold[f].original # {} \/ row[d].observed # {}
                     THEN Observed([row[d] EXCEPT !.stamp = stamp]) ELSE {}
    OBVIOUS
  <2>4. new = [row[d] EXCEPT !.rev = row[d].rev + 1, !.state = states + 1, !.stamp = stamp,
                             !.observed = o]
    BY <2>3 DEF Replaced
  <2>5. row[d].rev + 1 \in Nat /\ states + 1 \in Nat  BY <1>1 DEF Row
  <2>6. new.observed = o  BY <1>1, <2>4 DEF Row
  <2> HIDE DEF new
  <2> QED  BY <1>1, <2>2, <2>4, <2>5, <2>6, RowReplaced
<1>5. \A x \in TakenDocs : /\ row'[x] = IF x = d THEN new ELSE row[x]
                           /\ lastBy'[x] = IF x = d THEN "new" ELSE lastBy[x]
  BY <1>1, <1>2 DEF TakeoverIInv, TakeoverTypeOK
<1>6. PICK e \in Fold : /\ fold' = [fold EXCEPT ![f] = e]
                        /\ e.pc = "idle" \/ (e.pc = "inspect" /\ e.doc = d /\ upsets' > 0)
  <2>1. Resting \in Fold /\ [Resting EXCEPT !.pc = "inspect", !.doc = d] \in Fold
    BY <1>1 DEF Resting, Fold
  <2>2. Resting.pc = "idle"  BY DEF Resting
  <2>3. /\ [Resting EXCEPT !.pc = "inspect", !.doc = d].pc = "inspect"
        /\ [Resting EXCEPT !.pc = "inspect", !.doc = d].doc = d
    BY DEF Resting
  <2> QED  BY <2>1, <2>2, <2>3 DEF Conflicts, Halts
<1>7. \A g \in Folders : fold'[g] = IF g = f THEN e ELSE fold[g]
  BY <1>6 DEF TakeoverIInv, TakeoverTypeOK
<1>8. TakeoverTypeOK'
  BY <1>1, <1>2, <1>4, <1>6 DEF TakeoverIInv, TakeoverTypeOK
<1>9. RowsAreMarked'
  <2>1. ASSUME NEW x \in TakenDocs
        PROVE  /\ row'[x].checkpoint <= old'.checkpoint
               /\ \A o \in row'[x].observed : o.checkpoint <= old'.checkpoint
               /\ row'[x].observed # {} /\ lastBy'[x] = "new" =>
                    row'[x].observed = Observed(row'[x])
               /\ row'[x].observed # {} /\ lastBy'[x] = "old" =>
                    row'[x].observed # Observed(row'[x]) /\ row'[x].checkpoint > 1
    <3>1. CASE x # d
      <4>1. row'[x] = row[x] /\ lastBy'[x] = lastBy[x] /\ old' = old  BY <1>5, <3>1
      <4> QED  BY <4>1 DEF TakeoverIInv, RowsAreMarked
    <3>2. CASE x = d
      <4>1. row[d].checkpoint <= old.checkpoint  BY <1>1 DEF TakeoverIInv, RowsAreMarked
      <4>2. row'[x] = new /\ lastBy'[x] = "new"  BY <1>5, <3>2
      <4>3. new.observed # {} => new.observed = Observed(new)  BY <1>3 DEF Observed
      <4>4. \A o \in new.observed : o.checkpoint = row[d].checkpoint  BY <1>3
      <4> QED  BY <1>3, <4>1, <4>2, <4>3, <4>4
    <3> QED  BY <3>1, <3>2
  <2> QED  BY <2>1 DEF TakeoverIInv, RowsAreMarked
<1>10. \A x \in TakenDocs : row'[x].checkpoint = row[x].checkpoint  BY <1>3, <1>5
<1>11. ASSUME NEW g \in Folders  PROVE HaltsHaveReasons(g)'
  <2>1. upsets \in Nat  BY DEF TakeoverIInv, TakeoverTypeOK
  <2>2. CASE g = f  BY <1>1, <1>6, <1>7, <2>2 DEF HaltsHaveReasons
  <2>3. CASE g # f
    <3>1. fold'[g] = fold[g]  BY <1>7, <2>3
    <3> QED  BY <1>10, <2>1, <3>1 DEF TakeoverIInv, HaltsHaveReasons
  <2> QED  BY <2>2, <2>3
<1>12. ASSUME NEW g \in Folders, NEW x \in TakenDocs  PROVE ReadHolds(g, x)'
  <2>1. CASE g = f  BY <1>6, <1>7, <2>1 DEF ReadHolds
  <2>2. CASE g # f
    <3>1. fold'[g] = fold[g] /\ ReadHolds(g, x) /\ fold[g] \in Fold
      BY <1>7, <2>2 DEF TakeoverIInv, TakeoverTypeOK
    <3>2. CASE x # d
      <4>1. row'[x] = row[x] /\ lastBy'[x] = lastBy[x]  BY <1>5, <3>2
      <4> QED  BY <3>1, <4>1 DEF ReadHolds
    <3>3. CASE x = d
      <4>1. row'[x].rev = row[x].rev + 1 /\ row[x].rev \in Nat /\ fold[g].rev \in Nat
        BY <1>1, <1>3, <1>5, <3>1, <3>3 DEF Row, Fold
      <4> QED  BY <3>1, <4>1 DEF ReadHolds
    <3> QED  BY <3>2, <3>3
  <2> QED  BY <2>1, <2>2
<1> QED  BY <1>8, <1>9, <1>11, <1>12 DEF TakeoverIInv

LEMMA CommitIInv ==
  ASSUME TakeoverIInv, NEW f \in Folders, NEW stamp \in Times, Commit(f, stamp)
  PROVE  TakeoverIInv'
<1>1. upsets \in Nat /\ upsets' = upsets  BY DEF Commit, TakeoverIInv, TakeoverTypeOK
<1>2. Conflicts(f)  BY DEF Commit, Conflicts
<1> QED  BY <1>1, <1>2, StoresIInv DEF Commit

LEMMA CommitThrowsIInv ==
  ASSUME TakeoverIInv, NEW f \in Folders, CommitThrows(f)
  PROVE  TakeoverIInv'
<1>1. /\ upsets \in Nat /\ upsets' = upsets + 1 /\ fold[f].pc = "loaded" /\ UNCHANGED old
      /\ Conflicts(f) \/ Halts(f, "inspect")
  BY DEF CommitThrows, Throws, TakeoverIInv, TakeoverTypeOK
<1>2. upsets' \in Nat /\ upsets' >= upsets /\ upsets' > 0  BY <1>1
<1>3. CASE UNCHANGED <<row, lastBy, states>>  BY <1>1, <1>2, <1>3, RestsOrHalts
<1>4. ASSUME Accepts(f, row[fold[f].doc]), NEW stamp \in Times, Stores(f, stamp)
      PROVE  TakeoverIInv'
  BY <1>1, <1>2, <1>4, StoresIInv
<1> QED  BY <1>3, <1>4 DEF CommitThrows

LEMMA ResumeIInv ==
  ASSUME TakeoverIInv, NEW f \in Folders, Resume(f)
  PROVE  TakeoverIInv'
<1>1. upsets \in Nat /\ upsets' = upsets  BY DEF Resume, TakeoverIInv, TakeoverTypeOK
<1>2. Conflicts(f)  BY DEF Resume, Conflicts
<1> QED  BY <1>1, <1>2, RestsOrHalts DEF Resume

-----------------------------------------------------------------------------
(* The theorem.                                                            *)

LEMMA NextTakeoverIInv == TakeoverIInv /\ [TakeoverNext]_takeoverVars => TakeoverIInv'
<1> SUFFICES ASSUME TakeoverIInv, [TakeoverNext]_takeoverVars PROVE TakeoverIInv'  OBVIOUS
<1>1. CASE UNCHANGED takeoverVars
  BY ZenonT(60), <1>1 DEF takeoverVars, TakeoverIInv, TakeoverTypeOK, RowsAreMarked, HaltsHaveReasons,
     ReadHolds
<1>2. CASE TakeoverNext
  BY <1>2, OldLoadIInv, OldSaveIInv, LoadIInv, CommitIInv, RefuseIInv, CommitThrowsIInv,
     ResumeIInv DEF TakeoverNext
<1> QED  BY <1>1, <1>2

(* An old writer that goes on behind the takeover is noticed, no fold is   *)
(* accepted over a state it has not read, and no source is halted without  *)
(* a reason, whatever the clocks say                                       *)
(* (sourceCommitV2.ts:51-55, 99-106, 141-161, 251-274).                    *)
THEOREM TakeoverNoticesOldWrites == TakeoverSpec => []OldWritesAreNoticed
<1>1. TakeoverIInv => OldWritesAreNoticed
  <2> SUFFICES ASSUME TakeoverIInv PROVE OldWritesAreNoticed  OBVIOUS
  <2>1. \A d \in TakenDocs : row[d].observed # {} => (Noticed(row[d]) <=> lastBy[d] = "old")
    BY DEF TakeoverIInv, TakeoverTypeOK, RowsAreMarked, Noticed
  <2>2. ASSUME NEW f \in Folders, fold[f].pc = "loaded", Accepts(f, row[fold[f].doc]),
               row[fold[f].doc].observed # {} \/ Original(row[fold[f].doc]) # {}
        PROVE  fold[f].state = row[fold[f].doc].state
    <3> DEFINE d == fold[f].doc
    <3>1. d \in TakenDocs /\ ReadHolds(f, d)
      BY <2>2 DEF TakeoverIInv, HaltsHaveReasons
    <3>2. ~Noticed(row[d]) /\ fold[f].rev = row[d].rev
      BY <2>2 DEF Accepts, Outrun
    <3>3. CASE row[d].observed # {}
      <4>1. lastBy[d] = "new"  BY <2>1, <3>1, <3>2, <3>3 DEF TakeoverIInv, TakeoverTypeOK
      <4> QED  BY <2>2, <3>1, <3>2, <3>3, <4>1 DEF ReadHolds
    <3>4. CASE Original(row[d]) # {}
      <4>1. row[d].rev = 0 /\ \E o \in Original(row[d]) : o.state = row[d].state
        BY <3>4 DEF Original
      <4>2. fold[f].original = Original(row[d])
        BY <2>2, <3>2, <3>4, <4>1 DEF Accepts, Unannounced, Changed
      <4> QED  BY <2>2, <3>1, <4>1, <4>2 DEF ReadHolds
    <3> QED  BY <2>2, <3>3, <3>4
  <2>3. \A f \in Folders :
          /\ fold[f].pc \in {"noticed", "changed"} => row[fold[f].doc].checkpoint > 1
          /\ fold[f].pc = "inspect" => upsets > 0
    BY DEF TakeoverIInv, HaltsHaveReasons
  <2> QED  BY <2>1, <2>2, <2>3 DEF OldWritesAreNoticed
<1> QED  BY <1>1, InitTakeoverIInv, NextTakeoverIInv, PTL DEF TakeoverSpec
-----------------------------------------------------------------------------
(* RangePaging: the inductive invariant.                                   *)

Page == [rows : Seq(Nat), bytes : Nat]
Pass == [phase : {"idle", "open", "reading", "dispatching"} \cup PassEnded,
         from : Nat, after : Nat, through : Nat, pages : Nat, page : Page, todo : Seq(Nat)]

PagingTypeOK ==
  /\ reader \in {"mongo", "indexed"}
  /\ history \in Seq(Nat)
  /\ present \in SUBSET (1..Len(history))
  /\ anchor \in Nat
  /\ pass \in Pass

\* The row at a position can be dispatched.
Fits(i) == Decodes(i) /\ history[i] <= MaxBytes

\* Positions in their order from the one after a sequence.
From(after, got) == \A k \in 1..Len(got) : got[k] = after + k

Missed(c) == \E i \in (c.after + 1)..c.through : i <= c.after + MaxCommits + 1 /\ ~Decodes(i)

\* A page under way holds the next rows, and what is dispatched is a page.
PassHolds(c) ==
  /\ anchor <= c.after /\ c.from <= c.after /\ c.through <= Len(history)
  /\ \A i \in (anchor + 1)..c.after : Fits(i)
  /\ c.phase = "idle" => c.after = c.from /\ c.pages = 0
  /\ c.phase \in {"open", "reading"} => c.after >= c.from + c.pages /\ c.after <= c.through
  /\ c.phase = "reading" =>
       /\ c.after < c.through /\ c.after + Len(c.page.rows) <= c.through
       /\ (Len(c.page.rows) = 0 => c.page.bytes = 0)
       /\ From(c.after, c.page.rows) /\ (reader = "indexed" => c.page = NoPage)
       /\ \A k \in 1..Len(c.page.rows) : Fits(c.after + k)
  /\ c.phase \in {"reading", "dispatching"} => Len(c.page.rows) <= MaxCommits /\ c.page.bytes <= MaxBytes
  /\ c.phase = "dispatching" =>
       /\ c.after + Len(c.todo) <= c.through /\ c.after + Len(c.todo) >= c.from + c.pages + 1
       /\ From(c.after, c.todo) /\ \A k \in 1..Len(c.todo) : Fits(c.after + k)
  /\ c.phase = "unavailable" => Missed(c)
  /\ c.phase = "oversized" => c.after + 1 <= c.through /\ history[c.after + 1] > MaxBytes
  /\ c.phase # "stalled"
  /\ c.phase = "continuation" => c.after >= c.from + MaxPages

PagingIInv == PagingTypeOK /\ PassHolds(pass)

-----------------------------------------------------------------------------
(* Naturals by induction, and the greatest of the first ones.  The least   *)
(* member of a set of naturals stands for induction over them.             *)

LEMMA LeastNatural ==
  ASSUME NEW T \in SUBSET Nat, T # {}
  PROVE  \E x \in T : \A y \in T : x <= y
<1>1. \E x \in T : \A y \in T : ~ (<<y, x>> \in OpToRel(<, Nat))
  BY NatLessThanWellFounded, WFMin
<1>2. ASSUME NEW x \in T, NEW y \in T, ~ (<<y, x>> \in OpToRel(<, Nat)) PROVE x <= y
  <2>1. x \in Nat /\ y \in Nat
    OBVIOUS
  <2>2. ~ (y < x)
    BY <1>2, <2>1 DEF OpToRel
  <2> QED
    BY <2>1, <2>2
<1> QED
  BY <1>1, <1>2

(* A set of naturals that holds 0 and, up to n, the successors of its        *)
(* members, holds all of them up to n.                                       *)
LEMMA UpTo ==
  ASSUME NEW n \in Nat, NEW T, 0 \in T, \A k \in Nat : k < n /\ k \in T => k + 1 \in T
  PROVE  \A k \in 0..n : k \in T
<1> DEFINE missing == {k \in 0..n : k \notin T}
<1>1. SUFFICES ASSUME missing # {} PROVE FALSE
  OBVIOUS
<1>2. PICK k \in missing : \A j \in missing : k <= j
  <2>1. missing \in SUBSET Nat
    OBVIOUS
  <2> HIDE DEF missing
  <2> QED
    BY <1>1, <2>1, LeastNatural
<1>3. k \in Nat /\ k # 0 /\ k <= n /\ k \notin T
  OBVIOUS
<1>4. k - 1 \in Nat /\ k - 1 < n /\ k - 1 \in 0..n /\ ~ (k <= k - 1) /\ (k - 1) + 1 = k
  BY <1>3
<1>5. k - 1 \in T
  BY <1>2, <1>4
<1> QED
  BY <1>3, <1>4, <1>5

LEMMA MaxOfPrefix ==
  ASSUME NEW m \in Nat, NEW x \in SUBSET (1..(m + 1)), m + 1 \in x
  PROVE  Max(x) = m + 1 /\ x \ {m + 1} \in SUBSET (1..m)
<1>1. \A y \in x : y \in Nat /\ y <= m + 1
  OBVIOUS
<1>2. \A y \in x : (\A z \in x : y >= z) => y = m + 1
  BY <1>1
<1>3. \A z \in x : m + 1 >= z
  BY <1>1
<1>4. Max(x) = m + 1
  BY <1>2, <1>3 DEF Max
<1> QED
  BY <1>1, <1>4

LEMMA NextIndex ==
  ASSUME NEW n \in Nat, NEW k \in Nat, k < n
  PROVE  k + 1 \in 1..n /\ (k + 1) - 1 = k /\ k + 1 \in 0..n
OBVIOUS

LEMMA NextTerm ==
  ASSUME NEW a \in Nat, NEW k \in Nat
  PROVE  a + (k + 1) = a + 1 + k
OBVIOUS

LEMMA BeforeLast ==
  ASSUME NEW m \in Nat, NEW j \in 1..(m + 1), j # m + 1
  PROVE  j \in 1..m
OBVIOUS

LEMMA MoreIsEnough ==
  ASSUME NEW a \in Nat, NEW b \in Nat, NEW w \in Nat, a <= b
  PROVE  a <= b + w
OBVIOUS

LEMMA Within ==
  ASSUME NEW a \in Nat, NEW n \in Nat, NEW l \in Nat, NEW limit \in Nat, NEW k \in 1..l,
         l <= limit + 1, a + l <= n
  PROVE  a + k \in (a + 1)..n /\ a + k <= a + limit + 1
OBVIOUS

-----------------------------------------------------------------------------
(* The rows of the query, position by position.                            *)

QueriedTrace(it, rest, base, n) ==
  /\ it[0] = base
  /\ \A k \in 1..n : it[k] = IF k \in rest /\ Len(it[k - 1]) <= MaxCommits THEN Append(it[k - 1], k) ELSE it[k - 1]
  /\ Queried = it[n]

LEMMA QueriedFold ==
  ASSUME pass.through \in Nat
  PROVE  \E it : QueriedTrace(it, Remaining, <<>>, pass.through)
<1> DEFINE base == <<>>
           rest == Remaining
           n == pass.through
           q == [i \in 1..n |-> i]
           Turn(r, k) == IF q[k] \in rest /\ Len(r) <= MaxCommits THEN Append(r, q[k]) ELSE r
           Unfolds(f, m) == f = [x \in SUBSET (1..m) |->
                                 IF x = {} THEN base ELSE Turn(f[x \ {Max(x)}], Max(x))]
           T == {m \in Nat : \E f : Unfolds(f, m)}
<1>1. 0 \in T
  <2>1. Unfolds([x \in SUBSET (1..0) |-> base], 0)
    OBVIOUS
  <2> QED
    BY <2>1
<1>2. ASSUME NEW m \in Nat, m \in T PROVE m + 1 \in T
  <2>1. PICK f : Unfolds(f, m)
    BY <1>2
  <2> HIDE DEF Turn
  <2>2. \A x \in SUBSET (1..m) : f[x] = IF x = {} THEN base ELSE Turn(f[x \ {Max(x)}], Max(x))
    BY <2>1
  <2> DEFINE g == [x \in SUBSET (1..(m + 1)) |->
                     IF m + 1 \in x THEN Turn(f[x \ {m + 1}], m + 1) ELSE f[x]]
  <2>3. ASSUME NEW x \in SUBSET (1..(m + 1))
        PROVE  g[x] = IF x = {} THEN base ELSE Turn(g[x \ {Max(x)}], Max(x))
    <3>1. CASE m + 1 \in x
      <4>1. Max(x) = m + 1 /\ x \ {m + 1} \in SUBSET (1..m) /\ m + 1 \notin x \ {m + 1}
        BY <3>1, MaxOfPrefix
      <4>2. x \ {m + 1} \in SUBSET (1..(m + 1))
        OBVIOUS
      <4> QED
        BY <3>1, <4>1, <4>2
    <3>2. CASE m + 1 \notin x
      <4>0. \A y \in 1..(m + 1) : y # m + 1 => y \in 1..m
        OBVIOUS
      <4>1. x \in SUBSET (1..m) /\ x \ {Max(x)} \in SUBSET (1..(m + 1)) /\ m + 1 \notin x \ {Max(x)}
        BY <3>2, <4>0
      <4> QED
        BY <3>2, <4>1, <2>2
    <3> QED
      BY <3>1, <3>2
  <2>4. Unfolds(g, m + 1)
    BY <2>3
  <2> HIDE DEF Unfolds, g
  <2>5. \E h : Unfolds(h, m + 1)
    BY <2>4
  <2> QED
    BY <2>5
<1> HIDE DEF T
<1>3. n \in T
  <2>1. \A k \in 0..n : k \in T
    BY <1>1, <1>2, UpTo
  <2> QED
    BY <2>1
<1> DEFINE f == CHOOSE f : Unfolds(f, n)
<1>4. Unfolds(f, n)
  BY <1>3 DEF T
<1>5. Queried = f[1..n]
  BY DEF Queried, FoldLeft, MapThenFoldSet
<1> HIDE DEF f, Turn
<1>6. \A x \in SUBSET (1..n) : f[x] = IF x = {} THEN base ELSE Turn(f[x \ {Max(x)}], Max(x))
  BY <1>4
<1> DEFINE it == [k \in 0..n |-> f[1..k]]
<1>7. it[0] = base
  <2>1. 1..0 = {} /\ 1..0 \in SUBSET (1..n)
    OBVIOUS
  <2>2. f[1..0] = base
    BY <2>1, <1>6
  <2> QED
    BY <2>2
<1>8. ASSUME NEW k \in 1..n PROVE it[k] = Turn(it[k - 1], k)
  <2>1. k - 1 \in Nat /\ (k - 1) + 1 = k
    OBVIOUS
  <2>2. 1..k \in SUBSET (1..((k - 1) + 1)) /\ (k - 1) + 1 \in 1..k
    BY <2>1
  <2>3. Max(1..k) = k
    BY <2>1, <2>2, MaxOfPrefix
  <2>4. (1..k) \ {k} = 1..(k - 1) /\ 1..k \in SUBSET (1..n) /\ 1..k # {} /\ k - 1 \in 0..n
    <3>1. k \in Nat /\ k <= n /\ 1 <= k
      BY <2>1
    <3>2. (1..k) \ {k} = 1..(k - 1) /\ k \in 1..k
      BY <3>1
    <3>3. \A j \in 1..k : j \in 1..n
      BY <3>1
    <3>4. k - 1 \in 0..n
      BY <3>1
    <3> QED
      BY <3>2, <3>3, <3>4
  <2>5. f[1..k] = Turn(f[1..(k - 1)], k)
    BY <2>3, <2>4, <1>6
  <2>6. it[k] = f[1..k] /\ it[k - 1] = f[1..(k - 1)]
    BY <2>4
  <2> QED
    BY <2>5, <2>6
<1>9. it[n] = f[1..n]
  OBVIOUS
<1> HIDE DEF it
<1>10. \A k \in 1..n : it[k] = IF k \in rest /\ Len(it[k - 1]) <= MaxCommits
                               THEN Append(it[k - 1], k) ELSE it[k - 1]
  BY <1>8 DEF Turn
<1>11. Queried = it[n]
  BY <1>5, <1>9
<1> QED
  BY <1>7, <1>10, <1>11 DEF QueriedTrace

-----------------------------------------------------------------------------
(* The page of a query, row by row.                                        *)

Bounds(page, i) == IF page.full \/ Full(page, i)
                   THEN [page EXCEPT !.full = TRUE]
                   ELSE [full |-> FALSE, rows |-> Taken(page, i).rows, bytes |-> Taken(page, i).bytes]

BoundedTrace(it, got, base, n) ==
  /\ it[0] = base
  /\ \A k \in 1..n : it[k] = Bounds(it[k - 1], got[k])
  /\ Bounded(got) = it[n]

LEMMA BoundedFold ==
  ASSUME NEW got, NEW n \in Nat, DOMAIN got = 1..n,
         NEW base, base = [full |-> FALSE, rows |-> <<>>, bytes |-> 0]
  PROVE  \E it : BoundedTrace(it, got, base, n)
<1> DEFINE Turn(r, k) == Bounds(r, got[k])
           Unfolds(f, m) == f = [x \in SUBSET (1..m) |->
                                 IF x = {} THEN base ELSE Turn(f[x \ {Max(x)}], Max(x))]
           T == {m \in Nat : \E f : Unfolds(f, m)}
<1>1. 0 \in T
  <2>1. Unfolds([x \in SUBSET (1..0) |-> base], 0)
    OBVIOUS
  <2> QED
    BY <2>1
<1>2. ASSUME NEW m \in Nat, m \in T PROVE m + 1 \in T
  <2>1. PICK f : Unfolds(f, m)
    BY <1>2
  <2> HIDE DEF Turn
  <2>2. \A x \in SUBSET (1..m) : f[x] = IF x = {} THEN base ELSE Turn(f[x \ {Max(x)}], Max(x))
    BY <2>1
  <2> DEFINE g == [x \in SUBSET (1..(m + 1)) |->
                     IF m + 1 \in x THEN Turn(f[x \ {m + 1}], m + 1) ELSE f[x]]
  <2>3. ASSUME NEW x \in SUBSET (1..(m + 1))
        PROVE  g[x] = IF x = {} THEN base ELSE Turn(g[x \ {Max(x)}], Max(x))
    <3>1. CASE m + 1 \in x
      <4>1. Max(x) = m + 1 /\ x \ {m + 1} \in SUBSET (1..m) /\ m + 1 \notin x \ {m + 1}
        BY <3>1, MaxOfPrefix
      <4>2. x \ {m + 1} \in SUBSET (1..(m + 1))
        OBVIOUS
      <4> QED
        BY <3>1, <4>1, <4>2
    <3>2. CASE m + 1 \notin x
      <4>0. \A y \in 1..(m + 1) : y # m + 1 => y \in 1..m
        OBVIOUS
      <4>1. x \in SUBSET (1..m) /\ x \ {Max(x)} \in SUBSET (1..(m + 1)) /\ m + 1 \notin x \ {Max(x)}
        BY <3>2, <4>0
      <4> QED
        BY <3>2, <4>1, <2>2
    <3> QED
      BY <3>1, <3>2
  <2>4. Unfolds(g, m + 1)
    BY <2>3
  <2> HIDE DEF Unfolds, g
  <2>5. \E h : Unfolds(h, m + 1)
    BY <2>4
  <2> QED
    BY <2>5
<1> HIDE DEF T
<1>3. n \in T
  <2>1. \A k \in 0..n : k \in T
    BY <1>1, <1>2, UpTo
  <2> QED
    BY <2>1
<1> DEFINE f == CHOOSE f : Unfolds(f, n)
<1>4. Unfolds(f, n)
  BY <1>3 DEF T
<1>5. Bounded(got) = f[1..n]
  BY DEF Bounded, FoldLeft, MapThenFoldSet, Bounds
<1> HIDE DEF f, Turn
<1>6. \A x \in SUBSET (1..n) : f[x] = IF x = {} THEN base ELSE Turn(f[x \ {Max(x)}], Max(x))
  BY <1>4
<1> DEFINE it == [k \in 0..n |-> f[1..k]]
<1>7. it[0] = base
  <2>1. 1..0 = {} /\ 1..0 \in SUBSET (1..n)
    OBVIOUS
  <2>2. f[1..0] = base
    BY <2>1, <1>6
  <2> QED
    BY <2>2
<1>8. ASSUME NEW k \in 1..n PROVE it[k] = Turn(it[k - 1], k)
  <2>1. k - 1 \in Nat /\ (k - 1) + 1 = k
    OBVIOUS
  <2>2. 1..k \in SUBSET (1..((k - 1) + 1)) /\ (k - 1) + 1 \in 1..k
    BY <2>1
  <2>3. Max(1..k) = k
    BY <2>1, <2>2, MaxOfPrefix
  <2>4. (1..k) \ {k} = 1..(k - 1) /\ 1..k \in SUBSET (1..n) /\ 1..k # {} /\ k - 1 \in 0..n
    <3>1. k \in Nat /\ k <= n /\ 1 <= k
      BY <2>1
    <3>2. (1..k) \ {k} = 1..(k - 1) /\ k \in 1..k
      BY <3>1
    <3>3. \A j \in 1..k : j \in 1..n
      BY <3>1
    <3>4. k - 1 \in 0..n
      BY <3>1
    <3> QED
      BY <3>2, <3>3, <3>4
  <2>5. f[1..k] = Turn(f[1..(k - 1)], k)
    BY <2>3, <2>4, <1>6
  <2>6. it[k] = f[1..k] /\ it[k - 1] = f[1..(k - 1)]
    BY <2>4
  <2> QED
    BY <2>5, <2>6
<1>9. it[n] = f[1..n]
  OBVIOUS
<1> HIDE DEF it
<1>10. \A k \in 1..n : it[k] = Bounds(it[k - 1], got[k])
  BY <1>8 DEF Turn
<1>11. Bounded(got) = it[n]
  BY <1>5, <1>9
<1> QED
  BY <1>7, <1>10, <1>11 DEF BoundedTrace

LEMMA QueriedRows ==
  ASSUME pass.through \in Nat
  PROVE  Queried \in Seq(Nat)
<1> DEFINE n == pass.through
           rest == Remaining
<1>1. PICK it : QueriedTrace(it, rest, <<>>, n)
  BY QueriedFold
<1>2. /\ it[0] = <<>> /\ Queried = it[n]
      /\ \A k \in 1..n : it[k] = IF k \in rest /\ Len(it[k - 1]) <= MaxCommits
                                 THEN Append(it[k - 1], k) ELSE it[k - 1]
  BY <1>1 DEF QueriedTrace
<1>3. n \in Nat
  OBVIOUS
<1> HIDE DEF n, rest
<1> DEFINE T == {k \in 0..n : it[k] \in Seq(Nat)}
<1>4. 0 \in T
  <2>1. it[0] \in Seq(Nat)
    BY <1>2
  <2> QED
    BY <1>3, <2>1
<1>5. ASSUME NEW k \in Nat, k < n, k \in T PROVE k + 1 \in T
  <2>0. k < n
    BY <1>5
  <2>1. k + 1 \in 1..n /\ (k + 1) - 1 = k /\ k + 1 \in 0..n
    BY <1>3, <2>0, NextIndex
  <2>2. PICK before : before = it[k]
    OBVIOUS
  <2>3. before \in Seq(Nat)
    BY <1>5, <2>2
  <2>4. it[k + 1] = Append(before, k + 1) \/ it[k + 1] = before
    BY <1>2, <2>1, <2>2
  <2>5. Append(before, k + 1) \in Seq(Nat)
    <3>1. k + 1 \in Nat
      OBVIOUS
    <3> QED
      BY <2>3, <3>1, AppendProperties
  <2>6. it[k + 1] \in Seq(Nat)
    BY <2>3, <2>4, <2>5
  <2> QED
    BY <2>1, <2>6
<1> HIDE DEF T
<1>6. n \in T
  <2>1. \A k \in 0..n : k \in T
    BY <1>3, <1>4, <1>5, UpTo
  <2> QED
    BY <1>3, <2>1
<1> QED
  BY <1>2, <1>6 DEF T

(* Where no row of the query's window is missing, the query returns the      *)
(* positions behind the cursor one after another, as many as it may.         *)
LEMMA QueriedInOrder ==
  ASSUME pass.through \in Nat, MaxCommits \in Nat, NEW a \in Nat, a < pass.through,
         \A i \in Nat : i \in Remaining => a < i,
         \A i \in (a + 1)..pass.through : i <= a + MaxCommits + 1 => i \in Remaining
  PROVE  /\ Queried \in Seq(Nat) /\ From(a, Queried) /\ Len(Queried) <= MaxCommits + 1
         /\ a + Len(Queried) <= pass.through
         /\ Len(Queried) = MaxCommits + 1 \/ a + Len(Queried) = pass.through
<1> DEFINE n == pass.through
           rest == Remaining
<1>1. PICK it : QueriedTrace(it, rest, <<>>, n)
  BY QueriedFold
<1>2. /\ it[0] = <<>> /\ Queried = it[n]
      /\ \A k \in 1..n : it[k] = IF k \in rest /\ Len(it[k - 1]) <= MaxCommits
                                 THEN Append(it[k - 1], k) ELSE it[k - 1]
  BY <1>1 DEF QueriedTrace
<1>3. n \in Nat /\ a < n
  OBVIOUS
<1> HIDE DEF n, rest
<1> DEFINE Good(k) == /\ it[k] \in Seq(Nat) /\ Len(it[k]) <= MaxCommits + 1
                      /\ \A j \in 1..Len(it[k]) : it[k][j] = a + j
                      /\ k <= a => Len(it[k]) = 0
                      /\ k > a => a + Len(it[k]) <= k
                      /\ k > a => Len(it[k]) = MaxCommits + 1 \/ a + Len(it[k]) = k
           T == {k \in 0..n : Good(k)}
<1>4. 0 \in T
  <2>1. Good(0)
    BY <1>2
  <2> QED
    BY <1>3, <2>1
<1>5. ASSUME NEW k \in Nat, k < n, k \in T PROVE k + 1 \in T
  <2>0. k < n
    BY <1>5
  <2>1. k + 1 \in 1..n /\ (k + 1) - 1 = k /\ k + 1 \in 0..n
    BY <1>3, <2>0, NextIndex
  <2>2. Good(k)
    BY <1>5
  <2> DEFINE before == it[k]
             after == it[k + 1]
             m == Len(before)
  <2>3. after = IF k + 1 \in rest /\ m <= MaxCommits THEN Append(before, k + 1) ELSE before
    BY <1>2, <2>1
  <2>4. /\ m \in Nat /\ before \in Seq(Nat) /\ m <= MaxCommits + 1
        /\ \A j \in 1..m : before[j] = a + j
        /\ k <= a => m = 0
        /\ k > a => a + m <= k
        /\ k > a => m = MaxCommits + 1 \/ a + m = k
    BY <2>2
  <2> HIDE DEF before, after, m
  <2>5. k + 1 \in rest => a <= k
    BY DEF rest
  <2>6. a <= k /\ m <= MaxCommits => k + 1 \in rest
    <3>1. SUFFICES ASSUME a <= k, m <= MaxCommits PROVE k + 1 <= a + MaxCommits + 1 /\ k + 1 \in (a + 1)..n
      BY DEF rest, n
    <3>2. k + 1 \in (a + 1)..n
      BY <3>1, <1>5, <1>3
    <3>3. CASE k = a
      BY <3>1, <3>2, <3>3
    <3>4. CASE k # a
      <4>1. k > a
        BY <3>1, <3>4
      <4>2. a + m = k
        BY <2>4, <3>1, <4>1
      <4> QED
        BY <2>4, <3>1, <3>2, <4>2
    <3> QED
      BY <3>3, <3>4
  <2>7. CASE k + 1 \in rest /\ m <= MaxCommits
    <3>1. after = Append(before, k + 1) /\ a <= k
      BY <2>3, <2>5, <2>7
    <3>2. k > a => a + m = k
      BY <2>4, <2>7
    <3>3. k = a => m = 0
      BY <2>4
    <3>4. a + m = k
      BY <3>1, <3>2, <3>3, <2>4
    <3>5. /\ after \in Seq(Nat) /\ Len(after) = m + 1 /\ after[m + 1] = k + 1
          /\ \A j \in 1..m : after[j] = before[j]
      BY <2>4, <3>1 DEF m
    <3>6. ASSUME NEW j \in 1..(m + 1) PROVE after[j] = a + j
      <4>1. CASE j = m + 1
        <5>1. a + (m + 1) = k + 1
          BY <2>4, <3>4, <1>5
        <5> QED
          BY <4>1, <3>5, <5>1
      <4>2. CASE j # m + 1
        <5>1. j \in 1..m
          BY <2>4, <4>2
        <5> QED
          BY <5>1, <3>5, <2>4
      <4> QED
        BY <4>1, <4>2
    <3>7. Good(k + 1)
      BY <2>4, <2>7, <3>1, <3>4, <3>5, <3>6 DEF after
    <3> QED
      BY <2>1, <3>7
  <2>8. CASE ~(k + 1 \in rest /\ m <= MaxCommits)
    <3>1. after = before
      BY <2>3, <2>8
    <3>2. a <= k => m = MaxCommits + 1
      BY <2>4, <2>6, <2>8
    <3>3. k + 1 > a => a + m <= k + 1
      <4>1. CASE k > a
        BY <2>4, <4>1
      <4>2. CASE k = a
        BY <2>4, <4>2
      <4> QED
        BY <4>1, <4>2
    <3>4. Good(k + 1)
      <4>1. it[k + 1] = before
        BY <3>1 DEF after
      <4>2. k + 1 <= a => m = 0
        BY <2>4
      <4>3. k + 1 > a => m = MaxCommits + 1
        BY <3>2
      <4> QED
        BY <2>4, <3>3, <4>1, <4>2, <4>3 DEF m
    <3> QED
      BY <2>1, <3>4
  <2> QED
    BY <2>7, <2>8
<1> HIDE DEF T
<1>6. n \in T
  <2>1. \A k \in 0..n : k \in T
    BY <1>3, <1>4, <1>5, UpTo
  <2> QED
    BY <1>3, <2>1
<1>7. Good(n)
  BY <1>6 DEF T
<1> QED
  BY <1>2, <1>3, <1>7 DEF n, From

(* A page is the first rows of its query, within both limits, and holds the  *)
(* first row when that one fits.                                             *)
LEMMA BoundedIs ==
  ASSUME PagingAssumption, NEW got \in Seq(Nat), \A k \in 1..Len(got) : history[got[k]] \in Nat,
         NEW page, page = Bounded(got)
  PROVE  /\ page.rows \in Seq(Nat) /\ page.bytes \in Nat
         /\ Len(page.rows) <= Len(got)
         /\ \A k \in 1..Len(page.rows) : page.rows[k] = got[k] /\ history[got[k]] <= page.bytes
         /\ Len(page.rows) <= MaxCommits /\ page.bytes <= MaxBytes
         /\ Len(got) > 0 /\ history[got[1]] <= MaxBytes => Len(page.rows) > 0
<1> DEFINE n == Len(got)
<1>0. MaxCommits \in Nat /\ MaxCommits > 0 /\ MaxBytes \in Nat
  BY DEF PagingAssumption
<1>1. n \in Nat /\ DOMAIN got = 1..n /\ \A k \in 1..n : got[k] \in Nat /\ history[got[k]] \in Nat
  OBVIOUS
<1>2. PICK it : BoundedTrace(it, got, [full |-> FALSE, rows |-> <<>>, bytes |-> 0], n)
  BY <1>1, BoundedFold
<1>3. /\ it[0] = [full |-> FALSE, rows |-> <<>>, bytes |-> 0] /\ page = it[n]
      /\ \A k \in 1..n : it[k] = Bounds(it[k - 1], got[k])
  BY <1>2 DEF BoundedTrace
<1> HIDE DEF n
<1> DEFINE RowKept(p, k) == p.rows[k] = got[k] /\ history[got[k]] <= p.bytes
           Good(p, k) ==
             /\ p \in [full : BOOLEAN, rows : Seq(Nat), bytes : Nat]
             /\ Len(p.rows) <= k /\ (~p.full => Len(p.rows) = k)
             /\ \A j \in 1..Len(p.rows) : RowKept(p, j)
             /\ Len(p.rows) <= MaxCommits /\ p.bytes <= MaxBytes
             /\ k > 0 /\ history[got[1]] <= MaxBytes => Len(p.rows) > 0
             /\ k = 0 => ~p.full /\ p.bytes = 0
           T == {k \in 0..n : Good(it[k], k)}
<1>4. 0 \in T
  <2>1. Good(it[0], 0)
    BY <1>0, <1>3
  <2> QED
    BY <1>1, <2>1
<1>5. ASSUME NEW k \in Nat, k < n, k \in T PROVE k + 1 \in T
  <2>0. k < n /\ n \in Nat
    BY <1>1, <1>5
  <2>1. k + 1 \in 1..n /\ (k + 1) - 1 = k /\ k + 1 \in 0..n
    BY <2>0, NextIndex
  <2>2. PICK p : p = it[k]
    OBVIOUS
  <2>3. PICK t : t = it[k + 1]
    OBVIOUS
  <2>4. Good(p, k)
    BY <1>5, <2>2
  <2> DEFINE i == got[k + 1]
             w == history[i]
             m == Len(p.rows)
  <2>5. t = Bounds(p, i)
    BY <1>3, <2>1, <2>2, <2>3
  <2>6. i \in Nat /\ w \in Nat /\ m \in Nat /\ p.bytes \in Nat /\ p.rows \in Seq(Nat) /\ p.full \in BOOLEAN
    BY <1>1, <2>1, <2>4
  <2>7. CASE p.full \/ Full(p, i)
    <3>1. t = [p EXCEPT !.full = TRUE]
      BY <2>5, <2>7 DEF Bounds
    <3>2. /\ t \in [full : BOOLEAN, rows : Seq(Nat), bytes : Nat]
          /\ t.rows = p.rows /\ t.bytes = p.bytes /\ t.full
      BY <2>4, <3>1
    <3>3. history[got[1]] <= MaxBytes => m > 0
      <4>1. CASE k > 0
        BY <2>4, <4>1
      <4>2. CASE k = 0
        <5>1. m = 0 /\ ~p.full /\ p.bytes = 0
          BY <2>4, <2>6, <4>2
        <5>2. 0 >= MaxCommits \/ 0 + w > MaxBytes
          BY <2>7, <5>1 DEF Full
        <5>3. i = got[1] /\ w \in Nat
          BY <4>2, <2>6
        <5>4. w > MaxBytes
          <6> HIDE DEF w
          <6> QED
            BY <1>0, <5>2, <5>3
        <5> QED
          BY <1>0, <5>3, <5>4
      <4> QED
        BY <4>1, <4>2
    <3>4. Good(t, k + 1)
      <4>1. m <= k + 1
        BY <2>4, <2>6
      <4>2. \A j \in 1..m : RowKept(t, j)
        BY <2>4, <3>2
      <4> QED
        BY <2>4, <2>6, <3>2, <3>3, <4>1, <4>2
    <3> QED
      BY <2>1, <2>3, <3>4
  <2>8. CASE ~p.full /\ ~Full(p, i)
    <3>1. t = [full |-> FALSE, rows |-> Append(p.rows, i), bytes |-> p.bytes + w]
      BY <2>5, <2>8 DEF Bounds, Taken
    <3>2. m < MaxCommits /\ p.bytes + w <= MaxBytes
      <4>1. ~(m >= MaxCommits \/ p.bytes + w > MaxBytes)
        BY <2>8 DEF Full
      <4>2. w \in Nat /\ m \in Nat /\ p.bytes \in Nat
        BY <2>6
      <4> HIDE DEF w, m
      <4> QED
        BY <1>0, <4>1, <4>2
    <3>3. m = k
      BY <2>4, <2>8
    <3>4. /\ t.rows \in Seq(Nat) /\ Len(t.rows) = m + 1 /\ t.rows[m + 1] = i
          /\ \A j \in 1..m : t.rows[j] = p.rows[j]
      <4>1. t.rows = Append(p.rows, i)
        BY <3>1
      <4>2. i \in Nat /\ p.rows \in Seq(Nat)
        BY <2>6
      <4> HIDE DEF i
      <4> QED
        BY <4>1, <4>2
    <3>5. t.bytes = p.bytes + w /\ ~t.full /\ t.bytes \in Nat
      <4>1. t.bytes = p.bytes + w /\ ~t.full
        BY <3>1
      <4>2. w \in Nat /\ p.bytes \in Nat
        BY <2>6
      <4> HIDE DEF w
      <4> QED
        BY <4>1, <4>2
    <3>6. t \in [full : BOOLEAN, rows : Seq(Nat), bytes : Nat]
      BY <3>1, <3>4, <3>5
    <3>7. ASSUME NEW j \in 1..(m + 1) PROVE RowKept(t, j)
      <4>1. CASE j = m + 1
        <5>1. w <= p.bytes + w
          <6>1. w \in Nat /\ p.bytes \in Nat
            BY <2>6
          <6> HIDE DEF w
          <6> QED
            BY <6>1
        <5> QED
          BY <3>3, <3>4, <3>5, <4>1, <5>1
      <4>2. CASE j # m + 1
        <5>1. j \in 1..m
          <6>1. m \in Nat
            BY <2>6
          <6> HIDE DEF m
          <6> QED
            BY <4>2, <6>1, BeforeLast
        <5>2. p.rows[j] = got[j] /\ history[got[j]] <= p.bytes
          BY <2>4, <5>1
        <5>3. j \in 1..n
          BY <5>1, <3>3, <1>5, <1>1
        <5>4. history[got[j]] \in Nat
          BY <5>3, <1>1
        <5>5. history[got[j]] <= p.bytes + w
          <6> HIDE DEF w
          <6> QED
            BY <2>6, <5>2, <5>4, MoreIsEnough
        <5> QED
          BY <3>4, <3>5, <5>1, <5>2, <5>5
      <4> QED
        BY <4>1, <4>2
    <3>8. Good(t, k + 1)
      <4> HIDE DEF w, i, RowKept
      <4>1. Len(t.rows) = k + 1 /\ k + 1 <= MaxCommits /\ k + 1 > 0
        <5>1. m \in Nat /\ Len(t.rows) = m + 1
          BY <2>6, <3>4
        <5> HIDE DEF m
        <5> QED
          BY <1>0, <3>2, <3>3, <5>1
      <4>2. \A j \in 1..Len(t.rows) : RowKept(t, j)
        BY <3>3, <3>7, <4>1
      <4>3. t.bytes <= MaxBytes
        BY <3>2, <3>5
      <4> QED
        BY <3>5, <3>6, <4>1, <4>2, <4>3
    <3> QED
      BY <2>1, <2>3, <3>8
  <2> QED
    BY <2>7, <2>8
<1> HIDE DEF T
<1>6. n \in T
  <2>1. \A k \in 0..n : k \in T
    BY <1>1, <1>4, <1>5, UpTo
  <2> QED
    BY <1>1, <2>1
<1>7. Good(page, n)
  BY <1>3, <1>6 DEF T
<1> QED
  BY <1>1, <1>7 DEF n

-----------------------------------------------------------------------------
(* A step leaves the pass in one of these ways.                            *)

LEMMA PassMoves ==
  ASSUME PagingTypeOK, UNCHANGED <<reader, history, present, anchor>>,
         NEW d \in Pass, pass' = d, PassHolds(d)
  PROVE  PagingIInv'
<1>1. PagingTypeOK'
  BY DEF PagingTypeOK
<1>2. (PassHolds(pass))'
  BY DEF PassHolds, From, Fits, Decodes, Missed
<1> QED
  BY <1>1, <1>2 DEF PagingIInv

LEMMA Ended ==
  ASSUME PagingIInv, UNCHANGED <<reader, history, present, anchor>>,
         NEW result \in PassEnded, Ends(result), result # "stalled",
         result = "unavailable" => Missed(pass),
         result = "oversized" => pass.after + 1 <= pass.through /\ history[pass.after + 1] > MaxBytes,
         result = "continuation" => pass.after >= pass.from + MaxPages
  PROVE  PagingIInv'
<1>1. PICK c : c = pass
  OBVIOUS
<1>2. PICK d : d = pass'
  OBVIOUS
<1>3. c \in Pass /\ PassHolds(c) /\ PagingTypeOK
  BY <1>1 DEF PagingIInv, PagingTypeOK
<1>4. d = [c EXCEPT !.phase = result, !.page = NoPage, !.todo = <<>>]
  BY <1>1, <1>2 DEF Ends
<1>5. NoPage \in Page /\ <<>> \in Seq(Nat)
  BY DEF NoPage, Page
<1>6. d \in Pass
  BY <1>3, <1>4, <1>5 DEF Pass
<1>7. /\ d.phase = result /\ d.after = c.after /\ d.from = c.from /\ d.through = c.through
      /\ d.phase \notin {"idle", "open", "reading", "dispatching"}
  BY <1>3, <1>4 DEF Pass, PassEnded
<1>8. Missed(c) => Missed(d)
  BY <1>7 DEF Missed
<1>9. PassHolds(d)
  BY <1>1, <1>3, <1>7, <1>8 DEF PassHolds
<1> QED
  BY <1>2, <1>3, <1>6, <1>9, PassMoves

LEMMA SourceCommitsIInv ==
  ASSUME PagingAssumption, PagingIInv, NEW size \in Sizes, SourceCommits(size)
  PROVE  PagingIInv'
<1>1. PICK c : c = pass
  OBVIOUS
<1>2. c \in Pass /\ PassHolds(c) /\ pass' = c
  BY <1>1 DEF PagingIInv, PagingTypeOK, SourceCommits
<1> DEFINE n == Len(history)
<1>3. /\ history \in Seq(Nat) /\ n \in Nat /\ size \in Nat /\ size # 0
      /\ present \in SUBSET (1..n) /\ reader \in {"mongo", "indexed"} /\ anchor \in Nat
  BY DEF PagingIInv, PagingTypeOK, PagingAssumption
<1>4. /\ history' \in Seq(Nat) /\ Len(history') = n + 1
      /\ \A i \in 1..n : history'[i] = history[i]
  BY <1>3 DEF SourceCommits
<1>5. present' = present \cup {n + 1} /\ reader' = reader /\ anchor' = anchor
  BY DEF SourceCommits
<1> HIDE DEF n
<1>6. n + 1 \in 1..(n + 1) /\ \A i \in 1..n : i \in 1..(n + 1) /\ i # n + 1
  BY <1>3
<1>7. PagingTypeOK'
  <2>1. present' \in SUBSET (1..(n + 1))
    BY <1>3, <1>5, <1>6
  <2> QED
    BY <1>2, <1>3, <1>4, <1>5, <2>1 DEF PagingTypeOK
<1>8. \A i \in 1..n : (Decodes(i)' <=> Decodes(i)) /\ (Fits(i)' <=> Fits(i))
  BY <1>4, <1>5, <1>6 DEF Decodes, Fits
<1>9. /\ c.after \in Nat /\ c.through \in Nat /\ c.through <= n /\ anchor <= c.after /\ c.from \in Nat
      /\ c.page \in Page /\ c.todo \in Seq(Nat) /\ c.pages \in Nat
  BY <1>2 DEF PassHolds, Pass, n
<1>10. /\ \A i \in Nat : Fits(i) => i \in 1..n
       /\ \A i \in Nat : Fits(i) => Fits(i)'
  BY <1>3, <1>8 DEF Fits, Decodes
<1>11. Missed(c) => Missed(c)'
  <2>1. \A i \in (c.after + 1)..c.through : i \in 1..n
    <3>1. c.after \in Nat /\ c.through \in Nat /\ c.through <= n /\ n \in Nat
      BY <1>3, <1>9
    <3> QED
      BY <3>1
  <2> QED
    BY <1>8, <2>1 DEF Missed
<1>12. c.phase = "oversized" => c.after + 1 <= c.through /\ history'[c.after + 1] > MaxBytes
  <2>1. SUFFICES ASSUME c.phase = "oversized" PROVE c.after + 1 <= c.through /\ history'[c.after + 1] > MaxBytes
    OBVIOUS
  <2>2. c.after + 1 <= c.through /\ history[c.after + 1] > MaxBytes
    BY <1>2, <2>1 DEF PassHolds
  <2>3. c.after + 1 \in 1..n
    <3>1. c.after \in Nat /\ c.through \in Nat /\ c.through <= n /\ n \in Nat
      BY <1>3, <1>9
    <3> QED
      BY <2>2, <3>1
  <2> QED
    BY <1>4, <2>2, <2>3
<1>13. \A i \in (anchor + 1)..c.after : Fits(i)'
  <2>1. \A i \in (anchor + 1)..c.after : Fits(i) /\ i \in Nat
    BY <1>2, <1>3, <1>9 DEF PassHolds
  <2> QED
    BY <1>10, <2>1
<1>14. \A k \in Nat : Fits(c.after + k) => Fits(c.after + k)'
  BY <1>9, <1>10
<1>15. \A m \in Nat : (\A k \in 1..m : Fits(c.after + k)) => \A k \in 1..m : Fits(c.after + k)'
  BY <1>14
<1>16. (PassHolds(c))'
  <2>1. Len(c.page.rows) \in Nat /\ Len(c.todo) \in Nat
    <3>1. c.page.rows \in Seq(Nat) /\ c.todo \in Seq(Nat)
      BY <1>9 DEF Page
    <3> QED
      BY <3>1
  <2>2. c.through <= Len(history')
    <3>1. c.through \in Nat /\ c.through <= n /\ n \in Nat /\ Len(history') = n + 1
      BY <1>3, <1>4, <1>9
    <3> QED
      BY <3>1
  <2>3. c.phase = "reading" =>
          /\ c.after < c.through /\ c.after + Len(c.page.rows) <= c.through
          /\ (Len(c.page.rows) = 0 => c.page.bytes = 0)
          /\ From(c.after, c.page.rows) /\ (reader = "indexed" => c.page = NoPage)
          /\ \A k \in 1..Len(c.page.rows) : Fits(c.after + k)'
    BY <1>2, <1>15, <2>1 DEF PassHolds
  <2>4. c.phase = "dispatching" =>
          /\ c.after + Len(c.todo) <= c.through /\ c.after + Len(c.todo) >= c.from + c.pages + 1
          /\ From(c.after, c.todo) /\ \A k \in 1..Len(c.todo) : Fits(c.after + k)'
    BY <1>2, <1>15, <2>1 DEF PassHolds
  <2>5. /\ anchor <= c.after /\ c.from <= c.after
        /\ c.phase = "idle" => c.after = c.from /\ c.pages = 0
        /\ c.phase \in {"open", "reading"} => c.after >= c.from + c.pages /\ c.after <= c.through
        /\ c.phase \in {"reading", "dispatching"} => Len(c.page.rows) <= MaxCommits /\ c.page.bytes <= MaxBytes
        /\ c.phase = "unavailable" => Missed(c)
        /\ c.phase # "stalled"
        /\ c.phase = "continuation" => c.after >= c.from + MaxPages
    BY <1>2 DEF PassHolds
  <2>6. From(c.after, c.page.rows)' <=> From(c.after, c.page.rows)
    BY DEF From
  <2>7. From(c.after, c.todo)' <=> From(c.after, c.todo)
    BY DEF From
  <2> QED
    BY <1>5, <1>11, <1>12, <1>13, <2>2, <2>3, <2>4, <2>5, <2>6, <2>7 DEF PassHolds
<1>17. (PassHolds(pass))'
  BY <1>2, <1>16 DEF PassHolds, Missed
<1> QED
  BY <1>7, <1>17 DEF PagingIInv

LEMMA ProbeIInv ==
  ASSUME PagingIInv, Probe
  PROVE  PagingIInv'
<1>1. PICK c : c = pass
  OBVIOUS
<1>2. c \in Pass /\ PassHolds(c) /\ PagingTypeOK /\ UNCHANGED <<reader, history, present, anchor>>
  BY <1>1 DEF PagingIInv, PagingTypeOK, Probe
<1>3. CASE Ends("unprobed")
  BY <1>2, <1>3, Ended DEF PassEnded
<1>4. CASE c.after <= Len(history) /\ pass' = [c EXCEPT !.phase = "open", !.through = Len(history)]
  <2>1. PICK d : d = pass'
    OBVIOUS
  <2>2. Len(history) \in Nat
    BY <1>2 DEF PagingTypeOK
  <2>3. d \in Pass /\ d.phase = "open" /\ d.after = c.after /\ d.from = c.from /\ d.pages = c.pages
        /\ d.through = Len(history)
    BY <1>2, <1>4, <2>1, <2>2 DEF Pass
  <2>4. c.phase = "idle"
    BY <1>1 DEF Probe
  <2>5. c.after = c.from /\ c.pages = 0 /\ c.from \in Nat
    BY <1>2, <2>4 DEF PassHolds, Pass
  <2>6. d.after >= d.from + d.pages /\ d.through <= Len(history)
    <3>1. c.after >= c.from + c.pages
      BY <2>5
    <3> QED
      BY <2>2, <2>3, <3>1
  <2>7. PassHolds(d)
    BY <1>2, <1>4, <2>3, <2>6 DEF PassHolds
  <2> QED
    BY <1>2, <2>1, <2>3, <2>7, PassMoves
<1> QED
  BY <1>1, <1>3, <1>4 DEF Probe

LEMMA OpenPageIInv ==
  ASSUME PagingAssumption, PagingIInv, OpenPage
  PROVE  PagingIInv'
<1>1. PICK c : c = pass
  OBVIOUS
<1>2. c \in Pass /\ PassHolds(c) /\ PagingTypeOK /\ UNCHANGED <<reader, history, present, anchor>>
  BY <1>1 DEF PagingIInv, PagingTypeOK, OpenPage
<1>3. PICK d : d = pass'
  OBVIOUS
<1>4. NoPage \in Page /\ NoPage.rows = <<>> /\ NoPage.bytes = 0
  BY DEF NoPage, Page
<1>5. d = [c EXCEPT !.phase = "reading", !.page = NoPage] /\ c.phase = "open" /\ c.after < c.through
  BY <1>1, <1>3 DEF OpenPage
<1>6. /\ d \in Pass /\ d.phase = "reading" /\ d.page = NoPage /\ d.after = c.after /\ d.from = c.from
      /\ d.pages = c.pages /\ d.through = c.through
  BY <1>2, <1>4, <1>5 DEF Pass
<1>7. MaxCommits \in Nat /\ MaxBytes \in Nat /\ c.after \in Nat /\ c.through \in Nat
  BY <1>2 DEF PagingAssumption, Pass
<1>8. Len(d.page.rows) = 0 /\ d.page.bytes = 0 /\ d.after + Len(d.page.rows) <= d.through
  BY <1>4, <1>5, <1>6, <1>7
<1>9. Len(d.page.rows) <= MaxCommits /\ d.page.bytes <= MaxBytes
  BY <1>7, <1>8
<1>10. /\ From(d.after, d.page.rows) /\ \A k \in 1..Len(d.page.rows) : Fits(d.after + k)
       /\ Len(d.page.rows) = 0 => d.page.bytes = 0
  BY <1>8 DEF From
<1>11. PassHolds(d)
  BY <1>2, <1>5, <1>6, <1>8, <1>9, <1>10 DEF PassHolds
<1> QED
  BY <1>2, <1>3, <1>6, <1>11, PassMoves

LEMMA ClosePassIInv ==
  ASSUME PagingAssumption, PagingIInv, ClosePass
  PROVE  PagingIInv'
<1>1. PICK c : c = pass
  OBVIOUS
<1>2. c \in Pass /\ PassHolds(c) /\ PagingTypeOK /\ UNCHANGED <<reader, history, present, anchor>>
  BY <1>1 DEF PagingIInv, PagingTypeOK, ClosePass
<1>3. c.phase = "open" /\ ~(c.after < c.through /\ c.pages < MaxPages)
  BY <1>1 DEF ClosePass
<1>4. /\ c.after \in Nat /\ c.through \in Nat /\ c.from \in Nat /\ c.pages \in Nat
      /\ MaxPages \in Nat /\ MaxPages > 0 /\ c.after >= c.from + c.pages /\ c.after <= c.through
  BY <1>2, <1>3 DEF PassHolds, Pass, PagingAssumption
<1>5. CASE c.after = c.through
  <2>1. Ends("caught_up")
    BY <1>1, <1>5 DEF ClosePass
  <2> QED
    BY <1>2, <2>1, Ended DEF PassEnded
<1>6. CASE c.after # c.through
  <2>1. c.pages >= MaxPages
    BY <1>3, <1>4, <1>6
  <2>2. c.after >= c.from + MaxPages /\ c.after # c.from
    BY <1>4, <2>1
  <2>3. Ends("continuation")
    BY <1>1, <1>6, <2>2 DEF ClosePass
  <2> QED
    BY <1>1, <1>2, <2>2, <2>3, Ended DEF PassEnded
<1> QED
  BY <1>5, <1>6

LEMMA DispatchNextIInv ==
  ASSUME PagingAssumption, PagingIInv, DispatchNext
  PROVE  PagingIInv'
<1>1. PICK c : c = pass
  OBVIOUS
<1>2. c \in Pass /\ PassHolds(c) /\ PagingTypeOK /\ UNCHANGED <<reader, history, present, anchor>>
  BY <1>1 DEF PagingIInv, PagingTypeOK, DispatchNext
<1>3. PICK d : d = pass'
  OBVIOUS
<1>4. c.phase = "dispatching"
  BY <1>1 DEF DispatchNext
<1>5. /\ c.after + Len(c.todo) <= c.through /\ c.after + Len(c.todo) >= c.from + c.pages + 1
      /\ From(c.after, c.todo) /\ \A k \in 1..Len(c.todo) : Fits(c.after + k)
      /\ Len(c.page.rows) <= MaxCommits /\ c.page.bytes <= MaxBytes
      /\ anchor <= c.after /\ c.from <= c.after /\ c.through <= Len(history)
      /\ \A i \in (anchor + 1)..c.after : Fits(i)
  BY <1>2, <1>4 DEF PassHolds
<1>6. /\ c.after \in Nat /\ c.through \in Nat /\ c.from \in Nat /\ c.pages \in Nat /\ anchor \in Nat
      /\ c.todo \in Seq(Nat) /\ Len(c.todo) \in Nat
  BY <1>2 DEF Pass, PagingTypeOK
<1>7. CASE c.todo = <<>>
  <2>1. d = [c EXCEPT !.phase = "open", !.pages = @ + 1]
    BY <1>1, <1>3, <1>7 DEF DispatchNext
  <2>2. c.pages + 1 \in Nat
    BY <1>6
  <2>3. /\ d \in Pass /\ d.phase = "open" /\ d.pages = c.pages + 1 /\ d.after = c.after
        /\ d.from = c.from /\ d.through = c.through
    BY <1>2, <2>1, <2>2 DEF Pass
  <2>4. Len(c.todo) = 0
    BY <1>7
  <2>5. d.after >= d.from + d.pages /\ d.after <= d.through
    <3>1. c.after \in Nat /\ c.from \in Nat /\ c.pages \in Nat
      BY <1>6
    <3>2. c.after + 0 >= c.from + c.pages + 1 /\ c.after + 0 <= c.through
      BY <1>5, <2>4
    <3>3. c.after >= c.from + (c.pages + 1) /\ c.after <= c.through
      BY <3>1, <3>2
    <3> QED
      BY <2>3, <3>3
  <2>6. PassHolds(d)
    BY <1>5, <2>3, <2>5 DEF PassHolds
  <2> QED
    BY <1>2, <1>3, <2>3, <2>6, PassMoves
<1>8. CASE c.todo # <<>>
  <2> DEFINE m == Len(c.todo)
             rest == Tail(c.todo)
  <2>1. d = [c EXCEPT !.after = Head(c.todo), !.todo = rest]
    BY <1>1, <1>3, <1>8 DEF DispatchNext
  <2>2. /\ rest \in Seq(Nat) /\ Len(rest) = m - 1 /\ m > 0
        /\ \A k \in 1..(m - 1) : rest[k] = c.todo[k + 1]
        /\ Head(c.todo) = c.todo[1]
    <3>1. c.todo \in Seq(Nat)
      BY <1>6
    <3> QED
      BY <1>8, <3>1
  <2> HIDE DEF rest
  <2>3. Head(c.todo) = c.after + 1
    BY <1>5, <1>6, <2>2 DEF From
  <2>4. c.after + 1 \in Nat
    BY <1>6
  <2>5. /\ d \in Pass /\ d.phase = "dispatching" /\ d.after = c.after + 1 /\ d.todo = rest
        /\ d.page = c.page /\ d.from = c.from /\ d.through = c.through /\ d.pages = c.pages
    BY <1>2, <1>4, <2>1, <2>2, <2>3, <2>4 DEF Pass
  <2>6. From(d.after, d.todo)
    <3>1. ASSUME NEW k \in 1..(m - 1) PROVE rest[k] = c.after + 1 + k
      <4>1. k \in Nat /\ k + 1 \in 1..m
        BY <1>6, <2>2
      <4>2. c.todo[k + 1] = c.after + (k + 1)
        BY <1>5, <4>1 DEF From
      <4>3. c.after + (k + 1) = c.after + 1 + k
        BY <1>6, <4>1, NextTerm
      <4>4. rest[k] = c.todo[k + 1]
        BY <2>2
      <4> QED
        BY <4>2, <4>3, <4>4
    <3> QED
      BY <2>2, <2>5, <3>1 DEF From
  <2>7. \A k \in 1..Len(d.todo) : Fits(d.after + k)
    <3>1. ASSUME NEW k \in 1..(m - 1) PROVE Fits(c.after + 1 + k)
      <4>1. k \in Nat /\ k + 1 \in 1..m
        BY <1>6, <2>2
      <4>2. c.after + (k + 1) = c.after + 1 + k
        BY <1>6, <4>1, NextTerm
      <4>3. Fits(c.after + (k + 1))
        BY <1>5, <4>1
      <4> QED
        BY <4>2, <4>3
    <3> QED
      BY <2>2, <2>5, <3>1
  <2>8. \A i \in (anchor + 1)..(c.after + 1) : Fits(i)
    <3>1. ASSUME NEW i \in (anchor + 1)..(c.after + 1), i # c.after + 1 PROVE i \in (anchor + 1)..c.after
      <4>1. anchor \in Nat /\ c.after \in Nat
        BY <1>6
      <4> QED
        BY <3>1, <4>1
    <3>2. Fits(c.after + 1)
      <4>1. 1 \in 1..m
        BY <1>6, <2>2
      <4> QED
        BY <1>5, <4>1
    <3> QED
      BY <1>5, <3>1, <3>2
  <2>9. /\ d.after + Len(d.todo) <= d.through /\ d.after + Len(d.todo) >= d.from + d.pages + 1
        /\ anchor <= d.after /\ d.from <= d.after
    <3>1. d.after + Len(d.todo) = c.after + m
      <4>1. m \in Nat
        BY <1>6
      <4>2. (c.after + 1) + (m - 1) = c.after + m
        <5>1. c.after \in Nat
          BY <1>6
        <5> HIDE DEF m
        <5> QED
          BY <4>1, <5>1
      <4> QED
        BY <2>2, <2>5, <4>2
    <3>2. anchor <= c.after + 1 /\ c.from <= c.after + 1
      <4>1. anchor \in Nat /\ c.after \in Nat /\ c.from \in Nat
        BY <1>6
      <4>2. anchor <= c.after /\ c.from <= c.after
        BY <1>5
      <4> QED
        BY <4>1, <4>2
    <3> QED
      BY <1>5, <2>5, <3>1, <3>2
  <2>10. PassHolds(d)
    BY <1>5, <2>5, <2>6, <2>7, <2>8, <2>9 DEF PassHolds
  <2> QED
    BY <1>2, <1>3, <2>5, <2>10, PassMoves
<1> QED
  BY <1>7, <1>8

LEMMA DispatchFailsIInv ==
  ASSUME PagingIInv, DispatchFails
  PROVE  PagingIInv'
BY Ended DEF DispatchFails, PassEnded

LEMMA NextPassIInv ==
  ASSUME PagingIInv, NextPass
  PROVE  PagingIInv'
<1>1. PICK c : c = pass
  OBVIOUS
<1>2. c \in Pass /\ PassHolds(c) /\ PagingTypeOK /\ UNCHANGED <<reader, history, present, anchor>>
  BY <1>1 DEF PagingIInv, PagingTypeOK, NextPass
<1>3. PICK d : d = pass'
  OBVIOUS
<1>4. /\ d \in Pass /\ d.phase = "idle" /\ d.after = c.after /\ d.from = c.after /\ d.through = 0
      /\ d.pages = 0
  BY <1>1, <1>2, <1>3 DEF NextPass, NewPass, NoPage, Pass, Page
<1>5. 0 <= Len(history) /\ c.after \in Nat
  BY <1>2 DEF PagingTypeOK, Pass
<1>6. PassHolds(d)
  BY <1>2, <1>4, <1>5 DEF PassHolds
<1> QED
  BY <1>2, <1>3, <1>4, <1>6, PassMoves

-----------------------------------------------------------------------------
(* The readers.                                                            *)

LEMMA Answered ==
  ASSUME PagingAssumption, PagingIInv, pass.phase = "reading",
         UNCHANGED <<reader, history, present, anchor>>,
         NEW page \in Page, NEW hasMore \in BOOLEAN, Answer(page, hasMore),
         \A k \in 1..Len(page.rows) : page.rows[k] = pass.after + k => Fits(pass.after + k),
         ~ValidPage(page, hasMore) => Missed(pass)
  PROVE  PagingIInv'
<1>1. PICK c : c = pass
  OBVIOUS
<1>2. c \in Pass /\ PassHolds(c) /\ PagingTypeOK /\ c.phase = "reading"
  BY <1>1 DEF PagingIInv, PagingTypeOK
<1>3. CASE ~ValidPage(page, hasMore)
  <2>1. Ends("unavailable")
    BY <1>3 DEF Answer
  <2> QED
    BY <1>3, <2>1, Ended DEF PassEnded
<1>4. CASE ValidPage(page, hasMore)
  <2>1. PICK d : d = pass'
    OBVIOUS
  <2>2. d = [c EXCEPT !.phase = "dispatching", !.page = page, !.todo = page.rows]
    BY <1>1, <1>4, <2>1 DEF Answer
  <2> DEFINE m == Len(page.rows)
  <2>3. page.rows \in Seq(Nat) /\ m \in Nat /\ page.bytes \in Nat /\ DOMAIN page.rows = 1..m
    BY DEF Page
  <2>4. /\ m = 0 => ~hasMore
        /\ m <= MaxCommits /\ page.bytes <= MaxBytes
        /\ \A k \in 1..m : page.rows[k] = c.after + k /\ page.rows[k] <= c.through
        /\ hasMore <=> c.after + m + 1 <= c.through
    BY <1>1, <1>4, <2>3 DEF ValidPage
  <2>5. /\ d \in Pass /\ d.phase = "dispatching" /\ d.page = page /\ d.todo = page.rows
        /\ d.after = c.after /\ d.from = c.from /\ d.through = c.through /\ d.pages = c.pages
    BY <1>2, <2>2, <2>3 DEF Pass
  <2>6. /\ c.after \in Nat /\ c.through \in Nat /\ c.from \in Nat /\ c.pages \in Nat
        /\ c.after < c.through /\ c.after >= c.from + c.pages
    BY <1>2 DEF Pass, PassHolds
  <2>7. From(d.after, d.todo)
    BY <2>4, <2>5 DEF From
  <2>8. \A k \in 1..Len(d.todo) : Fits(d.after + k)
    BY <1>1, <2>4, <2>5
  <2> HIDE DEF m
  <2>9. m > 0
    <3>1. SUFFICES ASSUME m = 0 PROVE FALSE
      BY <2>3
    <3>2. c.after + m + 1 <= c.through
      <4>1. c.after \in Nat /\ c.through \in Nat /\ c.after < c.through
        BY <2>6
      <4> QED
        BY <3>1, <4>1
    <3> QED
      BY <2>4, <3>1, <3>2
  <2>10. c.after + m <= c.through
    <3>1. m \in 1..m
      BY <2>3, <2>9
    <3> QED
      BY <2>4, <3>1
  <2>11. c.after + m >= c.from + c.pages + 1
    <3>1. m \in Nat
      BY <2>3
    <3> QED
      BY <2>6, <2>9, <3>1
  <2>12. Len(d.todo) = m /\ Len(d.page.rows) = m /\ d.page.bytes = page.bytes
    BY <2>5 DEF m
  <2>13. PassHolds(d)
    BY <1>2, <2>4, <2>5, <2>7, <2>8, <2>10, <2>11, <2>12 DEF PassHolds
  <2> QED
    BY <1>2, <2>1, <2>5, <2>13, PassMoves
<1> QED
  BY <1>3, <1>4

(* What a cursor has yet to return, behind a page in order.                  *)
LEMMA RemainingIs ==
  ASSUME PagingIInv, pass.phase = "reading"
  PROVE  Remaining = {i \in present : pass.after + Len(pass.page.rows) < i /\ i <= pass.through}
<1>1. PICK c : c = pass
  OBVIOUS
<1>2. c \in Pass /\ PassHolds(c) /\ c.phase = "reading"
  BY <1>1 DEF PagingIInv, PagingTypeOK
<1>3. c.after \in Nat /\ c.page.rows \in Seq(Nat) /\ From(c.after, c.page.rows)
  BY <1>2 DEF PassHolds, Pass, Page
<1>4. (IF Len(c.page.rows) = 0 THEN c.after ELSE Last(c.page.rows)) = c.after + Len(c.page.rows)
  <2>1. Len(c.page.rows) # 0 => Len(c.page.rows) \in 1..Len(c.page.rows)
    BY <1>3
  <2>2. Len(c.page.rows) = 0 => c.after + Len(c.page.rows) = c.after
    BY <1>3
  <2>3. Len(c.page.rows) # 0 => Last(c.page.rows) = c.after + Len(c.page.rows)
    BY <1>3, <2>1 DEF From, Last
  <2> QED
    BY <2>2, <2>3
<1> QED
  BY <1>1, <1>4 DEF Remaining

LEMMA ReadRowIInv ==
  ASSUME PagingAssumption, PagingIInv, ReadRow
  PROVE  PagingIInv'
<1>1. PICK c : c = pass
  OBVIOUS
<1>2. /\ c \in Pass /\ PassHolds(c) /\ PagingTypeOK /\ UNCHANGED <<reader, history, present, anchor>>
      /\ c.phase = "reading" /\ reader = "mongo" /\ Remaining # {}
  BY <1>1 DEF PagingIInv, PagingTypeOK, ReadRow
<1> DEFINE page == c.page
           m == Len(page.rows)
           last == c.after + m
<1>3. /\ page \in Page /\ page.rows \in Seq(Nat) /\ m \in Nat /\ page.bytes \in Nat
      /\ c.after \in Nat /\ c.through \in Nat /\ last \in Nat /\ DOMAIN page.rows = 1..m
      /\ MaxCommits \in Nat /\ MaxCommits > 0 /\ MaxBytes \in Nat
  BY <1>2 DEF Pass, Page, PagingAssumption
<1>4. /\ m <= MaxCommits /\ page.bytes <= MaxBytes /\ last <= c.through /\ c.after < c.through
      /\ (m = 0 => page.bytes = 0) /\ From(c.after, page.rows)
      /\ \A k \in 1..m : Fits(c.after + k)
  BY <1>2 DEF PassHolds
<1>5. Remaining = {i \in present : last < i /\ i <= c.through}
  BY <1>1, <1>2, RemainingIs
<1>6. present \in SUBSET Nat /\ history \in Seq(Nat) /\ present \in SUBSET (1..Len(history))
  BY <1>2 DEF PagingTypeOK
<1> HIDE DEF last, m, page
<1>7. \E i \in Remaining : \A j \in Remaining : i <= j
  <2>1. Remaining \in SUBSET Nat
    BY <1>5, <1>6
  <2> QED
    BY <1>2, <2>1, LeastNatural
<1> DEFINE i == CHOOSE i \in Remaining : \A j \in Remaining : i <= j
<1>8. i \in Remaining /\ \A j \in Remaining : i <= j
  BY <1>7
<1>10. i \in present /\ i \in Nat /\ last < i /\ i <= c.through
  <2> HIDE DEF i
  <2> QED
    BY <1>5, <1>6, <1>8
<1>9. /\ ~Decodes(i) \/ i # c.after + m + 1 => Ends("unavailable")
      /\ Decodes(i) /\ i = c.after + m + 1 /\ i = c.after + 1 /\ history[i] > MaxBytes => Ends("oversized")
      /\ Decodes(i) /\ i = c.after + m + 1 /\ ~(i = c.after + 1 /\ history[i] > MaxBytes) =>
           IF Full(page, i) THEN Answer(page, TRUE) ELSE pass' = [c EXCEPT !.page = Taken(page, i)]
  <2> DEFINE broken == ~Decodes(i) \/ i # c.after + m + 1
             large == Decodes(i) /\ i = c.after + 1 /\ history[i] > MaxBytes
             taken == IF Full(page, i) THEN Answer(page, TRUE) ELSE pass' = [c EXCEPT !.page = Taken(page, i)]
  <2>1. (CASE broken -> Ends("unavailable") [] large -> Ends("oversized") [] OTHER -> taken)
    BY <1>1 DEF ReadRow, m, page
  <2> HIDE DEF taken, i
  <2>2. i = c.after + 1 => i = c.after + m + 1
    <3>1. c.after \in Nat /\ m \in Nat /\ c.after + m < i
      BY <1>3, <1>10 DEF last
    <3> QED
      BY <3>1
  <2>3. broken /\ ~large => Ends("unavailable")
    BY <2>1
  <2>4. ~broken /\ large => Ends("oversized")
    BY <2>1
  <2>5. ~broken /\ ~large => taken
    BY <2>1
  <2> QED
    BY <2>2, <2>3, <2>4, <2>5 DEF taken
<1> HIDE DEF i
<1>11. last = c.after + m
  BY DEF last
<1>12. CASE ~Decodes(i) \/ i # last + 1
  <2>1. Ends("unavailable")
    BY <1>9, <1>11, <1>12
  <2>2. ~Decodes(last + 1)
    <3>1. CASE i = last + 1
      BY <1>12, <3>1
    <3>2. CASE i # last + 1
      <4>1. last + 1 \notin Remaining
        BY <1>3, <1>8, <1>10, <3>2
      <4>2. last + 1 \notin present
        BY <1>3, <1>5, <1>10, <4>1
      <4> QED
        BY <4>2 DEF Decodes
    <3> QED
      BY <3>1, <3>2
  <2>3. last + 1 \in (c.after + 1)..c.through /\ last + 1 <= c.after + MaxCommits + 1
    <3>0. c.after \in Nat /\ c.through \in Nat /\ m \in Nat /\ MaxCommits \in Nat /\ m <= MaxCommits
      BY <1>3, <1>4
    <3>1. m + 1 \in 1..(m + 1) /\ m + 1 \in Nat /\ m + 1 <= MaxCommits + 1
      BY <3>0
    <3>2. last + 1 = c.after + (m + 1)
      BY <3>0, <1>11
    <3>3. last + 1 <= c.through
      <4>1. last \in Nat /\ i \in Nat /\ last < i /\ i <= c.through
        BY <1>3, <1>10
      <4> QED
        BY <3>0, <4>1
    <3> QED
      BY <3>0, <3>1, <3>2, <3>3, Within
  <2>4. Missed(c)
    BY <2>2, <2>3 DEF Missed
  <2> QED
    BY <1>1, <1>2, <2>1, <2>4, Ended DEF PassEnded
<1>13. CASE Decodes(i) /\ i = last + 1 /\ i = c.after + 1 /\ history[i] > MaxBytes
  <2>1. Ends("oversized")
    BY <1>9, <1>11, <1>13
  <2>2. c.after + 1 <= c.through /\ history[c.after + 1] > MaxBytes
    BY <1>10, <1>13
  <2> QED
    BY <1>1, <1>2, <2>1, <2>2, Ended DEF PassEnded
<1>14. CASE Decodes(i) /\ i = last + 1 /\ ~(i = c.after + 1 /\ history[i] > MaxBytes)
  <2>1. IF Full(page, i) THEN Answer(page, TRUE) ELSE pass' = [c EXCEPT !.page = Taken(page, i)]
    BY <1>9, <1>11, <1>14
  <2> DEFINE w == history[i]
  <2>2. w \in Nat
    BY <1>6, <1>10
  <2>3. Full(page, i) <=> m >= MaxCommits \/ page.bytes + w > MaxBytes
    BY DEF Full, m
  <2> HIDE DEF w
  <2>4. CASE Full(page, i)
    <3>1. m # 0
      <4>1. SUFFICES ASSUME m = 0 PROVE FALSE
        OBVIOUS
      <4>0. c.after \in Nat /\ MaxCommits \in Nat /\ MaxCommits > 0 /\ MaxBytes \in Nat /\ page.bytes = 0
        BY <1>3, <1>4, <4>1
      <4>2. w > MaxBytes
        BY <2>2, <2>3, <2>4, <4>0, <4>1
      <4>3. i = c.after + 1
        BY <1>11, <1>14, <4>0, <4>1
      <4> QED
        BY <1>14, <4>2, <4>3 DEF w
    <3>2. \A k \in 1..m : page.rows[k] = c.after + k /\ c.after + k <= c.through
      <4>1. c.after \in Nat /\ c.through \in Nat /\ m \in Nat /\ c.after + m <= c.through
        BY <1>3, <1>4, <1>11
      <4>2. \A k \in 1..m : c.after + k <= c.through
        BY <4>1
      <4>3. \A k \in 1..m : page.rows[k] = c.after + k
        BY <1>4 DEF From, m
      <4> QED
        BY <4>2, <4>3
    <3>3. c.after + m + 1 <= c.through
      BY <1>10, <1>11, <1>14
    <3>4. ValidPage(page, TRUE)
      BY <1>1, <1>3, <1>4, <3>1, <3>2, <3>3 DEF ValidPage, m
    <3>5. Answer(page, TRUE)
      BY <2>1, <2>4
    <3>6. \A k \in 1..Len(page.rows) : page.rows[k] = pass.after + k => Fits(pass.after + k)
      BY <1>1, <1>4 DEF m
    <3> QED
      BY <1>1, <1>2, <1>3, <3>4, <3>5, <3>6, Answered
  <2>5. CASE ~Full(page, i)
    <3>1. PICK d : d = pass'
      OBVIOUS
    <3> DEFINE taken == Taken(page, i)
               got == Append(page.rows, i)
    <3>2. d = [c EXCEPT !.page = taken] /\ taken = [rows |-> got, bytes |-> page.bytes + w]
      BY <2>1, <2>5, <3>1 DEF Taken, w
    <3>3. m < MaxCommits /\ page.bytes + w <= MaxBytes
      <4>1. m \in Nat /\ MaxCommits \in Nat /\ MaxBytes \in Nat /\ page.bytes \in Nat
        BY <1>3
      <4> QED
        BY <2>2, <2>3, <2>5, <4>1
    <3>4. /\ got \in Seq(Nat) /\ Len(got) = m + 1 /\ got[m + 1] = i
          /\ \A k \in 1..m : got[k] = page.rows[k]
      BY <1>3, <1>10 DEF m
    <3> HIDE DEF got, taken
    <3>5. taken \in Page /\ taken.rows = got /\ taken.bytes = page.bytes + w
      <4>1. page.bytes + w \in Nat
        <5>1. page.bytes \in Nat
          BY <1>3
        <5> QED
          BY <2>2, <5>1
      <4> QED
        BY <3>2, <3>4, <4>1 DEF Page
    <3>6. /\ d \in Pass /\ d.phase = "reading" /\ d.page = taken /\ d.after = c.after /\ d.from = c.from
          /\ d.through = c.through /\ d.pages = c.pages
      BY <1>2, <3>2, <3>5 DEF Pass
    <3>7. c.after + (m + 1) = i /\ m + 1 <= MaxCommits
      <4>0. c.after \in Nat /\ m \in Nat /\ MaxCommits \in Nat
        BY <1>3
      <4>1. c.after + (m + 1) = (c.after + m) + 1
        BY <4>0
      <4>2. m + 1 <= MaxCommits
        BY <4>0, <3>3
      <4> QED
        BY <1>11, <1>14, <4>1, <4>2
    <3>8. \A k \in 1..(m + 1) : k \in 1..m \/ k = m + 1
      <4>1. m \in Nat
        BY <1>3
      <4> QED
        BY <4>1
    <3>9. From(c.after, got)
      <4>1. \A k \in 1..m : got[k] = c.after + k
        BY <1>4, <3>4 DEF From, m
      <4> QED
        BY <3>4, <3>7, <3>8, <4>1 DEF From
    <3>10. \A k \in 1..(m + 1) : Fits(c.after + k)
      <4>1. Fits(i)
        <5>1. w <= MaxBytes
          <6>1. page.bytes \in Nat /\ MaxBytes \in Nat
            BY <1>3
          <6> QED
            BY <2>2, <3>3, <6>1
        <5> QED
          BY <1>14, <5>1 DEF Fits, w
      <4> QED
        BY <1>4, <3>7, <3>8, <4>1
    <3>11. /\ Len(d.page.rows) = m + 1 /\ Len(d.page.rows) # 0 /\ Len(d.page.rows) <= MaxCommits
           /\ d.page.bytes <= MaxBytes /\ d.after + Len(d.page.rows) <= d.through
      <4>1. Len(d.page.rows) = m + 1 /\ m + 1 # 0
        <5>1. m \in Nat
          BY <1>3
        <5> QED
          BY <3>4, <3>5, <3>6, <5>1
      <4> QED
        BY <1>10, <3>3, <3>5, <3>6, <3>7, <4>1
    <3>12. From(d.after, d.page.rows) /\ \A k \in 1..Len(d.page.rows) : Fits(d.after + k)
      BY <3>5, <3>6, <3>9, <3>10, <3>11
    <3>13. PassHolds(d)
      BY <1>2, <3>6, <3>11, <3>12 DEF PassHolds
    <3> QED
      BY <1>2, <3>1, <3>6, <3>13, PassMoves
  <2> QED
    BY <2>4, <2>5
<1> QED
  BY <1>12, <1>13, <1>14

LEMMA CursorEndsIInv ==
  ASSUME PagingAssumption, PagingIInv, CursorEnds
  PROVE  PagingIInv'
<1>1. PICK c : c = pass
  OBVIOUS
<1>2. /\ c \in Pass /\ PassHolds(c) /\ PagingTypeOK /\ UNCHANGED <<reader, history, present, anchor>>
      /\ c.phase = "reading"
  BY <1>1 DEF PagingIInv, PagingTypeOK, CursorEnds
<1> DEFINE page == c.page
           m == Len(page.rows)
           last == c.after + m
<1>3. /\ page \in Page /\ page.rows \in Seq(Nat) /\ m \in Nat /\ page.bytes \in Nat
      /\ c.after \in Nat /\ c.through \in Nat /\ last \in Nat /\ DOMAIN page.rows = 1..m
      /\ MaxCommits \in Nat
  BY <1>2 DEF Pass, Page, PagingAssumption
<1>4. /\ m <= MaxCommits /\ page.bytes <= MaxBytes /\ last <= c.through
      /\ From(c.after, page.rows) /\ \A k \in 1..m : Fits(c.after + k)
  BY <1>2 DEF PassHolds
<1>5. Remaining = {i \in present : last < i /\ i <= c.through}
  BY <1>1, <1>2, RemainingIs
<1>6. IF last < c.through THEN Ends("unavailable") ELSE Answer(page, FALSE)
  BY <1>1 DEF CursorEnds
<1>7. Remaining = {} \/ m > MaxCommits
  BY <1>1 DEF CursorEnds
<1> HIDE DEF m
<1>8. Remaining = {}
  <2>1. m \in Nat /\ MaxCommits \in Nat /\ m <= MaxCommits
    BY <1>3, <1>4
  <2> QED
    BY <1>7, <2>1
<1>9. CASE last < c.through
  <2>1. last + 1 \notin present
    <3>1. last \in Nat /\ c.through \in Nat
      BY <1>3
    <3> HIDE DEF last
    <3>2. last < last + 1 /\ last + 1 <= c.through
      BY <1>9, <3>1
    <3> QED
      BY <1>5, <1>8, <3>2
  <2>2. last + 1 \in (c.after + 1)..c.through /\ last + 1 <= c.after + MaxCommits + 1
    <3>0. c.after \in Nat /\ c.through \in Nat /\ m \in Nat /\ MaxCommits \in Nat /\ m <= MaxCommits
      BY <1>3, <1>4
    <3>1. m + 1 \in 1..(m + 1) /\ m + 1 \in Nat /\ m + 1 <= MaxCommits + 1
      BY <3>0
    <3>2. last + 1 = c.after + (m + 1)
      BY <3>0
    <3>3. c.after + (m + 1) <= c.through
      BY <3>0, <1>9
    <3> HIDE DEF last
    <3> QED
      BY <3>0, <3>1, <3>2, <3>3, Within
  <2>3. Missed(c)
    BY <2>1, <2>2 DEF Missed, Decodes
  <2> QED
    BY <1>1, <1>2, <1>6, <1>9, <2>3, Ended DEF PassEnded
<1>10. CASE ~(last < c.through)
  <2>0. c.after \in Nat /\ c.through \in Nat /\ m \in Nat /\ c.after + m <= c.through
    BY <1>3, <1>4
  <2>1. c.after + m = c.through
    BY <1>10, <2>0
  <2>2. \A k \in 1..m : page.rows[k] = c.after + k /\ c.after + k <= c.through
    <3>1. \A k \in 1..m : c.after + k <= c.through
      BY <2>0
    <3>2. \A k \in 1..m : page.rows[k] = c.after + k
      BY <1>4 DEF From, m
    <3> QED
      BY <3>1, <3>2
  <2>3. ~(c.after + m + 1 <= c.through)
    BY <2>0, <2>1
  <2>4. ValidPage(page, FALSE)
    BY ZenonT(60), <1>1, <1>3, <1>4, <2>2, <2>3 DEF ValidPage, m
  <2>5. \A k \in 1..Len(page.rows) : page.rows[k] = pass.after + k => Fits(pass.after + k)
    BY <1>1, <1>4 DEF m
  <2> QED
    BY <1>1, <1>2, <1>3, <1>6, <1>10, <2>4, <2>5, Answered
<1> QED
  BY <1>9, <1>10

LEMMA ReadIndexedIInv ==
  ASSUME PagingAssumption, PagingIInv, ReadIndexed
  PROVE  PagingIInv'
<1>1. PICK c : c = pass
  OBVIOUS
<1>2. /\ c \in Pass /\ PassHolds(c) /\ PagingTypeOK /\ UNCHANGED <<reader, history, present, anchor>>
      /\ c.phase = "reading" /\ reader = "indexed"
  BY <1>1 DEF PagingIInv, PagingTypeOK, ReadIndexed
<1> DEFINE n == c.through
<1>3. /\ c.after \in Nat /\ n \in Nat /\ c.after < n
      /\ MaxCommits \in Nat /\ MaxCommits > 0 /\ MaxBytes \in Nat
  BY <1>2 DEF Pass, PagingAssumption, PassHolds
<1>4. present \in SUBSET Nat /\ history \in Seq(Nat) /\ present \in SUBSET (1..Len(history))
  BY <1>2 DEF PagingTypeOK
<1>5. Remaining = {i \in present : c.after < i /\ i <= n}
  <2>1. Len(c.page.rows) = 0
    BY <1>2 DEF PassHolds, NoPage
  <2> QED
    BY <1>1, <1>2, <1>3, <2>1, RemainingIs
<1>6. PICK got : got = Queried
  OBVIOUS
<1>7. PICK bound : bound = Bounded(got)
  OBVIOUS
<1> DEFINE m == Len(bound.rows)
           after == IF bound.rows = <<>> THEN c.after ELSE Last(bound.rows)
           hasMore == Len(got) > m \/ after < n
           page == [rows |-> bound.rows, bytes |-> bound.bytes]
           whole == \A k \in DOMAIN got : Decodes(got[k])
<1>8. /\ ~whole => Ends("unavailable")
      /\ got # <<>> /\ whole /\ Head(got) # c.after + 1 => Ends("unavailable")
      /\ got # <<>> /\ whole /\ Head(got) = c.after + 1 /\ history[Head(got)] > MaxBytes => Ends("oversized")
      /\ whole /\ (got = <<>> \/ (Head(got) = c.after + 1 /\ ~(history[Head(got)] > MaxBytes))) =>
           Answer(page, hasMore)
  BY <1>1, <1>6, <1>7 DEF ReadIndexed
<1> HIDE DEF n, m, after, hasMore, page
<1>9. ASSUME ~Missed(c)
      PROVE  /\ got \in Seq(Nat) /\ From(c.after, got) /\ Len(got) <= MaxCommits + 1
             /\ c.after + Len(got) <= n /\ Len(got) > 0
             /\ whole /\ Head(got) = c.after + 1
  <2>1. \A i \in (c.after + 1)..n : i <= c.after + MaxCommits + 1 => Decodes(i)
    BY <1>9 DEF Missed, n
  <2>2. \A i \in (c.after + 1)..n : i <= c.after + MaxCommits + 1 => i \in Remaining
    BY <1>3, <1>5, <2>1 DEF Decodes
  <2>3. \A i \in Nat : i \in Remaining => c.after < i
    BY <1>5
  <2>4. /\ got \in Seq(Nat) /\ From(c.after, got) /\ Len(got) <= MaxCommits + 1
        /\ c.after + Len(got) <= n
        /\ Len(got) = MaxCommits + 1 \/ c.after + Len(got) = n
    <3>1. n = pass.through
      BY <1>1 DEF n
    <3> QED
      BY <1>3, <1>6, <2>2, <2>3, <3>1, QueriedInOrder
  <2>5. Len(got) \in Nat /\ Len(got) > 0
    <3>1. Len(got) \in Nat
      BY <2>4
    <3> QED
      BY <1>3, <2>4, <3>1
  <2>6. \A k \in 1..Len(got) : got[k] = c.after + k
    BY <2>4 DEF From
  <2>7. ASSUME NEW k \in 1..Len(got) PROVE Decodes(got[k])
    <3>1. c.after + k \in (c.after + 1)..n /\ c.after + k <= c.after + MaxCommits + 1
      BY <1>3, <2>4, <2>5, Within
    <3> QED
      BY <2>1, <2>6, <3>1
  <2>8. DOMAIN got = 1..Len(got) /\ Head(got) = got[1]
    BY <2>4, <2>5
  <2>9. Head(got) = c.after + 1
    BY <2>5, <2>6, <2>8
  <2> QED
    BY <2>4, <2>5, <2>7, <2>8, <2>9
<1>10. CASE ~whole \/ (got # <<>> /\ Head(got) # c.after + 1)
  <2>1. Ends("unavailable")
    BY <1>8, <1>10
  <2>2. Missed(c)
    BY <1>9, <1>10
  <2> QED
    BY <1>1, <1>2, <2>1, <2>2, Ended DEF PassEnded
<1>11. CASE got # <<>> /\ whole /\ Head(got) = c.after + 1 /\ history[Head(got)] > MaxBytes
  <2>1. Ends("oversized")
    BY <1>8, <1>11
  <2>2. c.after + 1 <= n /\ history[c.after + 1] > MaxBytes
    BY <1>3, <1>11
  <2> QED
    BY <1>1, <1>2, <2>1, <2>2, Ended DEF PassEnded, n
<1>12. CASE whole /\ (got = <<>> \/ (Head(got) = c.after + 1 /\ ~(history[Head(got)] > MaxBytes)))
  <2>1. Answer(page, hasMore)
    BY <1>8, <1>12
  <2>2. got \in Seq(Nat)
    BY <1>3, <1>1, <1>4, <1>5, <1>6, QueriedRows DEF n
  <2>3. \A k \in 1..Len(got) : Decodes(got[k])
    BY <1>12, <2>2
  <2>4. \A k \in 1..Len(got) : history[got[k]] \in Nat
    <3>1. \A i \in 1..Len(history) : history[i] \in Nat
      BY <1>4
    <3>2. \A k \in 1..Len(got) : got[k] \in 1..Len(history)
      BY <1>4, <2>3 DEF Decodes
    <3> QED
      BY <3>1, <3>2
  <2>5. /\ bound.rows \in Seq(Nat) /\ bound.bytes \in Nat
        /\ Len(bound.rows) <= Len(got)
        /\ \A k \in 1..Len(bound.rows) : bound.rows[k] = got[k] /\ history[got[k]] <= bound.bytes
        /\ Len(bound.rows) <= MaxCommits /\ bound.bytes <= MaxBytes
        /\ Len(got) > 0 /\ history[got[1]] <= MaxBytes => Len(bound.rows) > 0
    BY <1>7, <2>2, <2>4, BoundedIs
  <2>6. page \in Page /\ page.rows = bound.rows /\ page.bytes = bound.bytes /\ hasMore \in BOOLEAN
    BY <2>5 DEF Page, page, hasMore
  <2>7. m \in Nat /\ Len(got) \in Nat /\ m <= Len(got) /\ Len(bound.rows) = m /\ DOMAIN bound.rows = 1..m
    <3>1. bound.rows \in Seq(Nat) /\ Len(bound.rows) <= Len(got)
      BY <2>5
    <3> QED
      BY <2>2, <3>1 DEF m
  <2>8. ASSUME NEW k \in 1..Len(page.rows), page.rows[k] = pass.after + k PROVE Fits(pass.after + k)
    <3>1. k \in 1..m /\ k \in 1..Len(got)
      BY <2>6, <2>7
    <3>2. bound.rows[k] = got[k] /\ history[got[k]] <= bound.bytes /\ got[k] = pass.after + k
      BY <2>5, <2>6, <2>7, <2>8, <3>1
    <3>3. history[got[k]] <= MaxBytes
      <4>1. bound.bytes \in Nat /\ bound.bytes <= MaxBytes
        BY <2>5
      <4>2. history[got[k]] \in Nat
        BY <2>4, <3>1
      <4> QED
        BY <1>3, <3>2, <4>1, <4>2
    <3> QED
      BY <2>3, <3>1, <3>2, <3>3 DEF Fits
  <2>9. ASSUME ~Missed(c) PROVE ValidPage(page, hasMore)
    <3>1. /\ From(c.after, got) /\ Len(got) <= MaxCommits + 1
          /\ c.after + Len(got) <= n /\ Len(got) > 0 /\ Head(got) = c.after + 1
      BY <1>9, <2>9
    <3>2. got # <<>> /\ Head(got) = got[1] /\ Decodes(got[1])
      <4>1. 1 \in 1..Len(got)
        BY <2>7, <3>1
      <4>2. got # <<>> /\ Head(got) = got[1]
        BY <2>2, <3>1
      <4> QED
        BY <2>3, <4>1, <4>2
    <3>3. history[got[1]] \in Nat /\ ~(history[got[1]] > MaxBytes)
      <4>1. 1 \in 1..Len(got)
        BY <2>7, <3>1
      <4> QED
        BY <1>12, <2>4, <3>2, <4>1
    <3>4. m > 0
      <4>1. history[got[1]] <= MaxBytes
        BY <1>3, <3>3
      <4> QED
        BY <2>5, <2>7, <3>1, <4>1
    <3>5. ASSUME NEW k \in 1..m PROVE bound.rows[k] = c.after + k /\ bound.rows[k] <= n
      <4>1. k \in 1..Len(got)
        BY <2>7
      <4>2. bound.rows[k] = c.after + k
        BY <2>5, <2>7, <3>1, <4>1 DEF From
      <4>3. c.after + k <= n
        <5>1. c.after \in Nat /\ n \in Nat /\ Len(got) \in Nat /\ c.after + Len(got) <= n
          BY <1>3, <2>7, <3>1
        <5> QED
          BY <4>1, <5>1
      <4> QED
        BY <4>2, <4>3
    <3>6. after = c.after + m
      <4>1. m \in 1..m /\ bound.rows # <<>>
        BY <2>7, <3>4
      <4>2. Last(bound.rows) = bound.rows[m]
        BY <2>7 DEF Last
      <4> QED
        BY <3>5, <4>1, <4>2 DEF after
    <3>7. Len(got) > m => c.after + m < n
      <4>1. c.after \in Nat /\ n \in Nat /\ Len(got) \in Nat /\ m \in Nat /\ c.after + Len(got) <= n
        BY <1>3, <2>7, <3>1
      <4> QED
        BY <4>1
    <3>8. hasMore <=> c.after + m < n
      BY <3>6, <3>7 DEF hasMore, m
    <3>9. c.after + m < n <=> c.after + m + 1 <= n
      BY <1>3, <2>7
    <3>10. m # 0 /\ m <= MaxCommits
      BY <2>5, <2>7, <3>4
    <3> QED
      BY <1>1, <2>5, <2>6, <2>7, <3>5, <3>8, <3>9, <3>10 DEF ValidPage, n
  <2> QED
    BY <1>1, <1>2, <2>1, <2>6, <2>8, <2>9, Answered
<1> QED
  BY <1>10, <1>11, <1>12

-----------------------------------------------------------------------------
(* The theorem.                                                            *)

LEMMA PagingInitIInv == PagingAssumption /\ PagingInit => PagingIInv
<1> SUFFICES ASSUME PagingAssumption, PagingInit PROVE PagingIInv
  OBVIOUS
<1>1. PICK n \in 1 .. MaxHistory - 1 :
        /\ history \in [1 .. n -> Sizes \cup {0}]
        /\ present \in SUBSET (1 .. n) /\ anchor \in 0 .. n
        /\ \A i \in 1 .. n : history[i] # 0 => i \in present
  BY DEF PagingInit
<1>2. n \in Nat /\ Sizes \cup {0} \in SUBSET Nat
  BY DEF PagingAssumption
<1>3. history \in Seq(Nat) /\ Len(history) = n
  <2>1. history \in [1 .. n -> Nat]
    BY <1>1, <1>2
  <2> QED
    BY <1>2, <2>1
<1>4. anchor \in Nat
  BY <1>1, <1>2
<1>5. /\ pass \in Pass /\ pass.phase = "idle" /\ pass.after = anchor /\ pass.from = anchor
      /\ pass.through = 0 /\ pass.pages = 0
  BY <1>4 DEF PagingInit, NewPass, NoPage, Pass, Page
<1>6. PagingTypeOK
  BY <1>1, <1>3, <1>4, <1>5 DEF PagingTypeOK, PagingInit
<1>7. PassHolds(pass)
  <2>1. (anchor + 1)..anchor = {} /\ 0 <= Len(history) /\ anchor <= anchor
    BY <1>2, <1>3, <1>4
  <2> QED
    BY <1>5, <2>1 DEF PassHolds
<1> QED
  BY <1>6, <1>7 DEF PagingIInv

LEMMA PagingNextIInv == PagingAssumption /\ PagingIInv /\ [PagingNext]_pageVars => PagingIInv'
<1> SUFFICES ASSUME PagingAssumption, PagingIInv, [PagingNext]_pageVars PROVE PagingIInv'
  OBVIOUS
<1>1. CASE UNCHANGED pageVars
  BY <1>1, PassMoves DEF pageVars, PagingIInv, PagingTypeOK
<1>2. CASE PagingNext
  BY <1>2, SourceCommitsIInv, ProbeIInv, OpenPageIInv, ClosePassIInv, ReadRowIInv, CursorEndsIInv,
     ReadIndexedIInv, DispatchNextIInv, DispatchFailsIInv, NextPassIInv DEF PagingNext
<1> QED
  BY <1>1, <1>2

(* With either reader, and a source that grows during the pass, a pass ends *)
(* short of its probed end only over a row it needs that is gone, malformed *)
(* or too large, or after all of its pages; what it dispatches is within    *)
(* both limits and in order, and nothing behind a gap is dispatched         *)
(* (sourceTailPoller.ts:155-185).                                           *)
THEOREM PagesCover == PagingSpec => []PagesCoverTheHistory
<1>1. PagingInit => PagingIInv
  BY PagingInitIInv, PagingAssumption
<1>2. PagingIInv /\ [PagingNext]_pageVars => PagingIInv'
  BY PagingNextIInv, PagingAssumption
<1>3. PagingIInv => PagesCoverTheHistory
  <2> SUFFICES ASSUME PagingIInv PROVE PagesCoverTheHistory
    OBVIOUS
  <2>1. PICK c : c = pass
    OBVIOUS
  <2>2. c \in Pass /\ PassHolds(c)
    BY <2>1 DEF PagingIInv, PagingTypeOK
  <2>3. \A i \in (anchor + 1)..c.after : Decodes(i) /\ history[i] <= MaxBytes
    BY <2>2 DEF PassHolds, Fits
  <2>4. c.phase = "unavailable" =>
          \E i \in {i \in c.after + 1 .. c.through : i <= c.after + MaxCommits + 1} : ~Decodes(i)
    BY <2>2 DEF PassHolds, Missed
  <2>5. c.phase = "dispatching" =>
          /\ Len(c.page.rows) <= MaxCommits /\ c.page.bytes <= MaxBytes
          /\ \A k \in DOMAIN c.todo : c.todo[k] = c.after + k
    <3>1. DOMAIN c.todo = 1..Len(c.todo)
      BY <2>2 DEF Pass
    <3> QED
      BY <2>2, <3>1 DEF PassHolds, From
  <2>6. /\ c.phase = "oversized" => history[c.after + 1] > MaxBytes
        /\ c.phase # "stalled"
        /\ c.phase = "continuation" => c.after >= c.from + MaxPages
    BY <2>2 DEF PassHolds
  <2> QED
    BY <2>1, <2>3, <2>4, <2>5, <2>6 DEF PagesCoverTheHistory
<1> QED
  BY <1>1, <1>2, <1>3, PTL DEF PagingSpec
=============================================================================
