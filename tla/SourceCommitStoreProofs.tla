----------------------- MODULE SourceCommitStoreProofs ------------------------
(***************************************************************************)
(* Proofs about SourceCommitStore, for any workers, sources, documents,     *)
(* links, logs and faults.  What a reduction computes is proved by an       *)
(* induction over the events of a commit: the library's induction theorems  *)
(* take an operator, so it rests on a set of naturals that has a least      *)
(* element.  StoreIInv is the invariant of documents, progress and           *)
(* executions; LaneIInv that of the lanes and the attempts.                  *)
(***************************************************************************)
EXTENDS SourceCommitStore, FiniteSetTheorems, SequenceTheorems, WellFoundedInduction, TLAPS

-----------------------------------------------------------------------------
(* Induction over natural numbers, and folds.                              *)

LEMMA LeastNatural ==
  ASSUME NEW T \in SUBSET Nat, T # {}
  PROVE  \E x \in T : \A y \in T : x <= y
<1>1. \E x \in T : \A y \in T : ~ (<<y, x>> \in OpToRel(<, Nat))
  BY NatLessThanWellFounded, WFMin
<1>2. ASSUME NEW x \in T, NEW y \in T, ~ (<<y, x>> \in OpToRel(<, Nat)) PROVE x <= y
  <2>1. x \in Nat /\ y \in Nat
    OBVIOUS
  <2>2. ~ (y < x)
    BY <1>2, <2>1 DEF OpToRel
  <2> QED
    BY <2>1, <2>2
<1> QED
  BY <1>1, <1>2

(* A set of naturals that holds 0 and, up to n, the successors of its        *)
(* members, holds all of them up to n.                                       *)
LEMMA UpTo ==
  ASSUME NEW n \in Nat, NEW T, 0 \in T, \A k \in Nat : k < n /\ k \in T => k + 1 \in T
  PROVE  \A k \in 0..n : k \in T
<1> DEFINE missing == {k \in 0..n : k \notin T}
<1>1. SUFFICES ASSUME missing # {} PROVE FALSE
  OBVIOUS
<1>2. PICK k \in missing : \A j \in missing : k <= j
  <2>1. missing \in SUBSET Nat
    OBVIOUS
  <2> HIDE DEF missing
  <2> QED
    BY <1>1, <2>1, LeastNatural
<1>3. k \in Nat /\ k # 0 /\ k <= n /\ k \notin T
  OBVIOUS
<1>4. k - 1 \in Nat /\ k - 1 < n /\ k - 1 \in 0..n /\ ~ (k <= k - 1) /\ (k - 1) + 1 = k
  BY <1>3
<1>5. k - 1 \in T
  BY <1>2, <1>4
<1> QED
  BY <1>3, <1>4, <1>5

LEMMA MaxOfPrefix ==
  ASSUME NEW m \in Nat, NEW x \in SUBSET (1..(m + 1)), m + 1 \in x
  PROVE  Max(x) = m + 1 /\ x \ {m + 1} \in SUBSET (1..m)
<1>1. \A y \in x : y \in Nat /\ y <= m + 1
  OBVIOUS
<1>2. \A y \in x : (\A z \in x : y >= z) => y = m + 1
  BY <1>1
<1>3. \A z \in x : m + 1 >= z
  BY <1>1
<1>4. Max(x) = m + 1
  BY <1>2, <1>3 DEF Max
<1> QED
  BY <1>1, <1>4

(* The folds of ApplyEvent and ApplyHandler, and both element by element.    *)
FoldEvents(s, c, docs, base, q) ==
  FoldLeft(LAMBDA red, i : ApplyEvent(red, Log[s][c][i], <<s, c, i>>, docs), base, q)

FoldHandlers(e, id, base, q) == FoldLeft(LAMBDA r, t : ApplyHandler(r, e, id, t), base, q)

EventsTrace(it, s, c, docs, base, n, q) ==
  /\ it[0] = base
  /\ \A k \in 1..n : it[k] = ApplyEvent(it[k - 1], Log[s][c][q[k]], <<s, c, q[k]>>, docs)
  /\ FoldEvents(s, c, docs, base, q) = it[n]

HandlersTrace(it, e, id, base, n, q) ==
  /\ it[0] = base
  /\ \A k \in 1..n : it[k] = ApplyHandler(it[k - 1], e, id, q[k])
  /\ FoldHandlers(e, id, base, q) = it[n]

LEMMA EventsFold ==
  ASSUME NEW s, NEW c, NEW docs, NEW base, NEW n \in Nat, NEW q, DOMAIN q = 1..n
  PROVE  \E it : EventsTrace(it, s, c, docs, base, n, q)
<1> DEFINE Step(r, k) == ApplyEvent(r, Log[s][c][q[k]], <<s, c, q[k]>>, docs)
           Folds(f, m) == f = [x \in SUBSET (1..m) |->
                                 IF x = {} THEN base ELSE Step(f[x \ {Max(x)}], Max(x))]
           T == {m \in Nat : \E f : Folds(f, m)}
<1>1. 0 \in T
  <2>1. Folds([x \in SUBSET (1..0) |-> base], 0)
    OBVIOUS
  <2> QED
    BY <2>1
<1>2. ASSUME NEW m \in Nat, m \in T PROVE m + 1 \in T
  <2>1. PICK f : Folds(f, m)
    BY <1>2
  <2> HIDE DEF Step
  <2>2. \A x \in SUBSET (1..m) : f[x] = IF x = {} THEN base ELSE Step(f[x \ {Max(x)}], Max(x))
    BY <2>1
  <2> DEFINE g == [x \in SUBSET (1..(m + 1)) |->
                     IF m + 1 \in x THEN Step(f[x \ {m + 1}], m + 1) ELSE f[x]]
  <2>3. ASSUME NEW x \in SUBSET (1..(m + 1))
        PROVE  g[x] = IF x = {} THEN base ELSE Step(g[x \ {Max(x)}], Max(x))
    <3>1. CASE m + 1 \in x
      <4>1. Max(x) = m + 1 /\ x \ {m + 1} \in SUBSET (1..m) /\ m + 1 \notin x \ {m + 1}
        BY <3>1, MaxOfPrefix
      <4>2. x \ {m + 1} \in SUBSET (1..(m + 1))
        OBVIOUS
      <4> QED
        BY <3>1, <4>1, <4>2
    <3>2. CASE m + 1 \notin x
      <4>0. \A y \in 1..(m + 1) : y # m + 1 => y \in 1..m
        OBVIOUS
      <4>1. x \in SUBSET (1..m) /\ x \ {Max(x)} \in SUBSET (1..(m + 1)) /\ m + 1 \notin x \ {Max(x)}
        BY <3>2, <4>0
      <4> QED
        BY <3>2, <4>1, <2>2
    <3> QED
      BY <3>1, <3>2
  <2>4. Folds(g, m + 1)
    BY <2>3
  <2> HIDE DEF Folds, g
  <2>5. \E h : Folds(h, m + 1)
    BY <2>4
  <2> QED
    BY <2>5
<1> HIDE DEF T
<1>3. n \in T
  <2>1. \A k \in 0..n : k \in T
    BY <1>1, <1>2, UpTo
  <2> QED
    BY <2>1
<1> DEFINE f == CHOOSE f : Folds(f, n)
<1>4. Folds(f, n)
  BY <1>3 DEF T
<1>5. FoldEvents(s, c, docs, base, q) = f[1..n]
  BY DEF FoldEvents, FoldLeft, MapThenFoldSet
<1> HIDE DEF f, Step
<1>6. \A x \in SUBSET (1..n) : f[x] = IF x = {} THEN base ELSE Step(f[x \ {Max(x)}], Max(x))
  BY <1>4
<1> DEFINE it == [k \in 0..n |-> f[1..k]]
<1>7. it[0] = base
  <2>1. 1..0 = {} /\ 1..0 \in SUBSET (1..n)
    OBVIOUS
  <2>2. f[1..0] = base
    BY <2>1, <1>6
  <2> QED
    BY <2>2
<1>8. ASSUME NEW k \in 1..n PROVE it[k] = Step(it[k - 1], k)
  <2>1. k - 1 \in Nat /\ (k - 1) + 1 = k
    OBVIOUS
  <2>2. 1..k \in SUBSET (1..((k - 1) + 1)) /\ (k - 1) + 1 \in 1..k
    BY <2>1
  <2>3. Max(1..k) = k
    BY <2>1, <2>2, MaxOfPrefix
  <2>4. (1..k) \ {k} = 1..(k - 1) /\ 1..k \in SUBSET (1..n) /\ 1..k # {} /\ k - 1 \in 0..n
    BY <2>1
  <2>5. f[1..k] = Step(f[1..(k - 1)], k)
    BY <2>3, <2>4, <1>6
  <2>6. it[k] = f[1..k] /\ it[k - 1] = f[1..(k - 1)]
    BY <2>4
  <2> QED
    BY <2>5, <2>6
<1>9. it[n] = f[1..n]
  OBVIOUS
<1> QED
  BY <1>5, <1>7, <1>8, <1>9 DEF Step, EventsTrace

LEMMA HandlersFold ==
  ASSUME NEW e, NEW id, NEW base, NEW n \in Nat, NEW q, DOMAIN q = 1..n
  PROVE  \E it : HandlersTrace(it, e, id, base, n, q)
<1> DEFINE Step(r, k) == ApplyHandler(r, e, id, q[k])
           Folds(f, m) == f = [x \in SUBSET (1..m) |->
                                 IF x = {} THEN base ELSE Step(f[x \ {Max(x)}], Max(x))]
           T == {m \in Nat : \E f : Folds(f, m)}
<1>1. 0 \in T
  <2>1. Folds([x \in SUBSET (1..0) |-> base], 0)
    OBVIOUS
  <2> QED
    BY <2>1
<1>2. ASSUME NEW m \in Nat, m \in T PROVE m + 1 \in T
  <2>1. PICK f : Folds(f, m)
    BY <1>2
  <2> HIDE DEF Step
  <2>2. \A x \in SUBSET (1..m) : f[x] = IF x = {} THEN base ELSE Step(f[x \ {Max(x)}], Max(x))
    BY <2>1
  <2> DEFINE g == [x \in SUBSET (1..(m + 1)) |->
                     IF m + 1 \in x THEN Step(f[x \ {m + 1}], m + 1) ELSE f[x]]
  <2>3. ASSUME NEW x \in SUBSET (1..(m + 1))
        PROVE  g[x] = IF x = {} THEN base ELSE Step(g[x \ {Max(x)}], Max(x))
    <3>1. CASE m + 1 \in x
      <4>1. Max(x) = m + 1 /\ x \ {m + 1} \in SUBSET (1..m) /\ m + 1 \notin x \ {m + 1}
        BY <3>1, MaxOfPrefix
      <4>2. x \ {m + 1} \in SUBSET (1..(m + 1))
        OBVIOUS
      <4> QED
        BY <3>1, <4>1, <4>2
    <3>2. CASE m + 1 \notin x
      <4>0. \A y \in 1..(m + 1) : y # m + 1 => y \in 1..m
        OBVIOUS
      <4>1. x \in SUBSET (1..m) /\ x \ {Max(x)} \in SUBSET (1..(m + 1)) /\ m + 1 \notin x \ {Max(x)}
        BY <3>2, <4>0
      <4> QED
        BY <3>2, <4>1, <2>2
    <3> QED
      BY <3>1, <3>2
  <2>4. Folds(g, m + 1)
    BY <2>3
  <2> HIDE DEF Folds, g
  <2>5. \E h : Folds(h, m + 1)
    BY <2>4
  <2> QED
    BY <2>5
<1> HIDE DEF T
<1>3. n \in T
  <2>1. \A k \in 0..n : k \in T
    BY <1>1, <1>2, UpTo
  <2> QED
    BY <2>1
<1> DEFINE f == CHOOSE f : Folds(f, n)
<1>4. Folds(f, n)
  BY <1>3 DEF T
<1>5. FoldHandlers(e, id, base, q) = f[1..n]
  BY DEF FoldHandlers, FoldLeft, MapThenFoldSet
<1> HIDE DEF f, Step
<1>6. \A x \in SUBSET (1..n) : f[x] = IF x = {} THEN base ELSE Step(f[x \ {Max(x)}], Max(x))
  BY <1>4
<1> DEFINE it == [k \in 0..n |-> f[1..k]]
<1>7. it[0] = base
  <2>1. 1..0 = {} /\ 1..0 \in SUBSET (1..n)
    OBVIOUS
  <2>2. f[1..0] = base
    BY <2>1, <1>6
  <2> QED
    BY <2>2
<1>8. ASSUME NEW k \in 1..n PROVE it[k] = Step(it[k - 1], k)
  <2>1. k - 1 \in Nat /\ (k - 1) + 1 = k
    OBVIOUS
  <2>2. 1..k \in SUBSET (1..((k - 1) + 1)) /\ (k - 1) + 1 \in 1..k
    BY <2>1
  <2>3. Max(1..k) = k
    BY <2>1, <2>2, MaxOfPrefix
  <2>4. (1..k) \ {k} = 1..(k - 1) /\ 1..k \in SUBSET (1..n) /\ 1..k # {} /\ k - 1 \in 0..n
    BY <2>1
  <2>5. f[1..k] = Step(f[1..(k - 1)], k)
    BY <2>3, <2>4, <1>6
  <2>6. it[k] = f[1..k] /\ it[k - 1] = f[1..(k - 1)]
    BY <2>4
  <2> QED
    BY <2>5, <2>6
<1>9. it[n] = f[1..n]
  OBVIOUS
<1> QED
  BY <1>5, <1>7, <1>8, <1>9 DEF Step, HandlersTrace

(* The documents put in order are all there, each once.                      *)
LEMMA Ordered ==
  ASSUME NEW D \in SUBSET Nat, IsFiniteSet(D)
  PROVE  LET q == InOrder(D)
             n == Cardinality(D)
         IN /\ n \in Nat /\ q \in [1..n -> D]
            /\ \A i, j \in 1..n : i < j => q[i] < q[j]
            /\ \A t \in D : \E i \in 1..n : q[i] = t
<1> DEFINE Up(f, n) == \A i, j \in 1..n : i < j => f[i] < f[j]
           T == {n \in Nat : \A S \in SUBSET Nat : IsFiniteSet(S) /\ Cardinality(S) = n
                                => \E f \in [1..n -> S] : Up(f, n)}
<1>1. 0 \in T
  <2>1. ASSUME NEW S PROVE \E f \in [1..0 -> S] : Up(f, 0)
    <3>1. 1..0 = {}
      OBVIOUS
    <3>2. [x \in 1..0 |-> x] \in [1..0 -> S] /\ Up([x \in 1..0 |-> x], 0)
      BY <3>1
    <3> QED
      BY <3>2
  <2> QED
    BY <2>1
<1>2. ASSUME NEW m \in Nat, m \in T PROVE m + 1 \in T
  <2> SUFFICES ASSUME NEW S \in SUBSET Nat, IsFiniteSet(S), Cardinality(S) = m + 1
               PROVE  \E f \in [1..(m + 1) -> S] : Up(f, m + 1)
    OBVIOUS
  <2>1. S # {}
    BY FS_EmptySet
  <2>2. PICK x \in S : \A y \in S : x <= y
    BY <2>1, LeastNatural
  <2> DEFINE R == S \ {x}
  <2>3. R \in SUBSET Nat /\ IsFiniteSet(R) /\ Cardinality(R) = m
    <3>1. IsFiniteSet(R) /\ Cardinality(R) = Cardinality(S) - 1
      BY FS_RemoveElement
    <3>2. Cardinality(R) = (m + 1) - 1
      BY <3>1
    <3> QED
      BY <3>1, <3>2
  <2>4. PICK f \in [1..m -> R] : Up(f, m)
    BY <1>2, <2>3
  <2> DEFINE g == [i \in 1..(m + 1) |-> IF i = 1 THEN x ELSE f[i - 1]]
  <2>5. \A i \in 1..(m + 1) : i # 1 => i - 1 \in 1..m
    OBVIOUS
  <2>6. g \in [1..(m + 1) -> S]
    BY <2>5
  <2>7. ASSUME NEW i \in 1..(m + 1), NEW j \in 1..(m + 1), i < j PROVE g[i] < g[j]
    <3>1. j # 1 /\ j - 1 \in 1..m /\ f[j - 1] \in R
      BY <2>5, <2>7
    <3>2. f[j - 1] \in Nat /\ x \in Nat /\ x < f[j - 1]
      <4> DEFINE y == f[j - 1]
      <4>1. y \in S /\ y # x
        BY <3>1
      <4> HIDE DEF y
      <4>2. y \in Nat /\ x \in Nat /\ x <= y
        BY <2>2, <4>1
      <4>3. x < y
        BY <4>1, <4>2
      <4> QED
        BY <4>2, <4>3 DEF y
    <3>3. CASE i = 1
      BY <3>1, <3>2, <3>3
    <3>4. CASE i # 1
      <4>1. i - 1 \in 1..m /\ i - 1 < j - 1
        BY <2>5, <2>7, <3>4
      <4>2. f[i - 1] < f[j - 1]
        BY <3>1, <4>1, <2>4
      <4> QED
        BY <3>1, <3>4, <4>2
    <3> QED
      BY <3>3, <3>4
  <2> QED
    BY <2>6, <2>7
<1> HIDE DEF T
<1> DEFINE n == Cardinality(D)
           q == InOrder(D)
<1>3. n \in Nat
  BY FS_CardinalityType
<1>4. n \in T
  <2>1. \A k \in 0..n : k \in T
    BY <1>1, <1>2, <1>3, UpTo
  <2> QED
    BY <1>3, <2>1
<1>5. \E f \in [1..n -> D] : Up(f, n)
  BY <1>4 DEF T
<1>6. q \in [1..n -> D] /\ Up(q, n)
  BY <1>5 DEF InOrder
<1> HIDE DEF q, n
<1>7. q \in Injection(1..n, D)
  <2>1. ASSUME NEW i \in 1..n, NEW j \in 1..n, q[i] = q[j] PROVE i = j
    <3>1. i \in Int /\ j \in Int /\ q[i] \in Nat
      <4>1. q[i] \in D
        BY <1>6
      <4>2. q[i] \in Nat
        BY <4>1
      <4>3. i \in Int /\ j \in Int
        BY <1>3
      <4> QED
        BY <4>2, <4>3
    <3>2. ~ (i < j) /\ ~ (j < i)
      BY <1>6, <2>1, <3>1
    <3> QED
      BY <3>1, <3>2
  <2> QED
    BY <1>6, <2>1 DEF Injection, IsInjective
<1>8. IsFiniteSet(1..n) /\ Cardinality(1..n) = n
  BY <1>3, FS_Interval
<1>9. q \in Surjection(1..n, D)
  BY <1>7, <1>8, FS_Injection DEF n
<1>10. \A t \in D : \E i \in 1..n : q[i] = t
  BY <1>9 DEF Surjection
<1> QED
  BY <1>3, <1>6, <1>10 DEF q, n
-----------------------------------------------------------------------------
(* Types.                                                                  *)

Ids == Sources \X Nat \X Nat
DocRow == [rev : Nat, content : Seq(Ids), marker : [Sources -> Nat]]
LinkRow == [target : Docs \cup {NoDoc}, rev : Nat]
DocMaps == UNION {[D -> DocRow] : D \in SUBSET Docs}
LinkMaps == UNION {[L -> LinkRow] : L \in SUBSET Links}
Contents == UNION {[D -> Seq(Ids)] : D \in SUBSET Docs}
Plans == [content : Contents, links : LinkMaps, staged : LinkMaps,
          touched : SUBSET Docs, missingDocs : SUBSET Docs, missingLinks : SUBSET Links]
Row == [pc : {"idle", "initial", "reserve", "waiting", "load", "commit", "reconcile"},
        c : Nat, targets : SUBSET Docs, links : SUBSET Links,
        docs : DocMaps, lks : LinkMaps, own : Nat, plan : Plans \cup {Nothing},
        attempt : Nat, conflicts : Nat]

StoreTypeOK ==
  /\ doc \in [Docs -> DocRow]
  /\ link \in [Links -> LinkRow]
  /\ own \in [Sources -> Nat]
  /\ done \in [Sources -> Nat]
  /\ task \in [Workers -> [Sources -> Row]]

-----------------------------------------------------------------------------
(* The inductive invariant.                                                *)

(* What the progress says of the document: its commits up to there are folded. *)
Reached(s, t) == IF Strategy = "own_record" THEN own[s] ELSE doc[t].marker[s]

(* The content of one source in one document. *)
InLogOrder(content, s) ==
  \A i, j \in DOMAIN content :
    i < j /\ content[i][1] = s /\ content[j][1] = s => Earlier(content[i], content[j])

NoneBeyond(content, s, n) ==
  \A i \in DOMAIN content : content[i][1] = s => content[i][2] <= n

Has(content, s, c, t) ==
  \A i \in DOMAIN Log[s][c] : t \in Log[s][c][i].to => Contains(content, <<s, c, i>>)

ProgressHolds(s) ==
  /\ done[s] <= Len(Log[s]) /\ own[s] <= Len(Log[s])
  /\ Strategy = "own_record" => done[s] <= own[s]

ContentHolds(s, t) ==
  /\ InLogOrder(doc[t].content, s)
  /\ NoneBeyond(doc[t].content, s, Reached(s, t))
  /\ \A c \in Commits(s) : c <= Reached(s, t) \/ c <= done[s] => Has(doc[t].content, s, c, t)

(* A document read is the document that stands, or an older revision of it. *)
Seen(d, t) ==
  /\ d.rev <= doc[t].rev
  /\ d.rev = doc[t].rev => d = doc[t]
  /\ \A s \in Sources : d.marker[s] <= doc[t].marker[s]

RowHolds(x, s) ==
  /\ x.pc # "idle" => x.c \in Commits(s) /\ x.c <= done[s] + 1
  /\ \A t \in DOMAIN x.docs : Seen(x.docs[t], t)
  /\ x.pc \in {"initial", "reserve", "waiting", "load", "commit"} => RoutingLinks(Log[s][x.c]) \subseteq x.links
  /\ x.pc = "commit" => DOMAIN x.lks = x.links
  /\ x.pc \in {"commit", "reconcile"} =>
       /\ x.plan = Reduce(s, x.c, x.docs, x.lks)
       /\ ~NeedsSnapshot(x.plan)
       /\ Strategy = "own_record" => x.own < x.c
  /\ x.pc = "reconcile" /\ Strategy = "in_document" =>
       \A t \in x.plan.touched \ x.targets : x.c <= doc[t].marker[s]

StoreIInv ==
  /\ StoreTypeOK
  /\ \A s \in Sources : ProgressHolds(s)
  /\ \A s \in Sources, t \in Docs : ContentHolds(s, t)
  /\ \A w \in Workers, s \in Sources : RowHolds(task[w][s], s)

-----------------------------------------------------------------------------
(* The lanes of one worker, and the attempts of one execution.              *)

In(q, a) == \E i \in DOMAIN q : q[i] = a

Before(q, a, b) == \E i, j \in DOMAIN q : i < j /\ q[i] = a /\ q[j] = b

NoneTwice(q) == \A i, j \in DOMAIN q : q[i] = q[j] => i = j

Queued == {"waiting", "load", "commit", "reconcile"}
Holding == {"load", "commit", "reconcile"}

(* No execution holds a target lane that one before it in the queue asked for. *)
Lanes(q, rows) ==
  /\ q \in Seq(Sources) /\ NoneTwice(q)
  /\ \A a \in Sources : In(q, a) <=> rows[a].pc \in Queued
  /\ \A a, b \in Sources : Before(q, a, b) /\ rows[b].pc \in Holding
                             => rows[a].targets \cap rows[b].targets = {}

(* What has been read is under the lanes, and only others write it.          *)
ReadHolds(x, w) ==
  /\ x.pc \in {"initial", "reserve", "waiting"} => x.docs = Nothing
  /\ x.pc \in {"load", "commit"} =>
       /\ DOMAIN x.docs \subseteq x.targets
       /\ \A t \in DOMAIN x.docs : doc[t].rev # x.docs[t].rev => writer[t] # w

StagedLinks(commit) == {commit[i].link : i \in DOMAIN commit}

(* Every attempt after the first has a conflict, a document or a link to show. *)
RoomHolds(x, commit) ==
  /\ x.pc = "initial" => x.conflicts = 0 /\ x.links = RoutingLinks(commit)
  /\ x.pc \in {"reserve", "waiting", "load", "commit"} =>
       /\ OwnTargets(commit) \subseteq x.targets
       /\ x.links \subseteq RoutingLinks(commit) \cup StagedLinks(commit)
       /\ x.conflicts <= MaxConflictRetries
       /\ x.attempt <= 1 + x.conflicts + Cardinality(x.targets \ OwnTargets(commit))
                         + Cardinality(x.links \ RoutingLinks(commit))

LaneIInv ==
  /\ queue \in [Workers -> Seq(Sources)]
  /\ \A w \in Workers : Lanes(queue[w], task[w])
  /\ \A w \in Workers, s \in Sources :
       ReadHolds(task[w][s], w) /\ RoomHolds(task[w][s], Log[s][task[w][s].c])

-----------------------------------------------------------------------------
(* What a reduction does to its documents.                                 *)

LEMMA WithRow ==
  ASSUME NEW map \in LinkMaps, NEW l \in Links, NEW row \in LinkRow
  PROVE  With(map, l, row) \in LinkMaps
<1>1. PICK L \in SUBSET Links : map \in [L -> LinkRow]
  BY DEF LinkMaps
<1>2. With(map, l, row) \in [L \cup {l} -> LinkRow] /\ L \cup {l} \in SUBSET Links
  BY <1>1 DEF With
<1> QED
  BY <1>2 DEF LinkMaps

LEMMA WithDoc ==
  ASSUME NEW map \in DocMaps, NEW t \in Docs, NEW row \in DocRow
  PROVE  With(map, t, row) \in DocMaps
<1>1. PICK D \in SUBSET Docs : map \in [D -> DocRow]
  BY DEF DocMaps
<1>2. With(map, t, row) \in [D \cup {t} -> DocRow] /\ D \cup {t} \in SUBSET Docs
  BY <1>1 DEF With
<1> QED
  BY <1>2 DEF DocMaps

LEMMA Retargeted ==
  ASSUME NEW map \in LinkMaps, NEW l \in DOMAIN map, NEW target \in Docs \cup {NoDoc}
  PROVE  [map EXCEPT ![l].target = target] \in LinkMaps
<1>1. PICK L \in SUBSET Links : map \in [L -> LinkRow]
  BY DEF LinkMaps
<1>2. map[l] \in LinkRow
  BY <1>1
<1>3. [map[l] EXCEPT !.target = target] \in LinkRow
  BY <1>2 DEF LinkRow
<1>4. [map EXCEPT ![l].target = target] \in [L -> LinkRow]
  BY <1>1, <1>3
<1> QED
  BY <1>4 DEF LinkMaps

(* What an event whose handlers stage link l does to the links.              *)
LinksGrow(r, red, l) ==
  /\ DOMAIN red.links \subseteq DOMAIN r.links
  /\ red.missingLinks \subseteq r.missingLinks
  /\ \A m \in r.missingLinks : m \in red.missingLinks \/ (m = l /\ m \notin DOMAIN red.links)

LEMMA Staging ==
  ASSUME NEW red \in Plans, NEW e \in Event, NEW t \in Docs
  PROVE  /\ StageLink(red, e, t) \in Plans
         /\ StageLink(red, e, t).content = red.content
         /\ StageLink(red, e, t).touched = red.touched
         /\ StageLink(red, e, t).missingDocs = red.missingDocs
         /\ LinksGrow(StageLink(red, e, t), red, e.link)
<1> DEFINE target == IF e.op = "subscribe" THEN t ELSE NoDoc
<1>1. CASE e.op = "none"
  BY <1>1 DEF StageLink, LinksGrow
<1>2. CASE e.op # "none" /\ e.link \notin DOMAIN red.links
  <2>1. e.link \in Links /\ target \in Docs \cup {NoDoc}
    BY <1>2 DEF Event
  <2> HIDE DEF target
  <2>2. [target |-> target, rev |-> 0] \in LinkRow
    BY <2>1 DEF LinkRow
  <2>3. red.links \in LinkMaps /\ red.missingLinks \in SUBSET Links
    BY DEF Plans
  <2> DEFINE lks == With(red.links, e.link, [target |-> target, rev |-> 0])
             mls == red.missingLinks \cup {e.link}
  <2>4. lks \in LinkMaps
    BY <2>1, <2>2, <2>3, WithRow
  <2>5. mls \in SUBSET Links /\ red.missingLinks \subseteq mls /\ \A m \in mls : m \in red.missingLinks \/ m = e.link
    BY <2>1, <2>3
  <2>7. DOMAIN red.links \subseteq DOMAIN lks
    BY DEF With
  <2>6. StageLink(red, e, t) = [red EXCEPT !.missingLinks = mls, !.links = lks]
    BY <1>2 DEF StageLink, target
  <2> HIDE DEF lks, mls
  <2> QED
    BY <1>2, <2>4, <2>5, <2>6, <2>7 DEF Plans, LinksGrow
<1>3. CASE e.op # "none" /\ e.link \in DOMAIN red.links
  <2>1. e.link \in Links /\ target \in Docs \cup {NoDoc}
    BY <1>3 DEF Event
  <2> HIDE DEF target
  <2>2. red.links \in LinkMaps /\ red.staged \in LinkMaps
    BY DEF Plans
  <2>3. red.links[e.link].rev \in Nat
    <3>1. PICK L \in SUBSET Links : red.links \in [L -> LinkRow]
      BY <2>2 DEF LinkMaps
    <3>2. red.links[e.link] \in LinkRow
      BY <1>3, <3>1
    <3> QED
      BY <3>2 DEF LinkRow
  <2> DEFINE lks == [red.links EXCEPT ![e.link].target = target]
             stg == With(red.staged, e.link, [target |-> target, rev |-> red.links[e.link].rev])
  <2>4. lks \in LinkMaps
    BY <1>3, <2>1, <2>2, Retargeted
  <2>5. stg \in LinkMaps
    <3>1. [target |-> target, rev |-> red.links[e.link].rev] \in LinkRow
      BY <2>1, <2>3 DEF LinkRow
    <3> QED
      BY <2>1, <2>2, <3>1, WithRow
  <2>6. StageLink(red, e, t) = [red EXCEPT !.staged = stg, !.links = lks]
    BY <1>3 DEF StageLink, target
  <2>7. DOMAIN red.links \subseteq DOMAIN lks
    OBVIOUS
  <2> HIDE DEF lks, stg
  <2> QED
    BY <2>4, <2>5, <2>6, <2>7 DEF Plans, LinksGrow
<1> QED
  BY <1>1, <1>2, <1>3

(* The document a handler runs on, before the handler stages a link.         *)
Marked(red, id, t) == [red EXCEPT !.touched = @ \cup {t}, !.content[t] = Append(@, id)]

LEMMA Marking ==
  ASSUME NEW red \in Plans, NEW id \in Ids, NEW t \in DOMAIN red.content
  PROVE  LET b == Marked(red, id, t) IN
         /\ b \in Plans /\ t \in Docs
         /\ b.content = [red.content EXCEPT ![t] = Append(@, id)]
         /\ b.touched = red.touched \cup {t}
         /\ b.missingDocs = red.missingDocs /\ b.missingLinks = red.missingLinks
         /\ b.links = red.links /\ b.staged = red.staged
<1> DEFINE cnt == [red.content EXCEPT ![t] = Append(@, id)]
           tch == red.touched \cup {t}
           b == Marked(red, id, t)
<1>1. PICK D \in SUBSET Docs : red.content \in [D -> Seq(Ids)]
  BY DEF Plans, Contents
<1>2. cnt \in Contents /\ t \in Docs
  <2>1. Append(red.content[t], id) \in Seq(Ids)
    BY <1>1
  <2>2. cnt \in [D -> Seq(Ids)]
    BY <1>1, <2>1
  <2> QED
    BY <1>1, <2>2 DEF Contents
<1>3. tch \in SUBSET Docs
  BY <1>2 DEF Plans
<1>4. b = [red EXCEPT !.touched = tch, !.content = cnt]
  BY DEF Marked
<1> HIDE DEF b, cnt, tch
<1>5. /\ b \in Plans /\ b.content = cnt /\ b.touched = tch
      /\ b.missingDocs = red.missingDocs /\ b.missingLinks = red.missingLinks
      /\ b.links = red.links /\ b.staged = red.staged
  BY <1>2, <1>3, <1>4 DEF Plans
<1> QED
  BY <1>2, <1>5 DEF b, cnt, tch

LEMMA Handling ==
  ASSUME NEW red \in Plans, NEW e \in Event, NEW id \in Ids, NEW t \in DOMAIN red.content
  PROVE  /\ ApplyHandler(red, e, id, t) \in Plans
         /\ ApplyHandler(red, e, id, t).content = [red.content EXCEPT ![t] = Append(@, id)]
         /\ ApplyHandler(red, e, id, t).touched = red.touched \cup {t}
         /\ ApplyHandler(red, e, id, t).missingDocs = red.missingDocs
         /\ LinksGrow(ApplyHandler(red, e, id, t), red, e.link)
<1>1. ApplyHandler(red, e, id, t) = StageLink(Marked(red, id, t), e, t)
  BY DEF ApplyHandler, Marked
<1>2. /\ Marked(red, id, t) \in Plans /\ t \in Docs
      /\ Marked(red, id, t).content = [red.content EXCEPT ![t] = Append(@, id)]
      /\ Marked(red, id, t).touched = red.touched \cup {t}
      /\ Marked(red, id, t).missingDocs = red.missingDocs
      /\ Marked(red, id, t).missingLinks = red.missingLinks
      /\ Marked(red, id, t).links = red.links
  BY Marking
<1>3. LinksGrow(ApplyHandler(red, e, id, t), red, e.link)
  <2>1. LinksGrow(StageLink(Marked(red, id, t), e, t), Marked(red, id, t), e.link)
    BY <1>2, Staging
  <2> QED
    BY <1>1, <1>2, <2>1 DEF LinksGrow
<1> QED
  BY <1>1, <1>2, <1>3, Staging

(* All the handlers of one event: each of its documents gets the event once,  *)
(* the others keep what they have.                                           *)
Handled(r, base, K, id, l) ==
  /\ r \in Plans
  /\ DOMAIN r.content = DOMAIN base.content
  /\ r.touched = base.touched \cup K
  /\ r.missingDocs = base.missingDocs
  /\ LinksGrow(r, base, l)
  /\ \A t \in DOMAIN base.content :
       r.content[t] = IF t \in K THEN Append(base.content[t], id) ELSE base.content[t]

LEMMA HandlersReach ==
  ASSUME NEW base \in Plans, NEW e \in Event, NEW id \in Ids, NEW K, K \subseteq DOMAIN base.content
  PROVE  Handled(FoldHandlers(e, id, base, InOrder(K)), base, K, id, e.link)
<1> DEFINE D == DOMAIN base.content
           q == InOrder(K)
           n == Cardinality(K)
<1>1. D \in SUBSET Docs /\ K \in SUBSET Nat /\ IsFiniteSet(K)
  <2>1. base.content \in Contents
    BY DEF Plans
  <2>2. D \in SUBSET Docs
    BY <2>1 DEF Contents
  <2>3. K \in SUBSET Docs
    BY <2>2
  <2> QED
    BY <2>2, <2>3, StoreAssumption, FS_Subset
<1>2. /\ n \in Nat /\ q \in [1..n -> K]
      /\ \A i, j \in 1..n : i < j => q[i] < q[j]
      /\ \A t \in K : \E i \in 1..n : q[i] = t
  BY <1>1, Ordered
<1> HIDE DEF q, n
<1>3. PICK it : HandlersTrace(it, e, id, base, n, q)
  <2>1. n \in Nat /\ DOMAIN q = 1..n
    BY <1>2
  <2> QED
    BY <2>1, HandlersFold, Zenon
<1> DEFINE Part(k) == {q[i] : i \in 1..k}
           T == {k \in Nat : k <= n => Handled(it[k], base, Part(k), id, e.link)}
<1>4. 0 \in T
  <2>1. Part(0) = {}
    OBVIOUS
  <2> HIDE DEF Part
  <2>2. Handled(base, base, {}, id, e.link)
    BY DEF Handled, LinksGrow
  <2> QED
    BY <1>3, <2>1, <2>2 DEF HandlersTrace
<1>5. ASSUME NEW k \in Nat, k < n, k \in T PROVE k + 1 \in T
  <2> DEFINE r == it[k]
             t == q[k + 1]
             r2 == it[k + 1]
  <2>1. k + 1 \in 1..n /\ (k + 1) - 1 = k /\ k <= n
    BY <1>2, <1>5
  <2>2. Handled(r, base, Part(k), id, e.link)
    BY <1>5, <2>1
  <2>3. t \in K /\ t \in D
    BY <1>2, <2>1
  <2>4. t \notin Part(k)
    <3>1. ASSUME NEW i \in 1..k PROVE q[i] # t
      <4>1. i \in 1..n /\ i < k + 1
        BY <2>1, <1>2
      <4>2. q[i] < q[k + 1]
        BY <4>1, <2>1, <1>2
      <4>3. q[i] \in Nat /\ q[k + 1] \in Nat
        BY <4>1, <2>1, <1>1, <1>2
      <4> QED
        BY <4>2, <4>3
    <3> QED
      BY <3>1
  <2>5. Part(k + 1) = Part(k) \cup {t}
    <3>1. \A i \in 1..(k + 1) : i # k + 1 => i \in 1..k
      OBVIOUS
    <3>2. \A i \in 1..k : i \in 1..(k + 1)
      OBVIOUS
    <3>3. k + 1 \in 1..(k + 1)
      OBVIOUS
    <3> QED
      BY <3>1, <3>2, <3>3
  <2>6. r2 = ApplyHandler(r, e, id, t)
    BY <1>3, <2>1 DEF HandlersTrace
  <2> HIDE DEF r, r2, t, Part, D
  <2>7. r \in Plans /\ DOMAIN r.content = D /\ t \in D
    BY <2>2, <2>3 DEF Handled, D
  <2>8. /\ r2 \in Plans
        /\ r2.content = [r.content EXCEPT ![t] = Append(@, id)]
        /\ r2.touched = r.touched \cup {t}
        /\ r2.missingDocs = r.missingDocs /\ LinksGrow(r2, r, e.link)
    BY <2>6, <2>7, <1>1, Handling
  <2>9. Handled(r2, base, Part(k + 1), id, e.link)
    <3>1. DOMAIN r2.content = D
      BY <2>7, <2>8
    <3>2. r2.touched = base.touched \cup Part(k + 1)
      BY <2>2, <2>5, <2>8 DEF Handled
    <3>3. ASSUME NEW u \in D
          PROVE r2.content[u] = IF u \in Part(k + 1) THEN Append(base.content[u], id) ELSE base.content[u]
      <4>1. r.content[u] = IF u \in Part(k) THEN Append(base.content[u], id) ELSE base.content[u]
        BY <2>2, <3>3 DEF Handled, D
      <4>2. r2.content[u] = IF u = t THEN Append(r.content[u], id) ELSE r.content[u]
        BY <2>7, <2>8
      <4> QED
        BY <4>1, <4>2, <2>4, <2>5
    <3>4. LinksGrow(r2, base, e.link)
      BY <2>2, <2>8 DEF Handled, LinksGrow
    <3> QED
      BY <2>2, <2>8, <3>1, <3>2, <3>3, <3>4 DEF Handled, D
  <2> QED
    BY <2>1, <2>9 DEF r2
<1> HIDE DEF T
<1>6. n \in T
  <2>1. \A k \in 0..n : k \in T
    BY <1>2, <1>4, <1>5, UpTo
  <2> QED
    BY <1>2, <2>1
<1>7. Handled(it[n], base, Part(n), id, e.link)
  BY <1>2, <1>6 DEF T
<1>8. Part(n) = K
  BY <1>2
<1> QED
  BY <1>3, <1>7, <1>8 DEF q, HandlersTrace

(* One event: the documents it may apply to get it, or are missing.          *)
EventTargets(red, s, c, e, docs) == {t \in RouteEvent(e, red.links) : CanApply(s, c, docs, t)}

AfterEvent(r, red, T, id, l) ==
  /\ r \in Plans
  /\ DOMAIN r.content = DOMAIN red.content
  /\ r.touched = red.touched \cup (T \cap DOMAIN red.content)
  /\ r.missingDocs = red.missingDocs \cup (T \ DOMAIN red.content)
  /\ LinksGrow(r, red, l)
  /\ \A t \in DOMAIN red.content :
       r.content[t] = IF t \in T THEN Append(red.content[t], id) ELSE red.content[t]

EventBase(red, T, D) == [red EXCEPT !.missingDocs = @ \cup (T \ (T \cap D))]

LEMMA RoutesAreDocs ==
  ASSUME NEW e \in Event, NEW lks \in LinkMaps
  PROVE  RouteEvent(e, lks) \subseteq Docs
<1>1. CASE e.via = NoLink
  BY <1>1 DEF RouteEvent, Event
<1>2. CASE e.via # NoLink /\ e.via \in DOMAIN lks
  <2>1. PICK L \in SUBSET Links : lks \in [L -> LinkRow]
    BY DEF LinkMaps
  <2>2. lks[e.via].target \in Docs \cup {NoDoc}
    BY <1>2, <2>1 DEF LinkRow
  <2> QED
    BY <1>2, <2>2 DEF RouteEvent
<1>3. CASE e.via # NoLink /\ e.via \notin DOMAIN lks
  BY <1>3 DEF RouteEvent
<1> QED
  BY <1>1, <1>2, <1>3

LEMMA EventUnfolds ==
  ASSUME NEW red, NEW s, NEW c, NEW i, NEW e, NEW docs
  PROVE  ApplyEvent(red, e, <<s, c, i>>, docs)
           = FoldHandlers(e, <<s, c, i>>,
                          EventBase(red, EventTargets(red, s, c, e, docs), DOMAIN docs),
                          InOrder(EventTargets(red, s, c, e, docs) \cap DOMAIN docs))
<1>1. <<s, c, i>>[1] = s /\ <<s, c, i>>[2] = c
  OBVIOUS
<1> QED
  BY <1>1 DEF ApplyEvent, FoldHandlers, EventBase, EventTargets, FoldLeft, MapThenFoldSet

LEMMA EventReaches ==
  ASSUME NEW red \in Plans, NEW s \in Sources, NEW c \in Nat, NEW i \in Nat, NEW e \in Event,
         NEW docs, DOMAIN red.content = DOMAIN docs
  PROVE  AfterEvent(ApplyEvent(red, e, <<s, c, i>>, docs), red,
                    EventTargets(red, s, c, e, docs), <<s, c, i>>, e.link)
<1> DEFINE id == <<s, c, i>>
           T == EventTargets(red, s, c, e, docs)
           D == DOMAIN docs
           base == EventBase(red, T, D)
           r == FoldHandlers(e, id, base, InOrder(T \cap D))
<1>1. id \in Ids
  BY DEF Ids
<1>2. T \subseteq Docs
  <2>1. red.links \in LinkMaps
    BY DEF Plans
  <2> QED
    BY <2>1, RoutesAreDocs DEF EventTargets
<1> HIDE DEF T
<1>3. /\ base \in Plans
      /\ base.content = red.content /\ base.touched = red.touched
      /\ base.missingDocs = red.missingDocs \cup (T \ D) /\ base.missingLinks = red.missingLinks
      /\ base.links = red.links
  <2> DEFINE md == red.missingDocs \cup (T \ (T \cap D))
  <2>1. md \in SUBSET Docs
    BY <1>2 DEF Plans
  <2>2. base = [red EXCEPT !.missingDocs = md]
    BY DEF EventBase
  <2>3. md = red.missingDocs \cup (T \ D)
    OBVIOUS
  <2> HIDE DEF base, md
  <2> QED
    BY <2>1, <2>2, <2>3 DEF Plans
<1> HIDE DEF id, base
<1>4. T \cap D \subseteq DOMAIN base.content
  BY <1>3
<1>5. Handled(r, base, T \cap D, id, e.link)
  BY <1>1, <1>3, <1>4, HandlersReach
<1>6. ApplyEvent(red, e, id, docs) = r
  BY EventUnfolds DEF base, T, id
<1> HIDE DEF r
<1>7. LinksGrow(r, red, e.link)
  BY <1>3, <1>5 DEF Handled, LinksGrow
<1>8. AfterEvent(r, red, T, id, e.link)
  BY <1>3, <1>5, <1>7 DEF Handled, AfterEvent
<1> QED
  BY <1>6, <1>8 DEF T, id

(* The content of a document once the first k events of commit c are folded.  *)
Grown(old, new, s, c, k) ==
  /\ Len(old) <= Len(new)
  /\ \A j \in 1..Len(old) : new[j] = old[j]
  /\ \A j \in 1..Len(new) : Len(old) < j => \E i \in 1..k : new[j] = <<s, c, i>>
  /\ \A j1, j2 \in 1..Len(new) : Len(old) < j1 /\ j1 < j2 => new[j1][3] < new[j2][3]

LEMMA GrownKept ==
  ASSUME NEW s, NEW c, NEW k \in Nat, NEW old, NEW new, Grown(old, new, s, c, k)
  PROVE  Grown(old, new, s, c, k + 1)
<1>1. \A i \in 1..k : i \in 1..(k + 1)
  OBVIOUS
<1> QED
  BY <1>1 DEF Grown

LEMMA GrownAppend ==
  ASSUME NEW s, NEW c, NEW k \in Nat, NEW old \in Seq(Ids), NEW new \in Seq(Ids),
         Grown(old, new, s, c, k)
  PROVE  Grown(old, Append(new, <<s, c, k + 1>>), s, c, k + 1)
<1> DEFINE m == Len(new)
           n == Len(old)
           x == <<s, c, k + 1>>
           out == Append(new, x)
<1>1. /\ m \in Nat /\ n \in Nat /\ Len(out) = m + 1 /\ out[m + 1] = x
      /\ \A j \in 1..m : out[j] = new[j]
  OBVIOUS
<1>2. /\ n <= m
      /\ \A j \in 1..n : new[j] = old[j]
      /\ \A j \in 1..m : n < j => \E i \in 1..k : new[j] = <<s, c, i>>
      /\ \A j1, j2 \in 1..m : n < j1 /\ j1 < j2 => new[j1][3] < new[j2][3]
  BY DEF Grown
<1>3. \A i \in 1..k : i \in 1..(k + 1)
  OBVIOUS
<1>4. x[3] = k + 1 /\ k + 1 \in 1..(k + 1) /\ \A i \in 1..k : i < k + 1
  OBVIOUS
<1> HIDE DEF m, n, out
<1>5. n <= m + 1 /\ \A j \in 1..(m + 1) : j # m + 1 => j \in 1..m
  BY <1>1, <1>2
<1>6. \A j \in 1..n : j \in 1..m
  BY <1>1, <1>2
<1>7. \A j \in 1..n : out[j] = old[j]
  BY <1>1, <1>2, <1>6
<1>8. ASSUME NEW j \in 1..(m + 1), n < j PROVE \E i \in 1..(k + 1) : out[j] = <<s, c, i>>
  <2>1. CASE j = m + 1
    BY <2>1, <1>1, <1>4
  <2>2. CASE j # m + 1
    BY <2>2, <1>1, <1>2, <1>3, <1>5, <1>8
  <2> QED
    BY <2>1, <2>2
<1>9. ASSUME NEW j1 \in 1..(m + 1), NEW j2 \in 1..(m + 1), n < j1, j1 < j2
      PROVE  out[j1][3] < out[j2][3]
  <2>1. j1 \in 1..m
    BY <1>1, <1>9
  <2>2. CASE j2 = m + 1
    <3>1. PICK i \in 1..k : new[j1] = <<s, c, i>>
      BY <2>1, <1>2, <1>9
    <3>2. out[j1][3] = i /\ out[j2][3] = k + 1
      BY <2>1, <2>2, <3>1, <1>1, <1>4
    <3> QED
      BY <3>2, <1>4
  <2>3. CASE j2 # m + 1
    BY <2>1, <2>3, <1>1, <1>2, <1>5, <1>9
  <2> QED
    BY <2>2, <2>3
<1> QED
  BY <1>1, <1>5, <1>7, <1>8, <1>9 DEF Grown, m, n, out

LEMMA GrownNothing ==
  ASSUME NEW s, NEW c, NEW old \in Seq(Ids)
  PROVE  Grown(old, old, s, c, 0)
<1>1. Len(old) \in Nat
  OBVIOUS
<1> QED
  BY <1>1 DEF Grown

LEMMA ContainsAppend ==
  ASSUME NEW q \in Seq(Ids), NEW x \in Ids
  PROVE  /\ Contains(Append(q, x), x)
         /\ \A y : Contains(q, y) => Contains(Append(q, x), y)
<1>1. /\ Len(q) \in Nat /\ Len(Append(q, x)) = Len(q) + 1 /\ Append(q, x)[Len(q) + 1] = x
      /\ \A j \in 1..Len(q) : Append(q, x)[j] = q[j]
  OBVIOUS
<1>2. Len(q) + 1 \in 1..(Len(q) + 1) /\ \A j \in 1..Len(q) : j \in 1..(Len(q) + 1)
  BY <1>1
<1> QED
  BY <1>1, <1>2 DEF Contains

-----------------------------------------------------------------------------
(* A whole commit.                                                         *)

(* After k events of commit c.                                               *)
Reduced(red, s, c, docs, k) ==
  /\ red \in Plans /\ DOMAIN red.content = DOMAIN docs
  /\ red.touched \subseteq DOMAIN docs
  /\ \A t \in red.touched : CanApply(s, c, docs, t)
  /\ \A t \in DOMAIN docs :
       /\ t \notin red.touched => red.content[t] = docs[t].content
       /\ Grown(docs[t].content, red.content[t], s, c, k)
  /\ \A i \in 1..k : \A t \in Log[s][c][i].to :
       CanApply(s, c, docs, t) =>
         \/ t \in red.missingDocs
         \/ t \in red.touched /\ Contains(red.content[t], <<s, c, i>>)

LEMMA ReducedStep ==
  ASSUME NEW s \in Sources, NEW c \in Nat, NEW docs \in DocMaps, NEW k \in Nat, NEW red, NEW r,
         Log[s][c][k + 1] \in Event, Reduced(red, s, c, docs, k),
         r = ApplyEvent(red, Log[s][c][k + 1], <<s, c, k + 1>>, docs)
  PROVE  Reduced(r, s, c, docs, k + 1)
<1> DEFINE e == Log[s][c][k + 1]
           T == EventTargets(red, s, c, e, docs)
           id == <<s, c, k + 1>>
           D == DOMAIN docs
<1>1. red \in Plans /\ DOMAIN red.content = D
  BY DEF Reduced
<1>2. k + 1 \in Nat
  OBVIOUS
<1>3. id \in Ids
  BY DEF Ids
<1>4. AfterEvent(r, red, T, id, e.link)
  BY <1>1, <1>2, EventReaches
<1> HIDE DEF id
<1>5. \A t \in T : CanApply(s, c, docs, t)
  BY DEF EventTargets
<1>6. ASSUME NEW t \in e.to, CanApply(s, c, docs, t) PROVE t \in T
  <2>1. e.via = NoLink
    BY <1>6 DEF Event
  <2> QED
    BY <1>6, <2>1 DEF EventTargets, RouteEvent
<1> HIDE DEF T, e
<1>7. PICK DD \in SUBSET Docs : docs \in [DD -> DocRow]
  BY DEF DocMaps
<1>8. ASSUME NEW t \in D PROVE docs[t].content \in Seq(Ids) /\ red.content[t] \in Seq(Ids)
  <2>1. docs[t] \in DocRow
    BY <1>7, <1>8
  <2>2. red.content \in Contents
    BY <1>1 DEF Plans
  <2>3. PICK CD \in SUBSET Docs : red.content \in [CD -> Seq(Ids)]
    BY <2>2 DEF Contents
  <2>4. red.content[t] \in Seq(Ids)
    BY <1>1, <1>8, <2>3
  <2> QED
    BY <2>1, <2>4 DEF DocRow
<1>9. ASSUME NEW t \in D
      PROVE  /\ t \notin r.touched => r.content[t] = docs[t].content
             /\ Grown(docs[t].content, r.content[t], s, c, k + 1)
  <2>1. t \notin red.touched => red.content[t] = docs[t].content
    BY <1>9 DEF Reduced
  <2>2. Grown(docs[t].content, red.content[t], s, c, k)
    BY SMTT(60), <1>9 DEF Reduced
  <2>3. CASE t \in T
    <3>1. r.content[t] = Append(red.content[t], id) /\ t \in r.touched
      BY <1>1, <1>4, <1>9, <2>3 DEF AfterEvent
    <3> QED
      BY <1>8, <1>9, <2>2, <3>1, GrownAppend DEF id
  <2>4. CASE t \notin T
    <3>1. r.content[t] = red.content[t] /\ (t \notin r.touched => t \notin red.touched)
      BY <1>1, <1>4, <1>9, <2>4 DEF AfterEvent
    <3> QED
      BY <2>1, <2>2, <3>1, GrownKept
  <2> QED
    BY <2>3, <2>4
<1>10. ASSUME NEW i \in 1..(k + 1), NEW t \in Log[s][c][i].to, CanApply(s, c, docs, t)
       PROVE  t \in r.missingDocs \/ (t \in r.touched /\ Contains(r.content[t], <<s, c, i>>))
  <2>1. CASE i = k + 1
    <3>1. t \in T
      BY SMTT(60), <1>6, <1>10, <2>1 DEF e
    <3>2. CASE t \in D
      <4>1. r.content[t] = Append(red.content[t], id) /\ t \in r.touched
        BY <1>1, <1>4, <3>1, <3>2 DEF AfterEvent
      <4>2. Contains(r.content[t], id)
        BY <1>3, <1>8, <3>2, <4>1, ContainsAppend
      <4> QED
        BY <2>1, <4>1, <4>2 DEF id
    <3>3. CASE t \notin D
      BY <1>1, <1>4, <3>1, <3>3 DEF AfterEvent
    <3> QED
      BY <3>2, <3>3
  <2>2. CASE i # k + 1
    <3>1. i \in 1..k
      BY <2>2
    <3>2. t \in red.missingDocs \/ (t \in red.touched /\ Contains(red.content[t], <<s, c, i>>))
      BY <1>10, <3>1 DEF Reduced
    <3>3. CASE t \in red.missingDocs
      BY <1>4, <3>3 DEF AfterEvent
    <3>4. CASE t \in red.touched /\ Contains(red.content[t], <<s, c, i>>)
      <4>1. t \in D /\ t \in r.touched
        BY <1>4, <3>4 DEF AfterEvent, Reduced
      <4>2. Contains(r.content[t], <<s, c, i>>)
        <5>1. CASE t \in T
          <6>1. r.content[t] = Append(red.content[t], id)
            BY <1>1, <1>4, <4>1, <5>1 DEF AfterEvent
          <6>2. red.content[t] \in Seq(Ids)
            BY <1>8, <4>1
          <6> QED
            BY <1>3, <3>4, <6>1, <6>2, ContainsAppend
        <5>2. CASE t \notin T
          BY <1>1, <1>4, <3>4, <4>1, <5>2 DEF AfterEvent
        <5> QED
          BY <5>1, <5>2
      <4> QED
        BY <4>1, <4>2
    <3> QED
      BY <3>2, <3>3, <3>4
  <2> QED
    BY <2>1, <2>2
<1>11. r.touched \subseteq D /\ \A t \in r.touched : CanApply(s, c, docs, t)
  BY <1>1, <1>4, <1>5 DEF AfterEvent, Reduced
<1>12. r \in Plans /\ DOMAIN r.content = D
  BY <1>1, <1>4 DEF AfterEvent
<1> QED
  BY <1>9, <1>10, <1>11, <1>12 DEF Reduced

Unreduced(docs, lks) ==
  [content |-> [t \in DOMAIN docs |-> docs[t].content], links |-> lks,
   staged |-> Nothing, touched |-> {}, missingDocs |-> {}, missingLinks |-> {}]

LEMMA ReduceUnfolds ==
  ASSUME NEW s, NEW c, NEW docs, NEW lks
  PROVE  Reduce(s, c, docs, lks)
           = FoldEvents(s, c, docs, Unreduced(docs, lks), [i \in DOMAIN Log[s][c] |-> i])
BY DEF Reduce, FoldEvents, Unreduced, FoldLeftDomain, FoldLeft, MapThenFoldSet

LEMMA LogTyped ==
  ASSUME NEW s \in Sources, NEW c \in Commits(s)
  PROVE  /\ c \in Nat /\ c >= 1 /\ Len(Log[s][c]) \in Nat
         /\ DOMAIN Log[s][c] = 1..Len(Log[s][c])
         /\ \A i \in DOMAIN Log[s][c] : Log[s][c][i] \in Event
<1>1. Log[s] \in Seq(Seq(Event))
  BY StoreAssumption
<1>2. c \in Nat /\ c >= 1 /\ c \in 1..Len(Log[s])
  BY <1>1 DEF Commits
<1>3. Log[s][c] \in Seq(Event)
  BY <1>1, <1>2
<1> QED
  BY <1>2, <1>3

LEMMA UnreducedHolds ==
  ASSUME NEW s, NEW c, NEW docs \in DocMaps, NEW lks \in LinkMaps
  PROVE  Reduced(Unreduced(docs, lks), s, c, docs, 0)
<1>1. PICK D \in SUBSET Docs : docs \in [D -> DocRow]
  BY DEF DocMaps
<1> DEFINE cnt == [t \in DOMAIN docs |-> docs[t].content]
<1>2. \A t \in D : docs[t].content \in Seq(Ids)
  BY <1>1 DEF DocRow
<1>3. cnt \in [D -> Seq(Ids)] /\ DOMAIN cnt = DOMAIN docs
  BY <1>1, <1>2
<1>4. cnt \in Contents
  BY <1>3 DEF Contents
<1>5. Nothing \in LinkMaps
  <2>1. Nothing \in [{} -> LinkRow]
    BY DEF Nothing
  <2> QED
    BY <2>1 DEF LinkMaps
<1>6. \A t \in D : cnt[t] = docs[t].content /\ Grown(docs[t].content, cnt[t], s, c, 0)
  BY <1>1, <1>2, <1>3, GrownNothing
<1> HIDE DEF cnt
<1>7. Unreduced(docs, lks) = [content |-> cnt, links |-> lks, staged |-> Nothing, touched |-> {},
                              missingDocs |-> {}, missingLinks |-> {}]
  BY DEF Unreduced, cnt
<1>8. Unreduced(docs, lks) \in Plans
  BY <1>4, <1>5, <1>7 DEF Plans
<1> QED
  BY <1>1, <1>3, <1>6, <1>7, <1>8 DEF Reduced

LEMMA ReduceHolds ==
  ASSUME NEW s \in Sources, NEW c \in Commits(s), NEW docs \in DocMaps, NEW lks \in LinkMaps
  PROVE  Reduced(Reduce(s, c, docs, lks), s, c, docs, Len(Log[s][c]))
<1> DEFINE n == Len(Log[s][c])
           q == [i \in DOMAIN Log[s][c] |-> i]
           base == Unreduced(docs, lks)
<1>1. c \in Nat /\ n \in Nat /\ DOMAIN q = 1..n /\ \A i \in 1..n : q[i] = i /\ Log[s][c][i] \in Event
  BY LogTyped
<1> HIDE DEF n, q
<1>2. PICK it : EventsTrace(it, s, c, docs, base, n, q)
  <2>1. n \in Nat /\ DOMAIN q = 1..n
    BY <1>1
  <2> QED
    BY <2>1, EventsFold, Zenon
<1>3. Reduced(base, s, c, docs, 0)
  BY UnreducedHolds
<1> HIDE DEF base
<1> DEFINE T == {k \in Nat : k <= n => Reduced(it[k], s, c, docs, k)}
<1>4. 0 \in T
  BY <1>2, <1>3 DEF EventsTrace
<1>5. ASSUME NEW k \in Nat, k < n, k \in T PROVE k + 1 \in T
  <2>1. k + 1 \in 1..n /\ (k + 1) - 1 = k /\ k <= n /\ q[k + 1] = k + 1
    BY <1>1, <1>5
  <2>2. Reduced(it[k], s, c, docs, k)
    BY <1>5, <2>1
  <2>3. it[k + 1] = ApplyEvent(it[k], Log[s][c][k + 1], <<s, c, k + 1>>, docs)
    BY <1>2, <2>1 DEF EventsTrace
  <2>4. Log[s][c][k + 1] \in Event
    BY <1>1, <2>1
  <2>5. Reduced(it[k + 1], s, c, docs, k + 1)
    BY <1>1, <2>2, <2>3, <2>4, ReducedStep
  <2> QED
    BY <2>5
<1> HIDE DEF T
<1>6. n \in T
  <2>1. \A k \in 0..n : k \in T
    BY <1>1, <1>4, <1>5, UpTo
  <2> QED
    BY <1>1, <2>1
<1>7. Reduced(it[n], s, c, docs, n)
  BY <1>1, <1>6 DEF T
<1>8. Reduce(s, c, docs, lks) = it[n]
  BY <1>2, ReduceUnfolds DEF EventsTrace, base, q
<1> QED
  BY <1>7, <1>8 DEF n

-----------------------------------------------------------------------------
(* What a step may do to the rows of the executions.                        *)

Later ==
  /\ \A s \in Sources : done[s] <= done'[s]
  /\ \A t \in Docs :
       /\ doc[t].rev <= doc'[t].rev
       /\ doc[t].rev = doc'[t].rev => doc[t] = doc'[t]
       /\ \A s \in Sources : doc[t].marker[s] <= doc'[t].marker[s]

LEMMA DocTyped ==
  ASSUME StoreTypeOK, NEW t \in Docs
  PROVE  /\ doc[t] \in DocRow /\ doc[t].rev \in Nat /\ doc[t].content \in Seq(Ids)
         /\ doc[t].marker \in [Sources -> Nat]
BY DEF StoreTypeOK, DocRow

LEMMA ReadTyped ==
  ASSUME NEW docs \in DocMaps, NEW t \in DOMAIN docs
  PROVE  /\ t \in Docs /\ docs[t] \in DocRow /\ docs[t].rev \in Nat /\ docs[t].content \in Seq(Ids)
         /\ docs[t].marker \in [Sources -> Nat]
<1>1. PICK D \in SUBSET Docs : docs \in [D -> DocRow]
  BY DEF DocMaps
<1>2. t \in D /\ docs[t] \in DocRow
  BY <1>1
<1> QED
  BY <1>2 DEF DocRow

LEMMA SeenKept ==
  ASSUME StoreTypeOK, StoreTypeOK', Later, NEW t \in Docs, NEW d \in DocRow, Seen(d, t)
  PROVE  Seen(d, t)'
<1>1. d.rev \in Nat /\ \A s \in Sources : d.marker[s] \in Nat
  BY DEF DocRow
<1>2. PICK a : a = doc[t]
  OBVIOUS
<1>3. PICK b : b = doc'[t]
  OBVIOUS
<1>4. a \in DocRow /\ b \in DocRow
  BY <1>2, <1>3 DEF StoreTypeOK
<1>5. a.rev \in Nat /\ b.rev \in Nat /\ \A s \in Sources : a.marker[s] \in Nat /\ b.marker[s] \in Nat
  BY <1>4 DEF DocRow
<1>6. a.rev <= b.rev /\ (a.rev = b.rev => a = b) /\ \A s \in Sources : a.marker[s] <= b.marker[s]
  BY <1>2, <1>3 DEF Later
<1>7. d.rev <= a.rev /\ (d.rev = a.rev => d = a) /\ \A s \in Sources : d.marker[s] <= a.marker[s]
  BY <1>2 DEF Seen
<1>8. d.rev <= b.rev
  BY <1>1, <1>5, <1>6, <1>7
<1>9. ASSUME d.rev = b.rev PROVE d = b
  <2>1. d.rev = a.rev /\ a.rev = b.rev
    BY <1>1, <1>5, <1>6, <1>7, <1>9
  <2> QED
    BY <1>6, <1>7, <2>1
<1>10. ASSUME NEW s \in Sources PROVE d.marker[s] <= b.marker[s]
  <2>1. d.marker[s] \in Nat /\ a.marker[s] \in Nat /\ b.marker[s] \in Nat
    BY <1>1, <1>5
  <2>2. d.marker[s] <= a.marker[s] /\ a.marker[s] <= b.marker[s]
    BY <1>6, <1>7
  <2> QED
    BY <2>1, <2>2
<1> QED
  BY <1>3, <1>8, <1>9, <1>10 DEF Seen

LEMMA RowKept ==
  ASSUME StoreTypeOK, StoreTypeOK', Later, NEW s \in Sources, NEW x \in Row, RowHolds(x, s)
  PROVE  RowHolds(x, s)'
<1>1. x.docs \in DocMaps /\ x.c \in Nat /\ (x.plan # Nothing => x.plan \in Plans)
  BY DEF Row
<1>2. ASSUME NEW t \in DOMAIN x.docs PROVE Seen(x.docs[t], t)'
  <2>1. Seen(x.docs[t], t)
    BY DEF RowHolds
  <2> QED
    BY <1>1, <2>1, ReadTyped, SeenKept
<1>3. ASSUME x.pc # "idle" PROVE x.c \in Commits(s) /\ x.c <= done'[s] + 1
  <2>1. x.c \in Commits(s) /\ x.c <= done[s] + 1
    BY <1>3 DEF RowHolds
  <2>2. done[s] \in Nat /\ done'[s] \in Nat /\ done[s] <= done'[s]
    BY DEF StoreTypeOK, Later
  <2> QED
    BY <1>1, <2>1, <2>2
<1>4. ASSUME x.pc = "reconcile", Strategy = "in_document", NEW t \in x.plan.touched \ x.targets
      PROVE  x.c <= doc'[t].marker[s]
  <2>1. x.plan = Reduce(s, x.c, x.docs, x.lks) /\ x.c \in Commits(s)
    BY <1>4 DEF RowHolds
  <2>2. Reduced(x.plan, s, x.c, x.docs, Len(Log[s][x.c]))
    BY <1>1, <2>1, ReduceHolds DEF Row
  <2>3. t \in DOMAIN x.docs
    BY <2>2, <1>4 DEF Reduced
  <2>4. t \in Docs
    BY <1>1, <2>3, ReadTyped
  <2>5. x.c <= doc[t].marker[s]
    BY <1>4 DEF RowHolds
  <2>6. doc[t].marker[s] \in Nat /\ doc'[t].marker[s] \in Nat
    BY <2>4 DEF StoreTypeOK, DocRow
  <2>7. doc[t].marker[s] <= doc'[t].marker[s]
    BY <2>4 DEF Later
  <2> QED
    BY <1>1, <2>5, <2>6, <2>7
<1> QED
  BY <1>2, <1>3, <1>4 DEF RowHolds

(* One execution's row changes, the others' stay.                            *)
LEMMA RowsKept ==
  ASSUME StoreIInv, StoreTypeOK', Later, NEW w \in Workers, NEW s \in Sources, NEW y \in Row,
         SetTask(w, s, y), RowHolds(y, s)'
  PROVE  \A w2 \in Workers, s2 \in Sources : RowHolds(task[w2][s2], s2)'
<1> SUFFICES ASSUME NEW w2 \in Workers, NEW s2 \in Sources
             PROVE  RowHolds(task[w2][s2], s2)'
  OBVIOUS
<1>1. PICK z : z = task'[w2][s2]
  OBVIOUS
<1>2. task \in [Workers -> [Sources -> Row]] /\ StoreTypeOK
  BY DEF StoreIInv, StoreTypeOK
<1>3. RowHolds(z, s2)'
  <2>1. CASE w2 = w /\ s2 = s
    <3>1. z = y
      BY <1>1, <1>2, <2>1 DEF SetTask
    <3> QED
      BY <2>1, <3>1
  <2>2. CASE ~ (w2 = w /\ s2 = s)
    <3>1. z = task[w2][s2]
      BY <1>1, <1>2, <2>2 DEF SetTask
    <3>2. z \in Row /\ RowHolds(z, s2)
      BY <1>2, <3>1 DEF StoreIInv
    <3> QED
      BY <1>2, <3>2, RowKept
  <2> QED
    BY <2>1, <2>2
<1> QED
  BY <1>1, <1>3

LEMMA TaskTyped ==
  ASSUME StoreTypeOK, NEW w \in Workers, NEW s \in Sources, NEW y \in Row, SetTask(w, s, y)
  PROVE  task' \in [Workers -> [Sources -> Row]]
<1>1. task[w] \in [Sources -> Row]
  BY DEF StoreTypeOK
<1>2. [task[w] EXCEPT ![s] = y] \in [Sources -> Row]
  BY <1>1
<1> QED
  BY <1>2 DEF StoreTypeOK, SetTask

LEMMA IdleTyped == Idle \in Row /\ Idle.pc = "idle" /\ Idle.docs = Nothing
<1>1. Nothing \in DocMaps
  <2>1. Nothing \in [{} -> DocRow]
    BY DEF Nothing
  <2> QED
    BY <2>1 DEF DocMaps
<1>2. Nothing \in LinkMaps
  <2>1. Nothing \in [{} -> LinkRow]
    BY DEF Nothing
  <2> QED
    BY <2>1 DEF LinkMaps
<1> HIDE DEF Nothing
<1> QED
  BY <1>1, <1>2 DEF Idle, Row

LEMMA IdleHolds == ASSUME NEW s PROVE RowHolds(Idle, s)
<1>1. DOMAIN Nothing = {}
  BY DEF Nothing
<1> QED
  BY <1>1, IdleTyped DEF RowHolds

LEMMA IdleHoldsNext == ASSUME NEW s PROVE RowHolds(Idle, s)'
<1>1. DOMAIN Nothing = {}
  BY DEF Nothing
<1> QED
  BY <1>1, IdleTyped DEF RowHolds

(* A step that leaves the store and the progress alone.                      *)
LEMMA Quiet ==
  ASSUME StoreIInv, NEW w \in Workers, NEW s \in Sources, NEW y \in Row,
         SetTask(w, s, y), RowHolds(y, s), UNCHANGED <<store, done>>
  PROVE  StoreIInv'
<1>1. doc' = doc /\ link' = link /\ own' = own /\ done' = done
  BY DEF store
<1>2. StoreTypeOK
  BY DEF StoreIInv
<1>3. StoreTypeOK'
  BY <1>1, <1>2, TaskTyped DEF StoreTypeOK
<1>4. Later
  BY <1>1, <1>2 DEF Later, StoreTypeOK, DocRow
<1>5. RowHolds(y, s)'
  BY <1>1 DEF RowHolds, Seen
<1>6. \A w2 \in Workers, s2 \in Sources : RowHolds(task[w2][s2], s2)'
  BY <1>3, <1>4, <1>5, RowsKept
<1>7. \A s2 \in Sources : ProgressHolds(s2)'
  BY <1>1 DEF StoreIInv, ProgressHolds
<1>8. \A s2 \in Sources, t \in Docs : ContentHolds(s2, t)'
  BY <1>1 DEF StoreIInv, ContentHolds, Reached
<1> QED
  BY <1>3, <1>6, <1>7, <1>8 DEF StoreIInv

(* A step that reports a commit whose events are in all their documents.     *)
LEMMA Reported ==
  ASSUME StoreIInv, NEW w \in Workers, NEW s \in Sources,
         Resolve(w, s), UNCHANGED store,
         task[w][s].c \in Commits(s),
         Strategy = "own_record" => task[w][s].c <= own[s],
         \A t \in Docs : Has(doc[t].content, s, task[w][s].c, t)
  PROVE  StoreIInv'
<1>1. doc' = doc /\ link' = link /\ own' = own
  BY DEF store
<1>2. StoreTypeOK
  BY DEF StoreIInv
<1>3. PICK c : c = task[w][s].c
  OBVIOUS
<1>4. c \in Commits(s) /\ c \in Nat
  BY <1>3, LogTyped
<1>5. SetTask(w, s, Idle) /\ done' = [done EXCEPT ![s] = IF c = @ + 1 THEN c ELSE @]
  BY <1>3 DEF Resolve
<1>6. \A s2 \in Sources : done[s2] \in Nat /\ own[s2] \in Nat
  BY <1>2 DEF StoreTypeOK
<1>7. done' \in [Sources -> Nat]
  BY <1>2, <1>4, <1>5 DEF StoreTypeOK
<1>8. StoreTypeOK'
  BY <1>1, <1>2, <1>5, <1>7, IdleTyped, TaskTyped DEF StoreTypeOK
<1>9. \A s2 \in Sources : done'[s2] = IF s2 = s /\ c = done[s] + 1 THEN c ELSE done[s2]
  BY <1>2, <1>5 DEF StoreTypeOK
<1>10. \A s2 \in Sources : done[s2] <= done'[s2]
  BY <1>4, <1>6, <1>9
<1>11. Later
  <2>1. ASSUME NEW t \in Docs PROVE doc[t].rev <= doc[t].rev /\ \A s2 \in Sources : doc[t].marker[s2] <= doc[t].marker[s2]
    BY <1>2, DocTyped
  <2> QED
    BY <1>1, <1>10, <2>1 DEF Later
<1>12. \A w2 \in Workers, s2 \in Sources : RowHolds(task[w2][s2], s2)'
  BY <1>5, <1>8, <1>11, IdleTyped, IdleHoldsNext, RowsKept
<1>13. ASSUME NEW s2 \in Sources PROVE ProgressHolds(s2)'
  <2>1. ProgressHolds(s2) /\ Len(Log[s]) \in Nat
    BY StoreAssumption DEF StoreIInv
  <2>2. s2 = s => c <= Len(Log[s]) /\ (Strategy = "own_record" => c <= own[s])
    BY <1>3, <1>4, <2>1 DEF Commits
  <2> QED
    BY <1>1, <1>9, <2>1, <2>2 DEF ProgressHolds
<1>14. ASSUME NEW s2 \in Sources, NEW t \in Docs PROVE ContentHolds(s2, t)'
  <2>1. ContentHolds(s2, t)
    BY DEF StoreIInv
  <2>2. Reached(s2, t)' = Reached(s2, t)
    BY <1>1 DEF Reached
  <2>3. ASSUME NEW k \in Commits(s2), k <= Reached(s2, t) \/ k <= done'[s2]
        PROVE  Has(doc[t].content, s2, k, t)
    <3>1. CASE k <= Reached(s2, t) \/ k <= done[s2]
      BY <2>1, <3>1 DEF ContentHolds
    <3>2. CASE ~ (k <= Reached(s2, t) \/ k <= done[s2])
      <4>1. s2 = s /\ c = done[s] + 1 /\ k <= c /\ ~ (k <= done[s])
        BY <1>9, <2>3, <3>2
      <4>2. k \in Nat
        BY LogTyped
      <4>3. k = c
        BY <1>4, <1>6, <4>1, <4>2
      <4> QED
        BY <1>3, <4>1, <4>3
    <3> QED
      BY <3>1, <3>2
  <2> QED
    BY <1>1, <2>1, <2>2, <2>3 DEF ContentHolds
<1> QED
  BY <1>8, <1>12, <1>13, <1>14 DEF StoreIInv

-----------------------------------------------------------------------------
(* The transaction.                                                        *)

LEMMA GrownOrder ==
  ASSUME NEW s, NEW s2, NEW c \in Nat, NEW r \in Nat, NEW n \in Nat,
         NEW old \in Seq(Ids), NEW new \in Seq(Ids), Grown(old, new, s, c, n),
         InLogOrder(old, s2), NoneBeyond(old, s2, r), s2 = s => r < c
  PROVE  /\ InLogOrder(new, s2)
         /\ NoneBeyond(new, s2, IF s2 = s THEN c ELSE r)
<1>1. /\ Len(old) \in Nat /\ Len(new) \in Nat
      /\ DOMAIN old = 1..Len(old) /\ DOMAIN new = 1..Len(new)
  OBVIOUS
<1>2. \A j \in 1..Len(new) : new[j] \in Ids
  OBVIOUS
<1>3. \A id \in Ids : id[2] \in Nat /\ id[3] \in Nat
  BY DEF Ids
<1>4. ASSUME NEW j \in 1..Len(new), ~ (Len(old) < j)
      PROVE  j \in 1..Len(old) /\ new[j] = old[j]
  <2>1. j \in 1..Len(old)
    BY <1>1, <1>4
  <2> QED
    BY <2>1 DEF Grown
<1>5. ASSUME NEW j \in 1..Len(new), Len(old) < j
      PROVE  new[j][1] = s /\ new[j][2] = c
  <2>1. PICK i \in 1..n : new[j] = <<s, c, i>>
    BY <1>5 DEF Grown
  <2> QED
    BY <2>1
<1>6. ASSUME NEW i \in 1..Len(new), NEW j \in 1..Len(new), i < j, new[i][1] = s2, new[j][1] = s2
      PROVE  Earlier(new[i], new[j])
  <2>1. CASE ~ (Len(old) < j)
    <3>1. ~ (Len(old) < i)
      BY <1>1, <1>6, <2>1
    <3>2. i \in DOMAIN old /\ j \in DOMAIN old /\ new[i] = old[i] /\ new[j] = old[j]
      BY <1>1, <1>4, <2>1, <3>1
    <3> QED
      BY <1>6, <3>2 DEF InLogOrder
  <2>2. CASE Len(old) < j /\ ~ (Len(old) < i)
    <3>1. i \in DOMAIN old /\ new[i] = old[i]
      BY <1>1, <1>4, <2>2
    <3>2. new[j][1] = s /\ new[j][2] = c
      BY <1>5, <2>2
    <3>3. new[i][2] <= r /\ r < c
      BY <1>6, <3>1, <3>2 DEF NoneBeyond
    <3>4. new[i][2] \in Nat
      BY <1>2, <1>3
    <3>5. new[i][2] < new[j][2]
      BY <3>2, <3>3, <3>4
    <3> QED
      BY <3>5 DEF Earlier
  <2>3. CASE Len(old) < j /\ Len(old) < i
    <3>1. new[i][2] = c /\ new[j][2] = c
      BY <1>5, <2>3
    <3>2. new[i][3] < new[j][3]
      BY <1>6, <2>3 DEF Grown
    <3> QED
      BY <3>1, <3>2 DEF Earlier
  <2> QED
    BY <2>1, <2>2, <2>3
<1>7. ASSUME NEW i \in 1..Len(new), new[i][1] = s2
      PROVE  new[i][2] <= IF s2 = s THEN c ELSE r
  <2>1. CASE Len(old) < i
    BY <1>5, <1>7, <2>1
  <2>2. CASE ~ (Len(old) < i)
    <3>1. i \in DOMAIN old /\ new[i] = old[i]
      BY <1>1, <1>4, <2>2
    <3>2. new[i][2] <= r /\ new[i][2] \in Nat
      BY <1>2, <1>3, <1>7, <3>1 DEF NoneBeyond
    <3> QED
      BY <3>2
  <2> QED
    BY <2>1, <2>2
<1> QED
  BY <1>1, <1>6, <1>7 DEF InLogOrder, NoneBeyond

LEMMA GrownHas ==
  ASSUME NEW s, NEW c, NEW n, NEW old \in Seq(Ids), NEW new \in Seq(Ids), Grown(old, new, s, c, n),
         NEW s2, NEW c2, NEW t, Has(old, s2, c2, t)
  PROVE  Has(new, s2, c2, t)
<1>1. Len(old) \in Nat /\ Len(new) \in Nat /\ Len(old) <= Len(new)
  BY DEF Grown
<1>2. \A j \in 1..Len(old) : j \in 1..Len(new) /\ new[j] = old[j]
  BY <1>1 DEF Grown
<1>3. ASSUME NEW y, Contains(old, y) PROVE Contains(new, y)
  BY <1>2, <1>3 DEF Contains
<1> QED
  BY <1>3 DEF Has

(* A document the reduction does not touch has the commit already, or takes   *)
(* nothing from it.                                                          *)
LEMMA UntouchedHas ==
  ASSUME StoreIInv, NEW s \in Sources, NEW c \in Commits(s),
         NEW docs \in DocMaps, \A t \in DOMAIN docs : Seen(docs[t], t),
         NEW red, Reduced(red, s, c, docs, Len(Log[s][c])), red.missingDocs = {},
         NEW t \in Docs, t \notin red.touched
  PROVE  Has(doc[t].content, s, c, t)
<1>1. StoreTypeOK /\ ContentHolds(s, t)
  BY DEF StoreIInv
<1> SUFFICES ASSUME NEW i \in DOMAIN Log[s][c], t \in Log[s][c][i].to
             PROVE  Contains(doc[t].content, <<s, c, i>>)
  BY DEF Has
<1>2. i \in 1..Len(Log[s][c]) /\ c \in Nat
  BY LogTyped
<1>3. ~ CanApply(s, c, docs, t)
  BY <1>2 DEF Reduced
<1>4. Strategy = "in_document" /\ t \in DOMAIN docs /\ ~ (c > docs[t].marker[s])
  BY <1>3 DEF CanApply
<1>5. docs[t].marker[s] \in Nat /\ doc[t].marker[s] \in Nat
  <2>1. docs[t].marker \in [Sources -> Nat]
    BY <1>4, ReadTyped
  <2> QED
    BY <1>1, <2>1, DocTyped
<1>6. docs[t].marker[s] <= doc[t].marker[s]
  BY <1>4 DEF Seen
<1>7. c <= doc[t].marker[s]
  BY <1>2, <1>4, <1>5, <1>6
<1>8. c <= Reached(s, t)
  BY <1>4, <1>7 DEF Reached
<1>9. Has(doc[t].content, s, c, t)
  BY <1>1, <1>8 DEF ContentHolds
<1> QED
  BY <1>9 DEF Has

LEMMA TouchedHas ==
  ASSUME NEW s \in Sources, NEW c \in Commits(s), NEW docs, NEW red,
         Reduced(red, s, c, docs, Len(Log[s][c])), red.missingDocs = {}, NEW t \in red.touched
  PROVE  Has(red.content[t], s, c, t)
<1> SUFFICES ASSUME NEW i \in DOMAIN Log[s][c], t \in Log[s][c][i].to
             PROVE  Contains(red.content[t], <<s, c, i>>)
  BY DEF Has
<1>1. i \in 1..Len(Log[s][c])
  BY LogTyped
<1>2. CanApply(s, c, docs, t)
  BY DEF Reduced
<1> QED
  BY <1>1, <1>2 DEF Reduced

(* What a row in commit or reconcile says of its plan.                       *)
LEMMA PlanKnown ==
  ASSUME NEW s \in Sources, NEW x \in Row, RowHolds(x, s), x.pc \in {"commit", "reconcile"}
  PROVE  /\ x.c \in Commits(s) /\ x.c \in Nat /\ x.c <= done[s] + 1
         /\ x.docs \in DocMaps /\ x.lks \in LinkMaps
         /\ Reduced(x.plan, s, x.c, x.docs, Len(Log[s][x.c]))
         /\ x.plan.missingDocs = {} /\ x.plan.missingLinks = {}
         /\ x.plan \in Plans /\ x.plan.touched \subseteq DOMAIN x.docs
<1>1. x.docs \in DocMaps /\ x.lks \in LinkMaps
  BY DEF Row
<1>2. x.c \in Commits(s) /\ x.c <= done[s] + 1 /\ x.plan = Reduce(s, x.c, x.docs, x.lks)
  BY DEF RowHolds
<1>3. Reduced(x.plan, s, x.c, x.docs, Len(Log[s][x.c]))
  BY <1>1, <1>2, ReduceHolds
<1>4. x.plan.missingDocs = {} /\ x.plan.missingLinks = {}
  BY DEF RowHolds, NeedsSnapshot
<1>5. x.plan \in Plans /\ x.plan.touched \subseteq DOMAIN x.docs
  BY <1>3 DEF Reduced
<1> QED
  BY <1>1, <1>2, <1>3, <1>4, <1>5, LogTyped

(* What a transaction is compared against: the touched documents stand as     *)
(* they were read, and none of the source has reached the commit.            *)
LEMMA Current ==
  ASSUME StoreIInv, NEW w \in Workers, NEW s \in Sources, NEW x, x = task[w][s],
         x.pc = "commit", Valid(w, s), NEW t \in x.plan.touched
  PROVE  /\ t \in Docs /\ x.docs[t] = doc[t]
         /\ Reached(s, t) < x.c
<1>1. StoreTypeOK /\ x \in Row /\ RowHolds(x, s)
  BY DEF StoreIInv, StoreTypeOK
<1>2. /\ x.c \in Nat /\ x.docs \in DocMaps /\ t \in DOMAIN x.docs
      /\ Reduced(x.plan, s, x.c, x.docs, Len(Log[s][x.c]))
  BY <1>1, PlanKnown
<1>3. t \in Docs /\ x.docs[t].marker \in [Sources -> Nat]
  BY <1>2, ReadTyped
<1>4. doc[t].rev = x.docs[t].rev
  BY DEF Valid, DocsCurrent, Plan
<1>5. x.docs[t] = doc[t]
  BY <1>1, <1>2, <1>4 DEF RowHolds, Seen
<1>6. CASE Strategy = "own_record"
  <2>1. own[s] = x.own /\ x.own < x.c
    BY <1>1, <1>6 DEF Valid, ProgressCurrent, RowHolds
  <2> QED
    BY <1>3, <1>5, <1>6, <2>1 DEF Reached
<1>7. CASE Strategy # "own_record"
  <2>1. Strategy = "in_document"
    BY <1>7, StoreAssumption
  <2>2. x.c > x.docs[t].marker[s]
    BY <1>2, <2>1 DEF Reduced, CanApply
  <2>3. doc[t].marker[s] \in Nat
    BY <1>3, <1>5
  <2>4. doc[t].marker[s] < x.c
    BY <1>2, <1>5, <2>2, <2>3
  <2> QED
    BY <1>3, <1>5, <1>7, <2>4 DEF Reached
<1> QED
  BY <1>6, <1>7

PlanContent(plan, t) == plan.content[t]

(* What the transaction writes, document by document.                        *)
LEMMA WriteEffect ==
  ASSUME StoreIInv, NEW w \in Workers, NEW s \in Sources, NEW x, x = task[w][s],
         x.pc = "commit", Valid(w, s), Write(w, s), NEW t \in Docs
  PROVE  /\ doc'[t] \in DocRow
         /\ t \notin x.plan.touched => doc'[t] = doc[t]
         /\ t \in x.plan.touched =>
              /\ doc'[t].rev = doc[t].rev + 1
              /\ doc'[t].content = PlanContent(x.plan, t)
              /\ PlanContent(x.plan, t) \in Seq(Ids)
              /\ Grown(doc[t].content, PlanContent(x.plan, t), s, x.c, Len(Log[s][x.c]))
              /\ doc'[t].marker = IF Strategy = "in_document"
                                  THEN [doc[t].marker EXCEPT ![s] = x.c] ELSE doc[t].marker
<1>1. StoreTypeOK /\ x \in Row /\ RowHolds(x, s) /\ Plan(w, s) = x.plan
  BY DEF StoreIInv, StoreTypeOK, Plan
<1>2. /\ x.c \in Nat /\ x.docs \in DocMaps /\ x.plan \in Plans
      /\ x.plan.touched \subseteq DOMAIN x.docs
      /\ Reduced(x.plan, s, x.c, x.docs, Len(Log[s][x.c]))
  BY <1>1, PlanKnown
<1>3. CASE t \notin x.plan.touched
  <2>1. doc'[t] = doc[t]
    BY <1>1, <1>3 DEF Write
  <2> QED
    BY <1>1, <1>3, <2>1, DocTyped
<1>4. CASE t \in x.plan.touched
  <2>1. x.docs[t] = doc[t]
    BY <1>4, Current
  <2>2. doc'[t] = [rev |-> x.docs[t].rev + 1, content |-> x.plan.content[t],
                   marker |-> IF Strategy = "in_document"
                              THEN [x.docs[t].marker EXCEPT ![s] = x.c] ELSE doc[t].marker]
    BY <1>1, <1>4 DEF Write
  <2>3. x.plan.content[t] \in Seq(Ids)
    <3>1. x.plan.content \in Contents
      BY <1>2 DEF Plans
    <3>2. PICK D \in SUBSET Docs : x.plan.content \in [D -> Seq(Ids)]
      BY <3>1 DEF Contents
    <3>3. t \in DOMAIN x.plan.content
      BY <1>2, <1>4 DEF Reduced
    <3> QED
      BY <3>2, <3>3
  <2>4. Grown(doc[t].content, x.plan.content[t], s, x.c, Len(Log[s][x.c]))
    <3>1. t \in DOMAIN x.docs
      BY <1>2, <1>4
    <3>2. Grown(x.docs[t].content, x.plan.content[t], s, x.c, Len(Log[s][x.c]))
      BY <1>2, <3>1 DEF Reduced
    <3> QED
      BY <2>1, <3>2
  <2> DEFINE m == IF Strategy = "in_document" THEN [doc[t].marker EXCEPT ![s] = x.c] ELSE doc[t].marker
  <2>5. m \in [Sources -> Nat]
    <3>1. doc[t].marker \in [Sources -> Nat]
      BY <1>1, DocTyped
    <3>2. [doc[t].marker EXCEPT ![s] = x.c] \in [Sources -> Nat]
      BY <1>2, <3>1
    <3> QED
      BY <3>1, <3>2
  <2>6. doc'[t] = [rev |-> doc[t].rev + 1, content |-> x.plan.content[t], marker |-> m]
    BY <2>1, <2>2
  <2> HIDE DEF m
  <2>7. doc[t].rev + 1 \in Nat
    BY <1>1, DocTyped
  <2>8. doc'[t] \in DocRow
    BY <2>3, <2>5, <2>6, <2>7 DEF DocRow
  <2> QED
    BY <1>4, <2>3, <2>4, <2>6, <2>8 DEF m, PlanContent
<1> QED
  BY <1>3, <1>4

LEMMA WriteIsLater ==
  ASSUME StoreIInv, NEW w \in Workers, NEW s \in Sources, NEW x, x = task[w][s],
         x.pc = "commit", Valid(w, s), Write(w, s), \A s2 \in Sources : done[s2] <= done'[s2]
  PROVE  Later
<1>1. StoreTypeOK /\ x \in Row /\ RowHolds(x, s)
  BY DEF StoreIInv, StoreTypeOK
<1>2. x.c \in Nat
  BY <1>1, PlanKnown
<1> SUFFICES ASSUME NEW t \in Docs
             PROVE  /\ doc[t].rev <= doc'[t].rev
                    /\ doc[t].rev = doc'[t].rev => doc[t] = doc'[t]
                    /\ \A s2 \in Sources : doc[t].marker[s2] <= doc'[t].marker[s2]
  BY DEF Later
<1>3. doc[t].rev \in Nat /\ doc[t].marker \in [Sources -> Nat]
  BY <1>1, DocTyped
<1>4. PICK d : d = doc'[t]
  OBVIOUS
<1>5. CASE t \notin x.plan.touched
  <2>1. d = doc[t]
    BY <1>4, <1>5, WriteEffect
  <2> QED
    BY <1>3, <1>4, <2>1
<1>6. CASE t \in x.plan.touched
  <2>1. /\ d.rev = doc[t].rev + 1
        /\ d.marker = IF Strategy = "in_document" THEN [doc[t].marker EXCEPT ![s] = x.c] ELSE doc[t].marker
    BY <1>4, <1>6, WriteEffect
  <2>2. Reached(s, t) < x.c
    BY <1>6, Current
  <2>3. ASSUME NEW s2 \in Sources PROVE doc[t].marker[s2] <= d.marker[s2]
    <3>1. doc[t].marker[s2] \in Nat
      BY <1>3
    <3>2. CASE Strategy = "in_document" /\ s2 = s
      <4>1. Strategy # "own_record"
        BY <3>2
      <4>2. doc[t].marker[s] < x.c
        BY <2>2, <4>1 DEF Reached
      <4>3. d.marker[s2] = x.c
        BY <1>3, <2>1, <3>2
      <4> QED
        BY <1>2, <3>1, <3>2, <4>2, <4>3
    <3>3. CASE ~ (Strategy = "in_document" /\ s2 = s)
      <4>1. d.marker[s2] = doc[t].marker[s2]
        BY <1>3, <2>1, <3>3
      <4> QED
        BY <3>1, <4>1
    <3> QED
      BY <3>2, <3>3
  <2>4. doc[t].rev <= d.rev /\ doc[t].rev # d.rev
    BY <1>3, <2>1
  <2> QED
    BY <1>4, <2>3, <2>4
<1> QED
  BY <1>5, <1>6

(* The commit is now in every document it goes to, and nothing later is.     *)
LEMMA WriteContent ==
  ASSUME StoreIInv, NEW w \in Workers, NEW s \in Sources, NEW x, x = task[w][s],
         x.pc = "commit", Valid(w, s), Write(w, s), NEW s2 \in Sources, NEW t \in Docs
  PROVE  /\ InLogOrder(doc'[t].content, s2)
         /\ NoneBeyond(doc'[t].content, s2, Reached(s2, t)')
         /\ \A k \in Commits(s2) :
              k <= Reached(s2, t)' \/ k <= done[s2] \/ (s2 = s /\ k = x.c)
                => Has(doc'[t].content, s2, k, t)
<1>1. StoreTypeOK /\ x \in Row /\ RowHolds(x, s)
  BY DEF StoreIInv, StoreTypeOK
<1>2. /\ x.c \in Commits(s) /\ x.c \in Nat /\ x.c <= done[s] + 1
      /\ x.docs \in DocMaps
      /\ Reduced(x.plan, s, x.c, x.docs, Len(Log[s][x.c])) /\ x.plan.missingDocs = {}
  BY <1>1, PlanKnown
<1>3. /\ ContentHolds(s2, t) /\ ProgressHolds(s2)
      /\ \A u \in DOMAIN x.docs : Seen(x.docs[u], u)
  BY <1>1 DEF StoreIInv, RowHolds
<1>4. /\ own[s2] \in Nat /\ done[s2] \in Nat /\ doc[t].marker[s2] \in Nat
      /\ Reached(s2, t) \in Nat /\ doc[t].content \in Seq(Ids)
  BY <1>1, DocTyped DEF StoreTypeOK, Reached
<1>5. PICK d : d = doc'[t]
  OBVIOUS
<1>6. PICK r : r = Reached(s2, t)'
  OBVIOUS
<1>7. /\ d \in DocRow
      /\ t \notin x.plan.touched => d = doc[t]
      /\ t \in x.plan.touched =>
           /\ d.content = PlanContent(x.plan, t)
           /\ PlanContent(x.plan, t) \in Seq(Ids)
           /\ Grown(doc[t].content, PlanContent(x.plan, t), s, x.c, Len(Log[s][x.c]))
           /\ d.marker = IF Strategy = "in_document" THEN [doc[t].marker EXCEPT ![s] = x.c] ELSE doc[t].marker
  BY <1>5, WriteEffect
(* The progress of the source the commit belongs to moves up to it. *)
<1>8. CASE t \in x.plan.touched
  <2>1. r = IF s2 = s THEN x.c ELSE Reached(s2, t)
    <3>1. CASE Strategy = "own_record"
      <4>1. r = own'[s2] /\ own' = [own EXCEPT ![s] = x.c] /\ Reached(s2, t) = own[s2]
        BY <1>6, <3>1 DEF Reached, Write
      <4> QED
        BY <1>1, <4>1 DEF StoreTypeOK
    <3>2. CASE Strategy # "own_record"
      <4>1. r = d.marker[s2] /\ Strategy = "in_document" /\ Reached(s2, t) = doc[t].marker[s2]
        BY <1>5, <1>6, <3>2, StoreAssumption DEF Reached
      <4>2. doc[t].marker \in [Sources -> Nat]
        BY <1>1, DocTyped
      <4> QED
        BY <1>7, <1>8, <4>1, <4>2
    <3> QED
      BY <3>1, <3>2
  <2>2. s2 = s => Reached(s2, t) < x.c
    BY <1>8, Current
  <2>3. Len(Log[s][x.c]) \in Nat
    BY <1>2, LogTyped
  <2>4. InLogOrder(doc[t].content, s2) /\ NoneBeyond(doc[t].content, s2, Reached(s2, t))
    BY <1>3 DEF ContentHolds
  <2>5. InLogOrder(d.content, s2) /\ NoneBeyond(d.content, s2, r)
    BY <1>2, <1>4, <1>7, <1>8, <2>1, <2>2, <2>3, <2>4, GrownOrder
  <2>6. ASSUME NEW k \in Commits(s2), k <= r \/ k <= done[s2] \/ (s2 = s /\ k = x.c)
        PROVE  Has(d.content, s2, k, t)
    <3>1. k \in Nat
      BY LogTyped
    <3>2. CASE s2 = s /\ k = x.c
      BY <1>2, <1>7, <1>8, <3>2, TouchedHas DEF PlanContent
    <3>3. CASE ~ (s2 = s /\ k = x.c)
      <4>1. k <= Reached(s2, t) \/ k <= done[s2]
        BY <1>2, <1>4, <2>1, <2>6, <3>1, <3>3
      <4>2. Has(doc[t].content, s2, k, t)
        BY <1>3, <4>1 DEF ContentHolds
      <4> QED
        BY <1>4, <1>7, <1>8, <4>2, GrownHas
    <3> QED
      BY <3>2, <3>3
  <2> QED
    BY <1>5, <1>6, <2>5, <2>6
<1>9. CASE t \notin x.plan.touched
  <2>1. d = doc[t]
    BY <1>7, <1>9
  <2>2. r = IF s2 = s /\ Strategy = "own_record" THEN x.c ELSE Reached(s2, t)
    <3>1. CASE Strategy = "own_record"
      <4>1. r = own'[s2] /\ own' = [own EXCEPT ![s] = x.c] /\ Reached(s2, t) = own[s2]
        BY <1>6, <3>1 DEF Reached, Write
      <4> QED
        BY <1>1, <3>1, <4>1 DEF StoreTypeOK
    <3>2. CASE Strategy # "own_record"
      BY <1>5, <1>6, <2>1, <3>2 DEF Reached
    <3> QED
      BY <3>1, <3>2
  <2>3. s2 = s /\ Strategy = "own_record" => Reached(s2, t) < x.c
    <3>1. ASSUME s2 = s, Strategy = "own_record" PROVE Reached(s2, t) < x.c
      <4>1. own[s] = x.own /\ x.own < x.c
        BY <1>1, <3>1 DEF Valid, ProgressCurrent, RowHolds
      <4> QED
        BY <3>1, <4>1 DEF Reached
    <3> QED
      BY <3>1
  <2>4. Reached(s2, t) <= r /\ r \in Nat
    BY <1>2, <1>4, <2>2, <2>3
  <2>5. NoneBeyond(doc[t].content, s2, r)
    <3> SUFFICES ASSUME NEW i \in DOMAIN doc[t].content, doc[t].content[i][1] = s2
                 PROVE  doc[t].content[i][2] <= r
      BY DEF NoneBeyond
    <3>1. doc[t].content[i] \in Ids
      BY <1>4
    <3>2. doc[t].content[i][2] \in Nat
      BY <3>1 DEF Ids
    <3>3. doc[t].content[i][2] <= Reached(s2, t)
      BY <1>3 DEF ContentHolds, NoneBeyond
    <3> QED
      BY <1>4, <2>4, <3>2, <3>3
  <2>6. ASSUME NEW k \in Commits(s2), k <= r \/ k <= done[s2] \/ (s2 = s /\ k = x.c)
        PROVE  Has(doc[t].content, s2, k, t)
    <3>1. k \in Nat
      BY LogTyped
    <3>2. CASE s2 = s /\ k = x.c
      BY <1>2, <1>3, <1>9, <3>2, UntouchedHas
    <3>3. CASE ~ (s2 = s /\ k = x.c)
      <4>1. k <= Reached(s2, t) \/ k <= done[s2]
        BY <1>2, <1>4, <2>2, <2>6, <3>1, <3>3
      <4> QED
        BY <1>3, <4>1 DEF ContentHolds
    <3> QED
      BY <3>2, <3>3
  <2>7. InLogOrder(doc[t].content, s2)
    BY <1>3 DEF ContentHolds
  <2> QED
    BY <1>5, <1>6, <2>1, <2>5, <2>6, <2>7
<1> QED
  BY <1>8, <1>9

(* A step in which the transaction commits, whether or not it is reported.   *)
LEMMA Written ==
  ASSUME StoreIInv, NEW w \in Workers, NEW s \in Sources, NEW x, x = task[w][s],
         x.pc = "commit", Valid(w, s), Write(w, s),
         NEW y \in Row, SetTask(w, s, y), RowHolds(y, s),
         \/ done' = done
         \/ done' = [done EXCEPT ![s] = IF x.c = @ + 1 THEN x.c ELSE @]
  PROVE  StoreIInv'
<1>1. StoreTypeOK /\ x \in Row /\ RowHolds(x, s)
  BY DEF StoreIInv, StoreTypeOK
<1>2. /\ x.c \in Commits(s) /\ x.c \in Nat /\ x.c <= done[s] + 1
  BY <1>1, PlanKnown
<1>3. \A s2 \in Sources : done[s2] \in Nat /\ own[s2] \in Nat
  BY <1>1 DEF StoreTypeOK
<1>4. PICK dn : dn = done'
  OBVIOUS
<1>5. /\ dn \in [Sources -> Nat]
      /\ \A s2 \in Sources : dn[s2] = done[s2] \/ (s2 = s /\ dn[s2] = x.c /\ x.c = done[s] + 1)
  <2>1. CASE dn = done
    BY <1>1, <2>1 DEF StoreTypeOK
  <2>2. CASE dn = [done EXCEPT ![s] = IF x.c = @ + 1 THEN x.c ELSE @]
    BY <1>1, <1>2, <2>2 DEF StoreTypeOK
  <2> QED
    BY <1>4, <2>1, <2>2
<1>6. \A s2 \in Sources : done[s2] <= dn[s2]
  BY <1>2, <1>3, <1>5
<1>7. Later
  BY <1>4, <1>6, WriteIsLater
<1>8. own' = IF Strategy = "own_record" THEN [own EXCEPT ![s] = x.c] ELSE own
  BY DEF Write
<1>9. StoreTypeOK'
  <2>1. doc' \in [Docs -> DocRow]
    <3>1. \A t \in Docs : doc'[t] \in DocRow
      BY WriteEffect
    <3>2. DOMAIN doc' = Docs /\ doc' = [t \in DOMAIN doc' |-> doc'[t]]
      BY DEF Write
    <3> QED
      BY <3>1, <3>2
  <2>2. link' \in [Links -> LinkRow]
    <3>1. Plan(w, s) = x.plan /\ x.plan.staged \in LinkMaps
      <4>1. x.plan \in Plans
        BY <1>1, PlanKnown
      <4> QED
        BY <4>1 DEF Plan, Plans
    <3>2. PICK L \in SUBSET Links : x.plan.staged \in [L -> LinkRow]
      BY <3>1 DEF LinkMaps
    <3>3. ASSUME NEW l \in Links
          PROVE  (IF l \notin DOMAIN x.plan.staged THEN link[l]
                  ELSE [target |-> x.plan.staged[l].target, rev |-> x.plan.staged[l].rev + 1]) \in LinkRow
      <4>1. CASE l \notin DOMAIN x.plan.staged
        BY <1>1, <4>1 DEF StoreTypeOK
      <4>2. CASE l \in DOMAIN x.plan.staged
        <5>1. x.plan.staged[l] \in LinkRow
          BY <3>2, <4>2
        <5> QED
          BY <4>2, <5>1 DEF LinkRow
      <4> QED
        BY <4>1, <4>2
    <3> QED
      BY <3>1, <3>3 DEF Write
  <2>3. own' \in [Sources -> Nat]
    BY <1>1, <1>2, <1>8 DEF StoreTypeOK
  <2>4. task' \in [Workers -> [Sources -> Row]]
    BY <1>1, TaskTyped
  <2> QED
    BY <1>4, <1>5, <2>1, <2>2, <2>3, <2>4 DEF StoreTypeOK
<1>10. \A w2 \in Workers, s2 \in Sources : RowHolds(task[w2][s2], s2)'
  <2>1. RowHolds(y, s)'
    BY <1>1, <1>7, <1>9, RowKept
  <2> QED
    BY <1>7, <1>9, <2>1, RowsKept
<1>11. ASSUME NEW s2 \in Sources PROVE ProgressHolds(s2)'
  <2>1. ProgressHolds(s2) /\ ProgressHolds(s)
    BY DEF StoreIInv
  <2>2. x.c <= Len(Log[s])
    <3>1. Len(Log[s]) \in Nat
      BY StoreAssumption
    <3> QED
      BY <1>2, <3>1 DEF Commits
  <2>3. PICK ow : ow = own'
    OBVIOUS
  <2>4. ow[s2] = IF Strategy = "own_record" /\ s2 = s THEN x.c ELSE own[s2]
    BY <1>1, <1>8, <2>3 DEF StoreTypeOK
  <2>5. dn[s2] <= Len(Log[s2]) /\ ow[s2] <= Len(Log[s2])
    BY <1>5, <2>1, <2>2, <2>4 DEF ProgressHolds
  <2>6. ASSUME Strategy = "own_record" PROVE dn[s2] <= ow[s2]
    <3>1. CASE s2 = s
      <4>1. own[s] = x.own /\ x.own < x.c
        BY <1>1, <2>6 DEF Valid, ProgressCurrent, RowHolds
      <4>2. done[s] <= own[s]
        BY <2>1, <2>6 DEF ProgressHolds
      <4>3. done[s] <= x.c
        BY <1>2, <1>3, <4>1, <4>2
      <4> QED
        BY <1>2, <1>3, <1>5, <2>4, <2>6, <3>1, <4>3
    <3>2. CASE s2 # s
      BY <1>5, <2>1, <2>4, <2>6, <3>2 DEF ProgressHolds
    <3> QED
      BY <3>1, <3>2
  <2> QED
    BY <1>4, <2>3, <2>5, <2>6 DEF ProgressHolds
<1>12. ASSUME NEW s2 \in Sources, NEW t \in Docs PROVE ContentHolds(s2, t)'
  <2>1. PICK d : d = doc'[t]
    OBVIOUS
  <2>2. PICK r : r = Reached(s2, t)'
    OBVIOUS
  <2>3. /\ InLogOrder(d.content, s2) /\ NoneBeyond(d.content, s2, r)
        /\ \A k \in Commits(s2) : k <= r \/ k <= done[s2] \/ (s2 = s /\ k = x.c)
                                    => Has(d.content, s2, k, t)
    BY <2>1, <2>2, WriteContent
  <2>4. ASSUME NEW k \in Commits(s2), k <= r \/ k <= dn[s2]
        PROVE  Has(d.content, s2, k, t)
    <3>1. k \in Nat
      BY LogTyped
    <3>2. k <= r \/ k <= done[s2] \/ (s2 = s /\ k = x.c)
      BY <1>2, <1>3, <1>5, <2>4, <3>1
    <3> QED
      BY <2>3, <3>2
  <2> QED
    BY <1>4, <2>1, <2>2, <2>3, <2>4 DEF ContentHolds
<1> QED
  BY <1>9, <1>10, <1>11, <1>12 DEF StoreIInv

-----------------------------------------------------------------------------
(* The actions.                                                            *)

LEMMA RowTyped ==
  ASSUME StoreIInv, NEW w \in Workers, NEW s \in Sources
  PROVE  /\ StoreTypeOK /\ task[w][s] \in Row /\ RowHolds(task[w][s], s)
         /\ own[s] \in Nat /\ done[s] \in Nat
         /\ \A l \in Links : link[l] \in LinkRow
         /\ \A t \in Docs : doc[t] \in DocRow
BY DEF StoreIInv, StoreTypeOK

LEMMA RoutingTyped ==
  ASSUME NEW s \in Sources, NEW c \in Commits(s)
  PROVE  /\ RoutingLinks(Log[s][c]) \subseteq Links
         /\ \A lks \in LinkMaps : ProvisionalTargets(Log[s][c], lks) \subseteq Docs
<1>1. \A i \in DOMAIN Log[s][c] : Log[s][c][i] \in Event
  BY LogTyped
<1>2. \A i \in DOMAIN Log[s][c] : Log[s][c][i].via \in Links \cup {NoLink}
  BY <1>1 DEF Event
<1> QED
  BY <1>1, <1>2, RoutesAreDocs DEF RoutingLinks, ProvisionalTargets

LEMMA NothingRead == Nothing \in DocMaps /\ Nothing \in LinkMaps /\ DOMAIN Nothing = {}
<1>1. Nothing \in [{} -> DocRow] /\ Nothing \in [{} -> LinkRow] /\ DOMAIN Nothing = {}
  BY DEF Nothing
<1> QED
  BY <1>1 DEF DocMaps, LinkMaps

LEMMA BeginStep ==
  ASSUME StoreIInv, NEW w \in Workers, NEW s \in Sources, NEW c \in Commits(s), Begin(w, s, c)
  PROVE  StoreIInv'
<1> DEFINE y == [Idle EXCEPT !.pc = "initial", !.c = c, !.links = RoutingLinks(Log[s][c])]
<1>1. c \in Nat /\ RoutingLinks(Log[s][c]) \in SUBSET Links
  BY LogTyped, RoutingTyped
<1> DEFINE lks == RoutingLinks(Log[s][c])
<1>2. lks \in SUBSET Links /\ y = [Idle EXCEPT !.pc = "initial", !.c = c, !.links = lks]
  BY <1>1
<1> HIDE DEF y, lks
<1>3. y \in Row /\ y.docs = Nothing /\ y.pc = "initial" /\ y.c = c /\ y.links = lks
  BY <1>1, <1>2, IdleTyped DEF Row
<1>4. c <= done[s] + 1 /\ SetTask(w, s, y) /\ UNCHANGED <<store, done>>
  BY DEF Begin, y
<1>5. RowHolds(y, s)
  BY <1>3, <1>4, NothingRead DEF RowHolds, lks
<1> QED
  BY <1>3, <1>4, <1>5, Quiet

LEMMA ReadLinkStep ==
  ASSUME StoreIInv, NEW w \in Workers, NEW s \in Sources, ReadLink(w, s)
  PROVE  StoreIInv'
<1>1. PICK x : x = task[w][s]
  OBVIOUS
<1>2. x \in Row /\ RowHolds(x, s) /\ \A l \in Links : link[l] \in LinkRow
  BY <1>1, RowTyped
<1>3. PICK l \in x.links \ DOMAIN x.lks : SetTask(w, s, [x EXCEPT !.lks = With(@, l, link[l])])
  BY <1>1 DEF ReadLink
<1>4. x.pc \in {"initial", "load"} /\ UNCHANGED <<store, done>>
  BY <1>1 DEF ReadLink
<1> DEFINE lks == With(x.lks, l, link[l])
           y == [x EXCEPT !.lks = lks]
<1>5. lks \in LinkMaps
  <2>1. l \in Links /\ x.lks \in LinkMaps
    BY <1>2 DEF Row
  <2> QED
    BY <1>2, <2>1, WithRow
<1>6. SetTask(w, s, y)
  BY <1>3
<1> HIDE DEF lks
<1>7. y \in Row
  BY <1>2, <1>5 DEF Row
<1>8. y.pc = x.pc /\ y.c = x.c /\ y.docs = x.docs /\ y.links = x.links
  BY <1>2 DEF Row
<1> HIDE DEF y
<1>9. RowHolds(y, s)
  BY <1>2, <1>4, <1>8 DEF RowHolds
<1> QED
  BY <1>4, <1>6, <1>7, <1>9, Quiet

LEMMA ReadDocStep ==
  ASSUME StoreIInv, NEW w \in Workers, NEW s \in Sources, ReadDoc(w, s)
  PROVE  StoreIInv'
<1>1. PICK x : x = task[w][s]
  OBVIOUS
<1>2. x \in Row /\ RowHolds(x, s) /\ StoreTypeOK /\ \A t \in Docs : doc[t] \in DocRow
  BY <1>1, RowTyped
<1>3. PICK t \in x.targets \ DOMAIN x.docs : SetTask(w, s, [x EXCEPT !.docs = With(@, t, doc[t])])
  BY <1>1 DEF ReadDoc
<1>4. x.pc = "load" /\ UNCHANGED <<store, done>>
  BY <1>1 DEF ReadDoc
<1> DEFINE docs == With(x.docs, t, doc[t])
           y == [x EXCEPT !.docs = docs]
<1>5. t \in Docs /\ docs \in DocMaps
  <2>1. t \in Docs /\ x.docs \in DocMaps
    BY <1>2 DEF Row
  <2> QED
    BY <1>2, <2>1, WithDoc
<1>6. SetTask(w, s, y)
  BY <1>3
<1>7. \A u \in DOMAIN docs : Seen(docs[u], u)
  <2>1. Seen(doc[t], t)
    <3>1. doc[t].rev \in Nat /\ \A s2 \in Sources : doc[t].marker[s2] \in Nat
      BY <1>2, <1>5, DocTyped
    <3> QED
      BY <3>1 DEF Seen
  <2>2. DOMAIN docs = DOMAIN x.docs \cup {t}
    BY DEF With
  <2>3. docs[t] = doc[t] /\ \A u \in DOMAIN x.docs : docs[u] = x.docs[u]
    BY <1>3 DEF With
  <2>4. \A u \in DOMAIN x.docs : Seen(x.docs[u], u)
    BY <1>2 DEF RowHolds
  <2> HIDE DEF docs
  <2> QED
    BY <2>1, <2>2, <2>3, <2>4
<1> HIDE DEF docs
<1>8. y \in Row
  BY <1>2, <1>5 DEF Row
<1>9. y.pc = x.pc /\ y.c = x.c /\ y.docs = docs /\ y.links = x.links
  BY <1>2 DEF Row
<1> HIDE DEF y
<1>10. RowHolds(y, s)
  BY <1>2, <1>4, <1>7, <1>9 DEF RowHolds
<1> QED
  BY <1>4, <1>6, <1>8, <1>10, Quiet

LEMMA FinishInitialStep ==
  ASSUME StoreIInv, NEW w \in Workers, NEW s \in Sources, FinishInitial(w, s)
  PROVE  StoreIInv'
<1>1. PICK x : x = task[w][s]
  OBVIOUS
<1>2. x \in Row /\ RowHolds(x, s)
  BY <1>1, RowTyped
<1>3. x.pc = "initial" /\ UNCHANGED store /\ x.c \in Commits(s)
  BY <1>1, <1>2 DEF FinishInitial, RowHolds
<1>4. CASE Strategy = "own_record" /\ x.c <= own[s] /\ Resolve(w, s)
  <2>1. ASSUME NEW t \in Docs PROVE Has(doc[t].content, s, x.c, t)
    <3>1. x.c <= Reached(s, t) /\ ContentHolds(s, t)
      BY <1>4 DEF Reached, StoreIInv
    <3> QED
      BY <1>3, <3>1 DEF ContentHolds
  <2> QED
    BY <1>1, <1>3, <1>4, <2>1, Reported
<1>5. CASE /\ UNCHANGED done
           /\ SetTask(w, s, [x EXCEPT !.pc = "waiting", !.attempt = 1, !.lks = Nothing,
                               !.targets = ProvisionalTargets(Log[s][x.c], x.lks)])
  <2> DEFINE ts == ProvisionalTargets(Log[s][x.c], x.lks)
             y == [x EXCEPT !.pc = "waiting", !.attempt = 1, !.lks = Nothing, !.targets = ts]
  <2>1. ts \in SUBSET Docs
    <3>1. x.lks \in LinkMaps
      BY <1>2 DEF Row
    <3> QED
      BY <1>3, <3>1, RoutingTyped
  <2>2. SetTask(w, s, y)
    BY <1>5
  <2> HIDE DEF ts
  <2>3. y \in Row
    BY <1>2, <2>1, NothingRead DEF Row
  <2>4. y.pc = "waiting" /\ y.c = x.c /\ y.docs = x.docs /\ y.links = x.links
    BY <1>2 DEF Row
  <2> HIDE DEF y
  <2>5. RowHolds(y, s)
    BY <1>2, <1>3, <2>4 DEF RowHolds
  <2> QED
    BY <1>3, <1>5, <2>2, <2>3, <2>5, Quiet
<1> QED
  BY <1>1, <1>4, <1>5 DEF FinishInitial

LEMMA ReserveStep ==
  ASSUME StoreIInv, NEW w \in Workers, NEW s \in Sources, Reserve(w, s)
  PROVE  StoreIInv'
<1>1. PICK x : x = task[w][s]
  OBVIOUS
<1>2. x \in Row /\ RowHolds(x, s)
  BY <1>1, RowTyped
<1> DEFINE y == [x EXCEPT !.pc = "waiting"]
<1>3. x.pc = "reserve" /\ SetTask(w, s, y) /\ UNCHANGED <<store, done>>
  BY <1>1 DEF Reserve
<1>4. y \in Row /\ y.pc = "waiting" /\ y.c = x.c /\ y.docs = x.docs /\ y.links = x.links
  BY <1>2 DEF Row
<1> HIDE DEF y
<1>5. RowHolds(y, s)
  BY <1>2, <1>3, <1>4 DEF RowHolds
<1> QED
  BY <1>3, <1>4, <1>5, Quiet

LEMMA StartStep ==
  ASSUME StoreIInv, NEW w \in Workers, NEW s \in Sources, Start(w, s)
  PROVE  StoreIInv'
<1>1. PICK x : x = task[w][s]
  OBVIOUS
<1>2. x \in Row /\ RowHolds(x, s)
  BY <1>1, RowTyped
<1> DEFINE y == [x EXCEPT !.pc = "load"]
<1>3. x.pc = "waiting" /\ SetTask(w, s, y) /\ UNCHANGED <<store, done>>
  BY <1>1 DEF Start
<1>4. y \in Row /\ y.pc = "load" /\ y.c = x.c /\ y.docs = x.docs /\ y.links = x.links
  BY <1>2 DEF Row
<1> HIDE DEF y
<1>5. RowHolds(y, s)
  BY <1>2, <1>3, <1>4 DEF RowHolds
<1> QED
  BY <1>3, <1>4, <1>5, Quiet

(* An attempt that ends without an outcome.                                  *)
LEMMA Again ==
  ASSUME StoreIInv, NEW w \in Workers, NEW s \in Sources, UNCHANGED <<store, done>>,
         NEW x \in Row, TryAgain(w, s, x), x.c \in Commits(s), x.c <= done[s] + 1,
         RoutingLinks(Log[s][x.c]) \subseteq x.links
  PROVE  StoreIInv'
<1> DEFINE y == [x EXCEPT !.pc = "reserve", !.attempt = @ + 1, !.docs = Nothing,
                          !.lks = Nothing, !.own = 0, !.plan = Nothing]
<1>1. SetTask(w, s, y) \/ SetTask(w, s, Idle)
  BY DEF TryAgain
<1>2. y \in Row /\ y.pc = "reserve" /\ y.c = x.c /\ y.docs = Nothing /\ y.links = x.links
  <2>1. x.attempt + 1 \in Nat
    BY DEF Row
  <2> QED
    BY <2>1, NothingRead DEF Row
<1> HIDE DEF y
<1>3. RowHolds(y, s)
  BY <1>2, NothingRead DEF RowHolds
<1> QED
  BY <1>1, <1>2, <1>3, IdleTyped, IdleHolds, Quiet

LEMMA GaveUp ==
  ASSUME StoreIInv, NEW w \in Workers, NEW s \in Sources, UNCHANGED <<store, done>>,
         SetTask(w, s, Idle)
  PROVE  StoreIInv'
BY IdleTyped, IdleHolds, Quiet

LEMMA FinishLoadStep ==
  ASSUME StoreIInv, NEW w \in Workers, NEW s \in Sources, FinishLoad(w, s)
  PROVE  StoreIInv'
<1>1. PICK x : x = task[w][s]
  OBVIOUS
<1>2. x \in Row /\ RowHolds(x, s) /\ own[s] \in Nat
  BY <1>1, RowTyped
<1>3. x.pc = "load" /\ AllRead(x) /\ UNCHANGED store
  BY <1>1 DEF FinishLoad
<1>4. /\ x.c \in Commits(s) /\ x.c \in Nat /\ x.c <= done[s] + 1
      /\ RoutingLinks(Log[s][x.c]) \subseteq x.links
      /\ x.docs \in DocMaps /\ x.lks \in LinkMaps
      /\ \A t \in DOMAIN x.docs : Seen(x.docs[t], t)
  <2>1. x.c \in Commits(s)
    BY <1>2, <1>3 DEF RowHolds
  <2> QED
    BY <1>2, <1>3, <2>1, LogTyped DEF RowHolds, Row
<1>5. PICK red : red = Reduce(s, x.c, x.docs, x.lks)
  OBVIOUS
<1>6. Reduced(red, s, x.c, x.docs, Len(Log[s][x.c])) /\ red \in Plans
  BY <1>4, <1>5, ReduceHolds DEF Reduced
<1>7. CASE /\ Deduplicated(s, x.c, red, own[s]) /\ (~NeedsSnapshot(red) \/ Strategy = "own_record")
           /\ Resolve(w, s)
  <2>1. ASSUME NEW t \in Docs PROVE Has(doc[t].content, s, x.c, t)
    <3>1. CASE Strategy = "own_record"
      <4>1. x.c <= Reached(s, t) /\ ContentHolds(s, t)
        BY <1>7, <3>1 DEF Reached, StoreIInv, Deduplicated
      <4> QED
        BY <1>4, <4>1 DEF ContentHolds
    <3>2. CASE Strategy # "own_record"
      <4>1. red.touched = {} /\ red.missingDocs = {}
        BY <1>7, <3>2 DEF Deduplicated, NeedsSnapshot
      <4> QED
        BY <1>4, <1>6, <4>1, UntouchedHas
    <3> QED
      BY <3>1, <3>2
  <2>2. Strategy = "own_record" => x.c <= own[s]
    BY <1>7 DEF Deduplicated
  <2> QED
    BY <1>1, <1>3, <1>4, <1>7, <2>1, <2>2, Reported
<1>8. CASE /\ TryAgain(w, s, [x EXCEPT !.targets = @ \cup red.missingDocs, !.links = @ \cup red.missingLinks])
           /\ UNCHANGED done
  <2> DEFINE ts == x.targets \cup red.missingDocs
             ls == x.links \cup red.missingLinks
             y == [x EXCEPT !.targets = ts, !.links = ls]
  <2>1. ts \in SUBSET Docs /\ ls \in SUBSET Links /\ x.links \subseteq ls
    BY <1>2, <1>6 DEF Row, Plans
  <2>2. TryAgain(w, s, y)
    BY <1>8
  <2> HIDE DEF ts, ls
  <2>3. y \in Row /\ y.c = x.c /\ y.links = ls
    BY <1>2, <2>1 DEF Row
  <2> HIDE DEF y
  <2>4. RoutingLinks(Log[s][y.c]) \subseteq y.links
    BY <1>4, <2>1, <2>3
  <2>5. UNCHANGED <<store, done>> /\ y.c \in Commits(s) /\ y.c <= done[s] + 1
    BY <1>3, <1>4, <1>8, <2>3
  <2> QED
    BY <2>2, <2>3, <2>4, <2>5, Again
<1>9. CASE SetTask(w, s, Idle) /\ UNCHANGED done
  BY <1>3, <1>9, GaveUp
<1>10. CASE /\ ~Deduplicated(s, x.c, red, own[s]) /\ ~NeedsSnapshot(red) /\ UNCHANGED done
            /\ SetTask(w, s, [x EXCEPT !.pc = "commit", !.own = own[s], !.plan = red])
  <2> DEFINE y == [x EXCEPT !.pc = "commit", !.own = own[s], !.plan = red]
  <2>1. /\ y \in Row /\ y.pc = "commit" /\ y.c = x.c /\ y.docs = x.docs /\ y.links = x.links
        /\ y.lks = x.lks /\ y.own = own[s] /\ y.plan = red
    BY <1>2, <1>6 DEF Row
  <2>2. SetTask(w, s, y)
    BY <1>10
  <2> HIDE DEF y
  <2>3. DOMAIN x.lks = x.links
    BY <1>3 DEF AllRead
  <2>4. Strategy = "own_record" => own[s] < x.c
    BY <1>2, <1>4, <1>10 DEF Deduplicated
  <2>5. RowHolds(y, s)
    BY <1>4, <1>5, <1>10, <2>1, <2>3, <2>4 DEF RowHolds
  <2> QED
    BY <1>3, <1>10, <2>1, <2>2, <2>5, Quiet
<1> QED
  BY <1>1, <1>5, <1>7, <1>8, <1>9, <1>10 DEF FinishLoad

LEMMA CommitStep ==
  ASSUME StoreIInv, NEW w \in Workers, NEW s \in Sources, Commit(w, s)
  PROVE  StoreIInv'
<1>1. PICK x : x = task[w][s]
  OBVIOUS
<1>2. x.pc = "commit" /\ Valid(w, s) /\ Write(w, s) /\ Resolve(w, s)
  BY <1>1 DEF Commit
<1>3. SetTask(w, s, Idle) /\ done' = [done EXCEPT ![s] = IF x.c = @ + 1 THEN x.c ELSE @]
  BY <1>1, <1>2 DEF Resolve
<1> QED
  BY <1>1, <1>2, <1>3, IdleTyped, IdleHolds, Written

LEMMA ReplyLostStep ==
  ASSUME StoreIInv, NEW w \in Workers, NEW s \in Sources, ReplyLost(w, s)
  PROVE  StoreIInv'
<1>1. PICK x : x = task[w][s]
  OBVIOUS
<1>2. x.pc = "commit" /\ Valid(w, s) /\ Write(w, s) /\ SetTask(w, s, Idle) /\ done' = done
  BY <1>1 DEF ReplyLost
<1> QED
  BY <1>1, <1>2, IdleTyped, IdleHolds, Written

LEMMA OutcomeUnknownStep ==
  ASSUME StoreIInv, NEW w \in Workers, NEW s \in Sources, OutcomeUnknown(w, s)
  PROVE  StoreIInv'
<1>1. PICK x : x = task[w][s]
  OBVIOUS
<1>2. x \in Row /\ RowHolds(x, s)
  BY <1>1, RowTyped
<1>3. x.pc = "commit" /\ Valid(w, s) /\ done' = done /\ (Write(w, s) \/ UNCHANGED store)
  BY <1>1 DEF OutcomeUnknown
<1> DEFINE y == [x EXCEPT !.pc = "reconcile", !.targets = x.plan.touched, !.links = DOMAIN x.plan.staged]
<1>4. SetTask(w, s, y)
  BY <1>1 DEF OutcomeUnknown
<1>5. x.plan.touched \in SUBSET Docs /\ DOMAIN x.plan.staged \in SUBSET Links
  <2>1. x.plan \in Plans
    BY <1>2, <1>3, PlanKnown
  <2> QED
    BY <2>1 DEF Plans, LinkMaps
<1>6. /\ y \in Row /\ y.pc = "reconcile" /\ y.c = x.c /\ y.docs = x.docs /\ y.lks = x.lks
      /\ y.own = x.own /\ y.plan = x.plan /\ y.targets = x.plan.touched
  BY <1>2, <1>5 DEF Row
<1> HIDE DEF y
<1>7. RowHolds(y, s)
  BY <1>2, <1>3, <1>6 DEF RowHolds
<1>8. CASE Write(w, s)
  BY <1>1, <1>3, <1>4, <1>6, <1>7, <1>8, Written
<1>9. CASE UNCHANGED store
  BY <1>3, <1>4, <1>6, <1>7, <1>9, Quiet
<1> QED
  BY <1>3, <1>8, <1>9

LEMMA ConflictStep ==
  ASSUME StoreIInv, NEW w \in Workers, NEW s \in Sources, Conflict(w, s)
  PROVE  StoreIInv'
<1>1. PICK x : x = task[w][s]
  OBVIOUS
<1>2. x \in Row /\ RowHolds(x, s) /\ x.pc = "commit" /\ UNCHANGED <<store, done>>
  BY <1>1, RowTyped DEF Conflict
<1>3. CASE SetTask(w, s, Idle)
  BY <1>2, <1>3, GaveUp
<1>4. CASE TryAgain(w, s, [x EXCEPT !.conflicts = @ + 1])
  <2> DEFINE y == [x EXCEPT !.conflicts = @ + 1]
  <2>1. x.conflicts + 1 \in Nat
    BY <1>2 DEF Row
  <2>2. y \in Row /\ y.c = x.c /\ y.links = x.links
    BY <1>2, <2>1 DEF Row
  <2>3. TryAgain(w, s, y)
    BY <1>4
  <2> HIDE DEF y
  <2>4. /\ y.c \in Commits(s) /\ y.c <= done[s] + 1
        /\ RoutingLinks(Log[s][y.c]) \subseteq y.links
    BY <1>2, <2>2 DEF RowHolds
  <2> QED
    BY <1>2, <2>2, <2>3, <2>4, Again
<1> QED
  BY <1>1, <1>3, <1>4 DEF Conflict

LEMMA ReconcileRowStep ==
  ASSUME StoreIInv, NEW w \in Workers, NEW s \in Sources, ReconcileRow(w, s)
  PROVE  StoreIInv'
<1>1. PICK x : x = task[w][s]
  OBVIOUS
<1>2. x \in Row /\ RowHolds(x, s) /\ x.pc = "reconcile" /\ UNCHANGED <<store, done>> /\ StoreTypeOK
  BY <1>1, RowTyped DEF ReconcileRow
<1>3. x.docs \in DocMaps /\ x.c \in Nat /\ x.targets \in SUBSET Docs /\ x.links \in SUBSET Links
  BY <1>2 DEF Row
<1>4. CASE \E t \in x.targets : DocWritten(w, s, t) /\ SetTask(w, s, [x EXCEPT !.targets = @ \ {t}])
  <2>1. PICK t \in x.targets : DocWritten(w, s, t) /\ SetTask(w, s, [x EXCEPT !.targets = @ \ {t}])
    BY <1>4
  <2> DEFINE ts == x.targets \ {t}
             y == [x EXCEPT !.targets = ts]
  <2>2. SetTask(w, s, y)
    BY <2>1
  <2>3. ts \in SUBSET Docs /\ \A u : u \notin ts => u \notin x.targets \/ u = t
    BY <1>3
  <2> HIDE DEF ts
  <2>4. /\ y \in Row /\ y.pc = "reconcile" /\ y.c = x.c /\ y.docs = x.docs /\ y.lks = x.lks
        /\ y.own = x.own /\ y.plan = x.plan /\ y.targets = ts
    BY <1>2, <2>3 DEF Row
  <2> HIDE DEF y
  <2>5. ASSUME Strategy = "in_document", NEW u \in x.plan.touched \ ts
        PROVE  x.c <= doc[u].marker[s]
    <3>1. CASE u \notin x.targets
      BY <1>2, <2>5, <3>1 DEF RowHolds
    <3>2. CASE u = t
      <4>1. doc[t].marker = [x.docs[t].marker EXCEPT ![s] = x.c]
        BY <1>1, <2>1, <2>5 DEF DocWritten
      <4>2. t \in DOMAIN x.docs
        BY <1>2, <2>5, <3>2, PlanKnown
      <4>3. x.docs[t].marker \in [Sources -> Nat]
        BY <1>3, <4>2, ReadTyped
      <4>4. doc[t].marker[s] = x.c
        BY <4>1, <4>3
      <4> QED
        BY <1>3, <3>2, <4>4
    <3> QED
      BY <2>3, <2>5, <3>1, <3>2
  <2>6. RowHolds(y, s)
    BY <1>2, <2>4, <2>5 DEF RowHolds
  <2> QED
    BY <1>2, <2>2, <2>4, <2>6, Quiet
<1>5. CASE \E l \in x.links : LinkWritten(w, s, l) /\ SetTask(w, s, [x EXCEPT !.links = @ \ {l}])
  <2>1. PICK l \in x.links : SetTask(w, s, [x EXCEPT !.links = @ \ {l}])
    BY <1>5
  <2> DEFINE ls == x.links \ {l}
             y == [x EXCEPT !.links = ls]
  <2>2. SetTask(w, s, y) /\ ls \in SUBSET Links
    BY <1>3, <2>1
  <2> HIDE DEF ls
  <2>3. /\ y \in Row /\ y.pc = "reconcile" /\ y.c = x.c /\ y.docs = x.docs /\ y.lks = x.lks
        /\ y.own = x.own /\ y.plan = x.plan /\ y.targets = x.targets
    BY <1>2, <2>2 DEF Row
  <2> HIDE DEF y
  <2>4. RowHolds(y, s)
    BY <1>2, <2>3 DEF RowHolds
  <2> QED
    BY <1>2, <2>2, <2>3, <2>4, Quiet
<1> QED
  BY <1>1, <1>4, <1>5 DEF ReconcileRow

LEMMA ReconciledStep ==
  ASSUME StoreIInv, NEW w \in Workers, NEW s \in Sources, Reconciled(w, s)
  PROVE  StoreIInv'
<1>1. PICK x : x = task[w][s]
  OBVIOUS
<1>2. /\ x \in Row /\ RowHolds(x, s) /\ x.pc = "reconcile" /\ x.targets = {}
      /\ UNCHANGED store /\ Resolve(w, s) /\ (Strategy = "own_record" => own[s] = x.c)
  BY <1>1, RowTyped DEF Reconciled
<1>3. /\ x.c \in Commits(s) /\ x.c \in Nat /\ x.docs \in DocMaps
      /\ Reduced(x.plan, s, x.c, x.docs, Len(Log[s][x.c])) /\ x.plan.missingDocs = {}
  BY <1>2, PlanKnown
<1>4. ASSUME NEW t \in Docs PROVE Has(doc[t].content, s, x.c, t)
  <2>1. ContentHolds(s, t)
    BY DEF StoreIInv
  <2>2. CASE Strategy = "own_record"
    BY <1>2, <1>3, <2>1, <2>2 DEF ContentHolds, Reached
  <2>3. CASE Strategy = "in_document" /\ t \in x.plan.touched
    <3>1. x.c <= doc[t].marker[s]
      BY <1>2, <2>3 DEF RowHolds
    <3>2. x.c <= Reached(s, t)
      BY <2>3, <3>1 DEF Reached
    <3> QED
      BY <1>3, <2>1, <3>2 DEF ContentHolds
  <2>4. CASE t \notin x.plan.touched
    <3>1. \A u \in DOMAIN x.docs : Seen(x.docs[u], u)
      BY <1>2 DEF RowHolds
    <3> QED
      BY <1>3, <2>4, <3>1, UntouchedHas
  <2> QED
    BY <2>2, <2>3, <2>4, StoreAssumption
<1> QED
  BY <1>1, <1>2, <1>3, <1>4, Reported

LEMMA CrashStep ==
  ASSUME StoreIInv, NEW w \in Workers, Crash(w)
  PROVE  StoreIInv'
<1>1. doc' = doc /\ link' = link /\ own' = own /\ done' = done
  BY DEF Crash, store
<1>2. task' = [task EXCEPT ![w] = [s \in Sources |-> Idle]] /\ StoreTypeOK
  BY DEF Crash, StoreIInv
<1>3. [s \in Sources |-> Idle] \in [Sources -> Row]
  BY IdleTyped
<1>4. task' \in [Workers -> [Sources -> Row]]
  BY <1>2, <1>3 DEF StoreTypeOK
<1>5. StoreTypeOK'
  BY <1>1, <1>2, <1>4 DEF StoreTypeOK
<1>6. ASSUME NEW w2 \in Workers, NEW s2 \in Sources PROVE RowHolds(task[w2][s2], s2)'
  <2>1. PICK z : z = task'[w2][s2]
    OBVIOUS
  <2>2. z = Idle \/ z = task[w2][s2]
    BY <1>2, <2>1 DEF StoreTypeOK
  <2>3. RowHolds(z, s2)
    BY <2>2, IdleHolds DEF StoreIInv
  <2>4. RowHolds(z, s2)'
    BY <1>1, <2>3 DEF RowHolds, Seen
  <2> QED
    BY <2>1, <2>4
<1>7. \A s2 \in Sources : ProgressHolds(s2)'
  BY <1>1 DEF StoreIInv, ProgressHolds
<1>8. \A s2 \in Sources, t \in Docs : ContentHolds(s2, t)'
  BY <1>1 DEF StoreIInv, ContentHolds, Reached
<1> QED
  BY <1>5, <1>6, <1>7, <1>8 DEF StoreIInv

LEMMA StoreInit == Init => StoreIInv
<1> SUFFICES ASSUME Init PROVE StoreIInv
  OBVIOUS
<1>1. /\ \A t \in Docs : doc[t] = [rev |-> 0, content |-> <<>>, marker |-> [s \in Sources |-> 0]]
      /\ \A s \in Sources : own[s] = 0 /\ done[s] = 0
      /\ \A w \in Workers, s \in Sources : task[w][s] = Idle
  BY DEF Init
<1>2. StoreTypeOK
  <2>1. [rev |-> 0, content |-> <<>>, marker |-> [s \in Sources |-> 0]] \in DocRow
    <3>1. <<>> \in Seq(Ids)
      OBVIOUS
    <3> QED
      BY <3>1 DEF DocRow
  <2>2. doc \in [Docs -> DocRow]
    BY <2>1 DEF Init
  <2>3. link \in [Links -> LinkRow] /\ own \in [Sources -> Nat] /\ done \in [Sources -> Nat]
    BY DEF Init, LinkRow
  <2>4. task \in [Workers -> [Sources -> Row]]
    BY IdleTyped DEF Init
  <2> QED
    BY <2>2, <2>3, <2>4 DEF StoreTypeOK
<1>3. \A s \in Sources : Len(Log[s]) \in Nat
  BY StoreAssumption
<1>4. \A s \in Sources : ProgressHolds(s)
  BY <1>1, <1>3 DEF ProgressHolds
<1>5. ASSUME NEW s \in Sources, NEW t \in Docs PROVE ContentHolds(s, t)
  <2>1. doc[t].content = <<>> /\ Reached(s, t) = 0 /\ done[s] = 0
    BY <1>1 DEF Reached
  <2>2. InLogOrder(doc[t].content, s) /\ NoneBeyond(doc[t].content, s, Reached(s, t))
    BY <2>1 DEF InLogOrder, NoneBeyond
  <2>3. \A c \in Commits(s) : ~ (c <= 0)
    BY LogTyped
  <2> QED
    BY <2>1, <2>2, <2>3 DEF ContentHolds
<1>6. \A w \in Workers, s \in Sources : RowHolds(task[w][s], s)
  BY <1>1, IdleHolds
<1> QED
  BY <1>2, <1>4, <1>5, <1>6 DEF StoreIInv

LEMMA StoreNext == StoreIInv /\ [Next]_vars => StoreIInv'
<1> SUFFICES ASSUME StoreIInv, [Next]_vars PROVE StoreIInv'
  OBVIOUS
<1>1. ASSUME NEW w \in Workers, NEW s \in Sources, NEW c \in Commits(s), Begin(w, s, c)
      PROVE  StoreIInv'
  BY <1>1, BeginStep
<1>2. ASSUME NEW w \in Workers, NEW s \in Sources, ExecutorStep(w, s) PROVE StoreIInv'
  <2>1. CASE ReadLink(w, s)      BY <2>1, ReadLinkStep
  <2>2. CASE ReadDoc(w, s)       BY <2>2, ReadDocStep
  <2>3. CASE FinishInitial(w, s) BY <2>3, FinishInitialStep
  <2>4. CASE Reserve(w, s)       BY <2>4, ReserveStep
  <2>5. CASE Start(w, s)         BY <2>5, StartStep
  <2>6. CASE FinishLoad(w, s)    BY <2>6, FinishLoadStep
  <2>7. CASE Commit(w, s)        BY <2>7, CommitStep
  <2>8. CASE Conflict(w, s)      BY <2>8, ConflictStep
  <2>9. CASE ReconcileRow(w, s)  BY <2>9, ReconcileRowStep
  <2>10. CASE Reconciled(w, s)   BY <2>10, ReconciledStep
  <2>11. CASE NotReconciled(w, s)
    <3>1. SetTask(w, s, Idle) /\ UNCHANGED <<store, done>>
      BY <2>11 DEF NotReconciled
    <3> QED
      BY <3>1, GaveUp
  <2> QED
    BY <1>2, <2>1, <2>2, <2>3, <2>4, <2>5, <2>6, <2>7, <2>8, <2>9, <2>10, <2>11 DEF ExecutorStep
<1>3. ASSUME NEW w \in Workers, NEW s \in Sources, CallFails(w, s) PROVE StoreIInv'
  <2>1. SetTask(w, s, Idle) /\ UNCHANGED <<store, done>>
    BY <1>3 DEF CallFails
  <2> QED
    BY <2>1, GaveUp
<1>4. ASSUME NEW w \in Workers, NEW s \in Sources, ReplyLost(w, s) PROVE StoreIInv'
  BY <1>4, ReplyLostStep
<1>5. ASSUME NEW w \in Workers, NEW s \in Sources, OutcomeUnknown(w, s) PROVE StoreIInv'
  BY <1>5, OutcomeUnknownStep
<1>6. ASSUME NEW w \in Workers, Crash(w) PROVE StoreIInv'
  BY <1>6, CrashStep
<1>7. CASE UNCHANGED vars
  <2>1. doc' = doc /\ link' = link /\ own' = own /\ done' = done /\ task' = task
    BY <1>7 DEF vars, store
  <2> QED
    BY <2>1 DEF StoreIInv, StoreTypeOK, ProgressHolds, ContentHolds, Reached, RowHolds, Seen
<1> QED
  BY <1>1, <1>2, <1>3, <1>4, <1>5, <1>6, <1>7 DEF Next

(* However executions of any number of workers interleave their reads,       *)
(* retries and transactions, and whichever replies are lost or outcomes       *)
(* reconciled, a document holds each event of a source at most once, in the   *)
(* order of its log, and none of a commit reported as folded is missing       *)
(* (projectionDefinitionExecutor.ts:148-183, MongoProjectionStore.ts:167-196). *)
THEOREM FoldsOnceInOrder == Spec => []FoldedOnceInOrder
<1>1. StoreIInv => FoldedOnceInOrder
  <2> SUFFICES ASSUME StoreIInv, NEW s \in Sources, NEW t \in Docs
               PROVE  /\ InLogOrder(doc[t].content, s)
                      /\ \A c \in 1..done[s] : \A i \in DOMAIN Log[s][c] :
                           t \in Log[s][c][i].to => Contains(doc[t].content, <<s, c, i>>)
    BY DEF FoldedOnceInOrder, InLogOrder
  <2>1. ContentHolds(s, t) /\ ProgressHolds(s) /\ done[s] \in Nat
    BY DEF StoreIInv, StoreTypeOK
  <2>2. ASSUME NEW c \in 1..done[s] PROVE Has(doc[t].content, s, c, t)
    <3>1. c \in Nat /\ c >= 1 /\ c <= done[s]
      BY <2>1
    <3>2. Len(Log[s]) \in Nat /\ done[s] <= Len(Log[s])
      BY <2>1, StoreAssumption DEF ProgressHolds
    <3>3. c \in Commits(s)
      BY <2>1, <3>1, <3>2 DEF Commits
    <3> QED
      BY <2>1, <3>1, <3>3 DEF ContentHolds
  <2> QED
    BY <2>1, <2>2 DEF ContentHolds, Has
<1> QED
  BY <1>1, StoreInit, StoreNext, PTL DEF Spec

-----------------------------------------------------------------------------
(* Two reductions of one commit: against what an execution read, and against  *)
(* what stands when its transaction is accepted.                             *)

LinksAlike(r1, r2, L) ==
  /\ L \subseteq DOMAIN r1.links
  /\ r1.staged = r2.staged
  /\ \A l \in DOMAIN r1.links : l \in DOMAIN r2.links /\ r2.links[l] = r1.links[l]

DocsAlike(r1, r2, F) ==
  /\ r1.touched = r2.touched
  /\ F \subseteq DOMAIN r1.content /\ F \subseteq DOMAIN r2.content
  /\ \A t \in F : r1.content[t] = r2.content[t]

Alike(r1, r2, F, L) ==
  /\ r1 \in Plans /\ r2 \in Plans
  /\ LinksAlike(r1, r2, L) /\ DocsAlike(r1, r2, F)

LEMMA StagingAlike ==
  ASSUME NEW r1 \in Plans, NEW r2 \in Plans, NEW e \in Event, NEW t \in Docs, NEW L,
         LinksAlike(r1, r2, L), StageLink(r1, e, t).missingLinks = {}
  PROVE  /\ r1.missingLinks = {}
         /\ LinksAlike(StageLink(r1, e, t), StageLink(r2, e, t), L)
<1> DEFINE target == IF e.op = "subscribe" THEN t ELSE NoDoc
<1>1. CASE e.op = "none"
  BY <1>1 DEF StageLink
<1>2. CASE e.op # "none" /\ e.link \notin DOMAIN r1.links
  <2>1. StageLink(r1, e, t) = [r1 EXCEPT !.missingLinks = @ \cup {e.link},
                                 !.links = With(@, e.link, [target |-> target, rev |-> 0])]
    BY <1>2 DEF StageLink
  <2>2. StageLink(r1, e, t).missingLinks = r1.missingLinks \cup {e.link}
    BY <2>1 DEF Plans
  <2> QED
    BY <2>2
<1>3. CASE e.op # "none" /\ e.link \in DOMAIN r1.links
  <2> DEFINE k == e.link
  <2>1. k \in DOMAIN r2.links /\ r2.links[k] = r1.links[k]
    BY <1>3 DEF LinksAlike
  <2> DEFINE row == [target |-> target, rev |-> r1.links[k].rev]
             l1 == [r1.links EXCEPT ![k].target = target]
             l2 == [r2.links EXCEPT ![k].target = target]
             g1 == With(r1.staged, k, row)
             g2 == With(r2.staged, k, row)
             o1 == StageLink(r1, e, t)
             o2 == StageLink(r2, e, t)
  <2>2. o1 = [r1 EXCEPT !.staged = g1, !.links = l1]
    BY <1>3 DEF StageLink
  <2>3. o2 = [r2 EXCEPT !.staged = g2, !.links = l2]
    BY <1>3, <2>1 DEF StageLink
  <2>4. DOMAIN l1 = DOMAIN r1.links /\ DOMAIN l2 = DOMAIN r2.links
    OBVIOUS
  <2>5. \A l \in DOMAIN r1.links : l2[l] = l1[l]
    <3>1. \A l \in DOMAIN r1.links : l \in DOMAIN r2.links /\ r2.links[l] = r1.links[l]
      BY DEF LinksAlike
    <3>2. l1[k] = [r1.links[k] EXCEPT !.target = target] /\ l2[k] = [r2.links[k] EXCEPT !.target = target]
      BY <1>3, <2>1
    <3>3. \A l \in DOMAIN r1.links : l # k => l1[l] = r1.links[l] /\ l2[l] = r2.links[l]
      BY <3>1
    <3> QED
      BY <2>1, <3>1, <3>2, <3>3
  <2>6. g1 = g2
    BY DEF LinksAlike
  <2> HIDE DEF l1, l2, g1, g2, o1, o2
  <2>7. o1.links = l1 /\ o2.links = l2 /\ o1.staged = g1 /\ o2.staged = g2 /\ o1.missingLinks = r1.missingLinks
    BY <2>2, <2>3 DEF Plans
  <2>8. LinksAlike(o1, o2, L)
    BY <2>4, <2>5, <2>6, <2>7 DEF LinksAlike
  <2> QED
    BY <2>7, <2>8 DEF o1, o2
<1> QED
  BY <1>1, <1>2, <1>3

LEMMA ContentTyped ==
  ASSUME NEW r \in Plans
  PROVE  DOMAIN r.content \in SUBSET Docs
BY DEF Plans, Contents

LEMMA HandlingAlike ==
  ASSUME NEW r1, NEW r2, NEW F, NEW L, NEW e \in Event, NEW id \in Ids,
         NEW t \in F, Alike(r1, r2, F, L), ApplyHandler(r1, e, id, t).missingLinks = {}
  PROVE  /\ r1.missingLinks = {}
         /\ Alike(ApplyHandler(r1, e, id, t), ApplyHandler(r2, e, id, t), F, L)
<1>1. /\ r1 \in Plans /\ r2 \in Plans /\ LinksAlike(r1, r2, L) /\ DocsAlike(r1, r2, F)
      /\ t \in DOMAIN r1.content /\ t \in DOMAIN r2.content
  BY DEF Alike, DocsAlike
<1>2. DOMAIN r1.content \in SUBSET Docs /\ DOMAIN r2.content \in SUBSET Docs
  BY <1>1, ContentTyped
<1> DEFINE o1 == ApplyHandler(r1, e, id, t)
           o2 == ApplyHandler(r2, e, id, t)
<1>3. /\ o1 \in Plans /\ o1.touched = r1.touched \cup {t}
      /\ o1.content = [r1.content EXCEPT ![t] = Append(@, id)]
  BY <1>1, <1>2, Handling
<1>4. /\ o2 \in Plans /\ o2.touched = r2.touched \cup {t}
      /\ o2.content = [r2.content EXCEPT ![t] = Append(@, id)]
  BY <1>1, <1>2, Handling
<1>5. r1.missingLinks = {} /\ LinksAlike(o1, o2, L)
  <2> DEFINE b1 == Marked(r1, id, t)
             b2 == Marked(r2, id, t)
  <2>1. o1 = StageLink(b1, e, t) /\ o2 = StageLink(b2, e, t)
    BY DEF ApplyHandler, Marked
  <2>2. /\ b1 \in Plans /\ b1.links = r1.links /\ b1.staged = r1.staged
        /\ b1.missingLinks = r1.missingLinks /\ t \in Docs
    BY ZenonT(60), <1>1, Marking
  <2>3. b2 \in Plans /\ b2.links = r2.links /\ b2.staged = r2.staged
    BY ZenonT(60), <1>1, Marking
  <2>4. LinksAlike(b1, b2, L)
    BY <1>1, <2>2, <2>3 DEF LinksAlike
  <2>5. StageLink(b1, e, t).missingLinks = {}
    BY <2>1
  <2> HIDE DEF b1, b2, o1, o2
  <2>6. b1.missingLinks = {} /\ LinksAlike(o1, o2, L)
    BY <2>1, <2>2, <2>3, <2>4, <2>5, StagingAlike
  <2> QED
    BY <2>2, <2>6
<1> HIDE DEF o1, o2
<1>6. DocsAlike(o1, o2, F)
  <2>1. o1.touched = o2.touched
    BY <1>1, <1>3, <1>4 DEF DocsAlike
  <2>2. F \subseteq DOMAIN o1.content /\ F \subseteq DOMAIN o2.content
    BY <1>1, <1>3, <1>4 DEF DocsAlike
  <2>3. ASSUME NEW u \in F PROVE o1.content[u] = o2.content[u]
    <3>1. u \in DOMAIN r1.content /\ u \in DOMAIN r2.content /\ r1.content[u] = r2.content[u]
      BY <1>1 DEF DocsAlike
    <3>2. o1.content[u] = IF u = t THEN Append(r1.content[u], id) ELSE r1.content[u]
      BY <1>3, <3>1
    <3>3. o2.content[u] = IF u = t THEN Append(r2.content[u], id) ELSE r2.content[u]
      BY <1>4, <3>1
    <3> QED
      BY <3>1, <3>2, <3>3
  <2> QED
    BY <2>1, <2>2, <2>3 DEF DocsAlike
<1>7. Alike(o1, o2, F, L)
  BY <1>3, <1>4, <1>5, <1>6 DEF Alike
<1> QED
  BY <1>5, <1>7 DEF o1, o2

LEMMA HandlersAlike ==
  ASSUME NEW r1, NEW r2, NEW F, NEW L, NEW e \in Event, NEW id \in Ids, NEW K, K \subseteq F,
         Alike(r1, r2, F, L), FoldHandlers(e, id, r1, InOrder(K)).missingLinks = {}
  PROVE  /\ r1.missingLinks = {}
         /\ Alike(FoldHandlers(e, id, r1, InOrder(K)), FoldHandlers(e, id, r2, InOrder(K)), F, L)
<1> DEFINE q == InOrder(K)
           n == Cardinality(K)
<1>1. n \in Nat /\ q \in [1..n -> K]
  <2>1. F \subseteq DOMAIN r1.content /\ r1 \in Plans
    BY DEF Alike, DocsAlike
  <2>2. K \in SUBSET Docs
    BY <2>1, ContentTyped
  <2>3. K \in SUBSET Nat /\ IsFiniteSet(K)
    BY <2>2, StoreAssumption, FS_Subset
  <2> QED
    BY <2>3, Ordered
<1> HIDE DEF q, n
<1>2. n \in Nat /\ DOMAIN q = 1..n
  BY <1>1
<1>3. PICK h1 : HandlersTrace(h1, e, id, r1, n, q)
  BY <1>2, HandlersFold, Zenon
<1>4. PICK h2 : HandlersTrace(h2, e, id, r2, n, q)
  BY <1>2, HandlersFold, Zenon
<1> DEFINE D == DOMAIN r1.content
           Same(k) == /\ h1[k] \in Plans /\ DOMAIN h1[k].content = D
                      /\ h1[k].missingLinks = {} => r1.missingLinks = {} /\ Alike(h1[k], h2[k], F, L)
           T == {k \in Nat : k <= n => Same(k)}
<1>5. F \subseteq D /\ r1 \in Plans /\ D \in SUBSET Docs
  BY ContentTyped DEF Alike, DocsAlike
<1> HIDE DEF D
<1>6. 0 \in T
  BY <1>3, <1>4, <1>5 DEF HandlersTrace, D
<1>7. ASSUME NEW k \in Nat, k < n, k \in T PROVE k + 1 \in T
  <2> DEFINE a == h1[k]
             b == h2[k]
             t == q[k + 1]
             o == h1[k + 1]
  <2>1. k + 1 \in 1..n /\ (k + 1) - 1 = k /\ k <= n
    BY <1>1, <1>7
  <2>2. Same(k)
    BY <1>7, <2>1
  <2>3. o = ApplyHandler(a, e, id, t) /\ h2[k + 1] = ApplyHandler(b, e, id, t)
    BY <1>3, <1>4, <2>1 DEF HandlersTrace
  <2>4. t \in F /\ t \in D
    BY <1>1, <1>5, <2>1
  <2>5. /\ a \in Plans /\ DOMAIN a.content = D
        /\ a.missingLinks = {} => r1.missingLinks = {} /\ Alike(a, b, F, L)
    BY <2>2
  <2> HIDE DEF a, b, t, o
  <2>6. o \in Plans /\ o.content = [a.content EXCEPT ![t] = Append(@, id)] /\ a.missingLinks \subseteq o.missingLinks
    BY <1>5, <2>3, <2>4, <2>5, Handling DEF LinksGrow
  <2>7. DOMAIN o.content = D
    BY <2>5, <2>6
  <2>8. ASSUME o.missingLinks = {} PROVE r1.missingLinks = {} /\ Alike(o, h2[k + 1], F, L)
    <3>1. a.missingLinks = {}
      BY <2>6, <2>8
    <3> QED
      BY <2>3, <2>4, <2>5, <2>8, <3>1, HandlingAlike
  <2>9. Same(k + 1)
    BY <2>6, <2>7, <2>8 DEF o
  <2> QED
    BY <2>9
<1> HIDE DEF T
<1>8. n \in T
  <2>1. \A k \in 0..n : k \in T
    BY <1>1, <1>6, <1>7, UpTo
  <2> QED
    BY <1>1, <2>1
<1>9. Same(n)
  BY <1>1, <1>8 DEF T
<1>10. FoldHandlers(e, id, r1, q) = h1[n] /\ FoldHandlers(e, id, r2, q) = h2[n]
  BY <1>3, <1>4 DEF HandlersTrace
<1>11. h1[n].missingLinks = {}
  BY <1>10 DEF q
<1> QED
  BY <1>9, <1>10, <1>11 DEF q

(* One event, against two snapshots that agree on the documents it touches.   *)
Agree(docs1, docs2, s, c, F) ==
  /\ \A t \in F : t \in DOMAIN docs2 /\ docs1[t] = docs2[t]
  /\ \A t \in DOMAIN docs1 : ~CanApply(s, c, docs1, t) => ~CanApply(s, c, docs2, t)

Bounded(r, F) == r.missingDocs = {} /\ r.missingLinks = {} /\ r.touched \subseteq F

LEMMA EventAlike ==
  ASSUME NEW s \in Sources, NEW c \in Nat, NEW i \in Nat, NEW e \in Event,
         NEW docs1, NEW docs2, NEW F, NEW L, Agree(docs1, docs2, s, c, F),
         e.via # NoLink => e.via \in L,
         NEW r1, NEW r2, Alike(r1, r2, F, L),
         DOMAIN r1.content = DOMAIN docs1, DOMAIN r2.content = DOMAIN docs2,
         Bounded(ApplyEvent(r1, e, <<s, c, i>>, docs1), F)
  PROVE  Alike(ApplyEvent(r1, e, <<s, c, i>>, docs1), ApplyEvent(r2, e, <<s, c, i>>, docs2), F, L)
<1> DEFINE id == <<s, c, i>>
           T1 == EventTargets(r1, s, c, e, docs1)
           T2 == EventTargets(r2, s, c, e, docs2)
           b1 == EventBase(r1, T1, DOMAIN docs1)
           b2 == EventBase(r2, T2, DOMAIN docs2)
           o1 == ApplyEvent(r1, e, id, docs1)
           o2 == ApplyEvent(r2, e, id, docs2)
<1>1. id \in Ids
  BY DEF Ids
<1>2. r1 \in Plans /\ r2 \in Plans /\ LinksAlike(r1, r2, L) /\ DocsAlike(r1, r2, F)
  BY DEF Alike
<1>3. AfterEvent(o1, r1, T1, id, e.link)
  BY <1>2, EventReaches
<1>4. T1 \subseteq DOMAIN docs1 /\ T1 \subseteq F
  BY <1>3 DEF AfterEvent, Bounded
<1>5. RouteEvent(e, r1.links) = RouteEvent(e, r2.links)
  <2>1. CASE e.via = NoLink
    BY <2>1 DEF RouteEvent
  <2>2. CASE e.via # NoLink
    <3>1. e.via \in DOMAIN r1.links /\ e.via \in DOMAIN r2.links /\ r2.links[e.via] = r1.links[e.via]
      BY <1>2, <2>2 DEF LinksAlike
    <3> QED
      BY <2>2, <3>1 DEF RouteEvent
  <2> QED
    BY <2>1, <2>2
<1>6. T1 = T2
  <2>1. ASSUME NEW t \in RouteEvent(e, r1.links), CanApply(s, c, docs1, t) PROVE CanApply(s, c, docs2, t)
    <3>1. t \in T1
      BY <2>1 DEF EventTargets
    <3>2. t \in DOMAIN docs1 /\ t \in DOMAIN docs2 /\ docs1[t] = docs2[t]
      BY <1>4, <3>1 DEF Agree
    <3> QED
      BY <2>1, <3>2 DEF CanApply
  <2>2. ASSUME NEW t \in RouteEvent(e, r1.links), ~CanApply(s, c, docs1, t) PROVE ~CanApply(s, c, docs2, t)
    <3>1. t \in DOMAIN docs1
      BY <2>2 DEF CanApply
    <3> QED
      BY <2>2, <3>1 DEF Agree
  <2> QED
    BY <1>5, <2>1, <2>2 DEF EventTargets
<1>7. T1 \subseteq DOMAIN docs2
  BY <1>4 DEF Agree
<1> HIDE DEF id, T1, T2
<1>8. Alike(b1, b2, F, L)
  <2>1. b1 = r1
    <3>1. T1 \ (T1 \cap DOMAIN docs1) = {}
      BY <1>4
    <3> QED
      BY <1>2, <3>1 DEF EventBase, Plans
  <2>2. b2 = r2
    <3>1. T2 \ (T2 \cap DOMAIN docs2) = {}
      BY <1>6, <1>7
    <3> QED
      BY <1>2, <3>1 DEF EventBase, Plans
  <2> QED
    BY <2>1, <2>2
<1>9. T1 \cap DOMAIN docs1 = T1 /\ T2 \cap DOMAIN docs2 = T1
  BY <1>4, <1>6, <1>7
<1> HIDE DEF b1, b2
<1>10. o1 = FoldHandlers(e, id, b1, InOrder(T1))
  <2>1. o1 = FoldHandlers(e, id, b1, InOrder(T1 \cap DOMAIN docs1))
    BY EventUnfolds DEF id, T1, b1
  <2> QED
    BY <1>9, <2>1
<1>11. o2 = FoldHandlers(e, id, b2, InOrder(T1))
  <2>1. o2 = FoldHandlers(e, id, b2, InOrder(T2 \cap DOMAIN docs2))
    BY EventUnfolds DEF id, T2, b2
  <2> QED
    BY <1>9, <2>1
<1>12. o1.missingLinks = {}
  BY DEF Bounded, id
<1> HIDE DEF o1, o2
<1>13. Alike(o1, o2, F, L)
  BY <1>1, <1>4, <1>8, <1>10, <1>11, <1>12, HandlersAlike
<1> QED
  BY <1>13 DEF o1, o2, id

LEMMA ReduceAlike ==
  ASSUME NEW s \in Sources, NEW c \in Commits(s),
         NEW docs1 \in DocMaps, NEW docs2 \in DocMaps, NEW lks1 \in LinkMaps, NEW lks2 \in LinkMaps,
         NEW F, F \subseteq DOMAIN docs1, Agree(docs1, docs2, s, c, F),
         RoutingLinks(Log[s][c]) \subseteq DOMAIN lks1,
         \A l \in DOMAIN lks1 : l \in DOMAIN lks2 /\ lks2[l] = lks1[l],
         Bounded(Reduce(s, c, docs1, lks1), F)
  PROVE  Alike(Reduce(s, c, docs1, lks1), Reduce(s, c, docs2, lks2), F, RoutingLinks(Log[s][c]))
<1> DEFINE n == Len(Log[s][c])
           q == [i \in DOMAIN Log[s][c] |-> i]
           L == RoutingLinks(Log[s][c])
           base1 == Unreduced(docs1, lks1)
           base2 == Unreduced(docs2, lks2)
<1>1. /\ c \in Nat /\ n \in Nat /\ DOMAIN q = 1..n
      /\ \A i \in 1..n : /\ q[i] = i /\ Log[s][c][i] \in Event
                         /\ Log[s][c][i].via # NoLink => Log[s][c][i].via \in L
  BY LogTyped DEF RoutingLinks
<1> HIDE DEF n, q, L
<1>2. n \in Nat /\ DOMAIN q = 1..n
  BY <1>1
<1>3. PICK h1 : EventsTrace(h1, s, c, docs1, base1, n, q)
  BY <1>2, EventsFold, Zenon
<1>4. PICK h2 : EventsTrace(h2, s, c, docs2, base2, n, q)
  BY <1>2, EventsFold, Zenon
<1>5. /\ base1 \in Plans /\ DOMAIN base1.content = DOMAIN docs1
      /\ base2 \in Plans /\ DOMAIN base2.content = DOMAIN docs2
  BY UnreducedHolds DEF Reduced
<1>6. Alike(base1, base2, F, L)
  <2>1. LinksAlike(base1, base2, L)
    BY DEF LinksAlike, Unreduced, L
  <2>2. DocsAlike(base1, base2, F)
    <3>1. ASSUME NEW t \in F PROVE base1.content[t] = base2.content[t]
      BY DEF Agree, Unreduced
    <3>2. base1.touched = base2.touched
      BY DEF Unreduced
    <3>3. F \subseteq DOMAIN docs2
      BY DEF Agree
    <3> QED
      BY <1>5, <3>1, <3>2, <3>3 DEF DocsAlike
  <2> QED
    BY <1>5, <2>1, <2>2 DEF Alike
<1> HIDE DEF base1, base2
<1> DEFINE Same(k) == /\ h1[k] \in Plans /\ DOMAIN h1[k].content = DOMAIN docs1
                      /\ h2[k] \in Plans /\ DOMAIN h2[k].content = DOMAIN docs2
                      /\ Bounded(h1[k], F) => Alike(h1[k], h2[k], F, L)
           T == {k \in Nat : k <= n => Same(k)}
<1>7. 0 \in T
  BY <1>3, <1>4, <1>5, <1>6 DEF EventsTrace
<1>8. ASSUME NEW k \in Nat, k < n, k \in T PROVE k + 1 \in T
  <2> DEFINE a == h1[k]
             b == h2[k]
             e == Log[s][c][k + 1]
             o1 == h1[k + 1]
             o2 == h2[k + 1]
  <2>1. k + 1 \in 1..n /\ (k + 1) - 1 = k /\ k <= n /\ q[k + 1] = k + 1 /\ k + 1 \in Nat
    BY <1>1, <1>8
  <2>2. Same(k)
    BY <1>8, <2>1
  <2>3. o1 = ApplyEvent(a, e, <<s, c, k + 1>>, docs1) /\ o2 = ApplyEvent(b, e, <<s, c, k + 1>>, docs2)
    BY <1>3, <1>4, <2>1 DEF EventsTrace
  <2>4. e \in Event /\ (e.via # NoLink => e.via \in L)
    BY <1>1, <2>1
  <2>5. /\ a \in Plans /\ DOMAIN a.content = DOMAIN docs1
        /\ b \in Plans /\ DOMAIN b.content = DOMAIN docs2
        /\ Bounded(a, F) => Alike(a, b, F, L)
    BY <2>2
  <2> HIDE DEF a, b, e, o1, o2
  <2>6. AfterEvent(o1, a, EventTargets(a, s, c, e, docs1), <<s, c, k + 1>>, e.link)
    BY <1>1, <2>1, <2>3, <2>4, <2>5, EventReaches
  <2>7. AfterEvent(o2, b, EventTargets(b, s, c, e, docs2), <<s, c, k + 1>>, e.link)
    BY <1>1, <2>1, <2>3, <2>4, <2>5, EventReaches
  <2>8. ASSUME Bounded(o1, F) PROVE Alike(o1, o2, F, L)
    <3>1. Bounded(a, F)
      BY <2>6, <2>8 DEF AfterEvent, Bounded, LinksGrow
    <3> QED
      BY <1>1, <2>1, <2>3, <2>4, <2>5, <2>8, <3>1, EventAlike
  <2>9. Same(k + 1)
    BY <2>5, <2>6, <2>7, <2>8 DEF AfterEvent, o1, o2
  <2> QED
    BY <2>9
<1> HIDE DEF T
<1>9. n \in T
  <2>1. \A k \in 0..n : k \in T
    BY <1>1, <1>7, <1>8, UpTo
  <2> QED
    BY <1>1, <2>1
<1>10. Same(n)
  BY <1>1, <1>9 DEF T
<1>11. Reduce(s, c, docs1, lks1) = h1[n] /\ Reduce(s, c, docs2, lks2) = h2[n]
  BY <1>3, <1>4, ReduceUnfolds DEF EventsTrace, base1, base2, q
<1> QED
  BY <1>10, <1>11 DEF L

(* The transaction the store accepts is the one an execution reading          *)
(* everything at that instant would ask for, for any documents, links and      *)
(* logs, as long as the links that routed the commit are where they were       *)
(* (sourceCommitV2.ts:45-92).                                                *)
THEOREM AcceptedFoldsAreAtomic == Spec => []AtomicFold
<1>1. StoreIInv => AtomicFold
  <2> SUFFICES ASSUME StoreIInv, NEW w \in Workers, NEW s \in Sources, NEW x, x = task[w][s],
                      x.pc = "commit", Valid(w, s), LinksStand(w, s)
               PROVE  /\ Reduce(s, x.c, doc, link).touched = x.plan.touched
                      /\ Reduce(s, x.c, doc, link).staged = x.plan.staged
                      /\ \A t \in x.plan.touched : Reduce(s, x.c, doc, link).content[t] = x.plan.content[t]
    BY DEF AtomicFold, Plan
  <2>1. x \in Row /\ RowHolds(x, s) /\ StoreTypeOK
    BY RowTyped
  <2>2. /\ x.c \in Commits(s) /\ x.c \in Nat /\ x.docs \in DocMaps /\ x.lks \in LinkMaps
        /\ x.plan.missingDocs = {} /\ x.plan.missingLinks = {}
        /\ x.plan.touched \subseteq DOMAIN x.docs
        /\ x.plan = Reduce(s, x.c, x.docs, x.lks)
        /\ RoutingLinks(Log[s][x.c]) \subseteq DOMAIN x.lks
        /\ \A t \in DOMAIN x.docs : Seen(x.docs[t], t)
    BY <2>1, PlanKnown DEF RowHolds
  <2>3. doc \in DocMaps /\ DOMAIN doc = Docs
    BY <2>1 DEF StoreTypeOK, DocMaps
  <2>4. link \in LinkMaps /\ DOMAIN link = Links
    BY <2>1 DEF StoreTypeOK, LinkMaps
  <2>5. Agree(x.docs, doc, s, x.c, x.plan.touched)
    <3>1. \A t \in x.plan.touched : t \in DOMAIN doc /\ x.docs[t] = doc[t]
      BY <2>3, Current
    <3>2. ASSUME NEW t \in DOMAIN x.docs, ~CanApply(s, x.c, x.docs, t) PROVE ~CanApply(s, x.c, doc, t)
      <4>1. t \in Docs /\ x.docs[t].marker \in [Sources -> Nat]
        BY <2>2, ReadTyped
      <4>2. doc[t].marker \in [Sources -> Nat]
        BY <2>1, <4>1, DocTyped
      <4>3. Strategy = "in_document" /\ ~ (x.c > x.docs[t].marker[s])
        BY <3>2 DEF CanApply
      <4>4. x.docs[t].marker[s] <= doc[t].marker[s]
        BY <2>2 DEF Seen
      <4>5. x.docs[t].marker[s] \in Nat /\ doc[t].marker[s] \in Nat
        BY <4>1, <4>2
      <4>6. ~ (x.c > doc[t].marker[s])
        BY <2>2, <4>3, <4>4, <4>5
      <4> QED
        BY <2>3, <4>1, <4>3, <4>6 DEF CanApply
    <3> QED
      BY <3>1, <3>2 DEF Agree
  <2>6. \A l \in DOMAIN x.lks : l \in DOMAIN link /\ link[l] = x.lks[l]
    <3>1. DOMAIN x.lks \in SUBSET Links
      BY <2>2 DEF LinkMaps
    <3> QED
      BY <2>4, <3>1 DEF LinksStand
  <2>7. Bounded(Reduce(s, x.c, x.docs, x.lks), x.plan.touched)
    BY SMTT(60), <2>2 DEF Bounded
  <2>8. Alike(Reduce(s, x.c, x.docs, x.lks), Reduce(s, x.c, doc, link), x.plan.touched, RoutingLinks(Log[s][x.c]))
    BY <2>2, <2>3, <2>4, <2>5, <2>6, <2>7, ReduceAlike
  <2> DEFINE r1 == Reduce(s, x.c, x.docs, x.lks)
             r2 == Reduce(s, x.c, doc, link)
  <2>9. x.plan = r1
    BY <2>2
  <2> HIDE DEF r1, r2
  <2>10. r1.touched = r2.touched /\ r1.staged = r2.staged
    BY ONLY <2>8 DEF r1, r2, Alike, LinksAlike, DocsAlike
  <2>11. \A t \in x.plan.touched : r1.content[t] = r2.content[t]
    BY ONLY <2>8 DEF r1, r2, Alike, DocsAlike
  <2> QED
    BY ONLY <2>9, <2>10, <2>11 DEF r2
<1> QED
  BY <1>1, StoreInit, StoreNext, PTL DEF Spec

(* What a reduction still misses, it neither knows nor was given.            *)
LEMMA ReduceMisses ==
  ASSUME NEW s \in Sources, NEW c \in Commits(s), NEW docs \in DocMaps, NEW lks \in LinkMaps
  PROVE  /\ Reduce(s, c, docs, lks).missingDocs \cap DOMAIN docs = {}
         /\ Reduce(s, c, docs, lks).missingLinks \cap DOMAIN lks = {}
         /\ Reduce(s, c, docs, lks).missingLinks \subseteq StagedLinks(Log[s][c])
<1> DEFINE n == Len(Log[s][c])
           q == [i \in DOMAIN Log[s][c] |-> i]
           base == Unreduced(docs, lks)
           D == DOMAIN docs
           staged == StagedLinks(Log[s][c])
<1>1. /\ c \in Nat /\ n \in Nat /\ DOMAIN q = 1..n
      /\ \A i \in 1..n : /\ q[i] = i /\ Log[s][c][i] \in Event
                         /\ Log[s][c][i].link \in staged
  BY LogTyped DEF StagedLinks
<1> HIDE DEF n, q, staged
<1>2. n \in Nat /\ DOMAIN q = 1..n
  BY <1>1
<1>3. PICK it : EventsTrace(it, s, c, docs, base, n, q)
  BY <1>2, EventsFold, Zenon
<1> DEFINE Misses(r) == /\ r \in Plans /\ DOMAIN r.content = D
                        /\ r.missingDocs \cap D = {}
                        /\ DOMAIN lks \subseteq DOMAIN r.links
                        /\ r.missingLinks \cap DOMAIN lks = {} /\ r.missingLinks \subseteq staged
           T == {k \in Nat : k <= n => Misses(it[k])}
<1>4. Misses(base)
  <2>1. base \in Plans /\ DOMAIN base.content = D
    BY UnreducedHolds DEF Reduced
  <2> QED
    BY <2>1 DEF Unreduced
<1> HIDE DEF base, D
<1>5. 0 \in T
  BY <1>3, <1>4 DEF EventsTrace
<1>6. ASSUME NEW k \in Nat, k < n, k \in T PROVE k + 1 \in T
  <2> DEFINE a == it[k]
             e == Log[s][c][k + 1]
             o == it[k + 1]
  <2>1. k + 1 \in 1..n /\ (k + 1) - 1 = k /\ k <= n /\ q[k + 1] = k + 1 /\ k + 1 \in Nat
    BY <1>1, <1>6
  <2>2. Misses(a)
    BY <1>6, <2>1
  <2>3. o = ApplyEvent(a, e, <<s, c, k + 1>>, docs)
    BY <1>3, <2>1 DEF EventsTrace
  <2>4. e \in Event /\ e.link \in staged
    BY <1>1, <2>1
  <2> HIDE DEF a, e, o
  <2>5. AfterEvent(o, a, EventTargets(a, s, c, e, docs), <<s, c, k + 1>>, e.link)
    BY <1>1, <2>1, <2>2, <2>3, <2>4, EventReaches DEF D
  <2>6. Misses(o)
    BY <2>2, <2>4, <2>5 DEF AfterEvent, LinksGrow
  <2> QED
    BY <2>6 DEF o
<1> HIDE DEF T
<1>7. n \in T
  <2>1. \A k \in 0..n : k \in T
    BY <1>1, <1>5, <1>6, UpTo
  <2> QED
    BY <1>1, <2>1
<1>8. Misses(it[n])
  BY <1>1, <1>7 DEF T
<1>9. Reduce(s, c, docs, lks) = it[n]
  BY <1>3, ReduceUnfolds DEF EventsTrace, base, q
<1> QED
  BY <1>8, <1>9 DEF D, staged

-----------------------------------------------------------------------------
(* The lanes' queue.                                                       *)

LEMMA Dropping ==
  ASSUME NEW S, NEW q \in Seq(S), NEW m \in 1..Len(q)
  PROVE  /\ RemoveAt(q, m) \in Seq(S) /\ Len(RemoveAt(q, m)) = Len(q) - 1
         /\ \A i \in 1..(Len(q) - 1) : RemoveAt(q, m)[i] = q[IF i < m THEN i ELSE i + 1]
<1> DEFINE n == Len(q)
           a == SubSeq(q, 1, m - 1)
           b == SubSeq(q, m + 1, n)
<1>1. n \in Nat /\ m \in Nat /\ 1 <= m /\ m <= n /\ q \in [1..n -> S]
  OBVIOUS
<1> HIDE DEF n
<1>2. /\ a \in Seq(S) /\ Len(a) = m - 1
      /\ \A i \in 1..(m - 1) : a[i] = q[i]
  <2>1. \A i \in 1..(m - 1) : q[i] \in S
    BY <1>1
  <2>2. 1 \in Int /\ m - 1 \in Int
    BY <1>1
  <2>3. /\ a \in Seq(S)
        /\ Len(a) = IF 1 <= m - 1 THEN (m - 1) - 1 + 1 ELSE 0
        /\ \A i \in 1..((m - 1) - 1 + 1) : a[i] = q[1 + i - 1]
    BY <2>1, <2>2, SubSeqProperties
  <2>4. Len(a) = m - 1
    BY <1>1, <2>3
  <2>5. \A i \in 1..(m - 1) : i \in 1..((m - 1) - 1 + 1) /\ 1 + i - 1 = i
    BY <1>1
  <2> QED
    BY <2>3, <2>4, <2>5
<1>3. /\ b \in Seq(S) /\ Len(b) = n - m
      /\ \A i \in 1..(n - m) : b[i] = q[m + i]
  <2>1. \A i \in (m + 1)..n : q[i] \in S
    BY <1>1
  <2>2. m + 1 \in Int /\ n \in Int
    BY <1>1
  <2>3. /\ b \in Seq(S)
        /\ Len(b) = IF m + 1 <= n THEN n - (m + 1) + 1 ELSE 0
        /\ \A i \in 1..(n - (m + 1) + 1) : b[i] = q[(m + 1) + i - 1]
    BY <2>1, <2>2, SubSeqProperties
  <2>4. Len(b) = n - m
    BY <1>1, <2>3
  <2>5. \A i \in 1..(n - m) : i \in 1..(n - (m + 1) + 1) /\ (m + 1) + i - 1 = m + i
    BY <1>1
  <2> QED
    BY <2>3, <2>4, <2>5
<1> HIDE DEF a, b
<1>4. /\ a \o b \in Seq(S) /\ Len(a \o b) = Len(a) + Len(b)
      /\ \A i \in 1..(Len(a) + Len(b)) : (a \o b)[i] = IF i <= Len(a) THEN a[i] ELSE b[i - Len(a)]
  BY <1>2, <1>3, ConcatProperties
<1>5. Len(a) + Len(b) = n - 1
  BY <1>1, <1>2, <1>3
<1>6. ASSUME NEW i \in 1..(n - 1) PROVE (a \o b)[i] = q[IF i < m THEN i ELSE i + 1]
  <2>1. CASE i < m
    <3>1. i <= Len(a) /\ i \in 1..(m - 1) /\ i \in 1..(Len(a) + Len(b))
      BY <1>1, <1>2, <1>5, <2>1
    <3> QED
      BY <1>2, <1>4, <2>1, <3>1
  <2>2. CASE ~ (i < m)
    <3>1. /\ ~ (i <= Len(a)) /\ i - Len(a) \in 1..(n - m) /\ m + (i - Len(a)) = i + 1
          /\ i \in 1..(Len(a) + Len(b))
      BY <1>1, <1>2, <1>5, <2>2
    <3>2. (a \o b)[i] = b[i - Len(a)]
      BY <1>4, <3>1
    <3>3. b[i - Len(a)] = q[m + (i - Len(a))]
      BY <1>3, <3>1
    <3> QED
      BY <2>2, <3>1, <3>2, <3>3
  <2> QED
    BY <2>1, <2>2
<1>7. RemoveAt(q, m) = a \o b
  BY DEF RemoveAt, a, b, n
<1> QED
  BY <1>4, <1>5, <1>6, <1>7 DEF n

LEMMA Leaving ==
  ASSUME NEW S, NEW q \in Seq(S), NoneTwice(q), NEW e, NEW o, o = RemoveFirst(q, e)
  PROVE  /\ o \in Seq(S) /\ NoneTwice(o)
         /\ \A x : In(o, x) <=> In(q, x) /\ x # e
         /\ \A x, y : Before(o, x, y) => Before(q, x, y)
<1>1. Len(q) \in Nat /\ DOMAIN q = 1..Len(q)
  OBVIOUS
<1>2. CASE ~ \E i \in 1..Len(q) : q[i] = e
  BY <1>1, <1>2 DEF RemoveFirst, In
<1>3. CASE \E i \in 1..Len(q) : q[i] = e
  <2> DEFINE I == {i \in 1..Len(q) : q[i] = e}
             m == Min(I)
             n == Len(q)
             at(i) == IF i < m THEN i ELSE i + 1
  <2>1. m \in I
    <3>1. I # {} /\ I \in SUBSET Nat
      BY <1>1, <1>3
    <3> HIDE DEF I
    <3>2. \E k \in I : \A j \in I : k <= j
      BY <3>1, LeastNatural
    <3> QED
      BY <3>2 DEF Min
  <2>2. o = RemoveAt(q, m)
    <3>1. SelectInSeq(q, LAMBDA v : v = e) = m
      BY <2>1 DEF SelectInSeq
    <3> QED
      BY <1>3, <3>1 DEF RemoveFirst
  <2>3. n \in Nat /\ m \in 1..n /\ q[m] = e /\ n >= 1
    BY <1>1, <2>1
  <2> HIDE DEF m, n
  <2>4. o \in Seq(S) /\ DOMAIN o = 1..(n - 1) /\ \A i \in 1..(n - 1) : o[i] = q[at(i)]
    <3>1. /\ o \in Seq(S) /\ Len(o) = n - 1 /\ \A i \in 1..(n - 1) : o[i] = q[IF i < m THEN i ELSE i + 1]
      BY <2>2, <2>3, Dropping DEF n
    <3> QED
      BY <3>1
  <2>5. \A i \in 1..(n - 1) : at(i) \in 1..n /\ at(i) # m
    BY <2>3
  <2>6. \A i, j \in 1..(n - 1) : i < j => at(i) < at(j)
    BY <2>3
  <2>7. \A k \in 1..n : k # m => \E i \in 1..(n - 1) : at(i) = k
    <3> SUFFICES ASSUME NEW k \in 1..n, k # m PROVE \E i \in 1..(n - 1) : at(i) = k
      OBVIOUS
    <3>1. CASE k < m
      <4>1. k \in 1..(n - 1) /\ at(k) = k
        BY <2>3, <3>1
      <4> QED
        BY <4>1
    <3>2. CASE ~ (k < m)
      <4>1. k - 1 \in 1..(n - 1) /\ at(k - 1) = k
        BY <2>3, <3>2
      <4> QED
        BY <4>1
    <3> QED
      BY <3>1, <3>2
  <2> HIDE DEF at
  <2>8. DOMAIN q = 1..n
    BY <1>1 DEF n
  <2>9. ASSUME NEW i \in 1..(n - 1), NEW j \in 1..(n - 1), o[i] = o[j] PROVE i = j
    <3>1. at(i) = at(j)
      BY <2>4, <2>5, <2>8, <2>9 DEF NoneTwice
    <3>2. at(i) \in Nat /\ at(j) \in Nat
      BY <2>3, <2>5
    <3>3. ~ (i < j) /\ ~ (j < i)
      BY <2>6, <3>1, <3>2
    <3> QED
      BY <2>3, <3>3
  <2>10. ASSUME NEW x PROVE In(o, x) <=> In(q, x) /\ x # e
    <3>1. ASSUME In(o, x) PROVE In(q, x) /\ x # e
      <4>1. PICK i \in 1..(n - 1) : o[i] = x
        BY <2>4, <3>1 DEF In
      <4>2. q[at(i)] = x /\ at(i) \in 1..n /\ at(i) # m
        BY <2>4, <2>5, <4>1
      <4>3. x # e
        BY <2>3, <2>8, <4>2 DEF NoneTwice
      <4> QED
        BY <2>8, <4>2, <4>3 DEF In
    <3>2. ASSUME In(q, x), x # e PROVE In(o, x)
      <4>1. PICK k \in 1..n : q[k] = x
        BY <2>8, <3>2 DEF In
      <4>2. k # m
        BY <2>3, <3>2, <4>1
      <4>3. PICK i \in 1..(n - 1) : at(i) = k
        BY <2>7, <4>2
      <4> QED
        BY <2>4, <4>1, <4>3 DEF In
    <3> QED
      BY <3>1, <3>2
  <2>11. ASSUME NEW x, NEW y, Before(o, x, y) PROVE Before(q, x, y)
    <3>1. PICK i \in 1..(n - 1), j \in 1..(n - 1) : i < j /\ o[i] = x /\ o[j] = y
      BY <2>4, <2>11 DEF Before
    <3>2. at(i) \in DOMAIN q /\ at(j) \in DOMAIN q /\ at(i) < at(j) /\ q[at(i)] = x /\ q[at(j)] = y
      BY <2>4, <2>5, <2>6, <2>8, <3>1
    <3> QED
      BY <3>2 DEF Before
  <2>12. NoneTwice(o)
    BY <2>4, <2>9 DEF NoneTwice
  <2> QED
    BY <2>4, <2>10, <2>11, <2>12
<1> QED
  BY <1>2, <1>3

LEMMA Joining ==
  ASSUME NEW S, NEW q \in Seq(S), NoneTwice(q), NEW e \in S, ~In(q, e)
  PROVE  /\ Append(q, e) \in Seq(S) /\ NoneTwice(Append(q, e))
         /\ \A x : In(Append(q, e), x) <=> In(q, x) \/ x = e
         /\ \A x, y : Before(Append(q, e), x, y) => Before(q, x, y) \/ (In(q, x) /\ y = e)
<1> DEFINE n == Len(q)
           o == Append(q, e)
<1>1. /\ n \in Nat /\ DOMAIN q = 1..n /\ o \in Seq(S) /\ DOMAIN o = 1..(n + 1)
      /\ o[n + 1] = e /\ \A i \in 1..n : o[i] = q[i]
  OBVIOUS
<1> HIDE DEF n, o
<1>2. n + 1 \in 1..(n + 1) /\ \A i \in 1..(n + 1) : i # n + 1 => i \in 1..n
  BY <1>1
<1>3. \A i \in 1..n : i \in 1..(n + 1) /\ i # n + 1
  BY <1>1
<1>4. NoneTwice(o)
  BY <1>1, <1>2 DEF NoneTwice, In
<1>5. ASSUME NEW x PROVE In(o, x) <=> In(q, x) \/ x = e
  BY <1>1, <1>2, <1>3 DEF In
<1>6. ASSUME NEW x, NEW y, Before(o, x, y) PROVE Before(q, x, y) \/ (In(q, x) /\ y = e)
  <2>1. PICK i \in 1..(n + 1), j \in 1..(n + 1) : i < j /\ o[i] = x /\ o[j] = y
    BY <1>1, <1>6 DEF Before
  <2>2. i \in 1..n
    BY <1>1, <2>1
  <2>3. CASE j = n + 1
    BY <1>1, <2>1, <2>2, <2>3 DEF In
  <2>4. CASE j # n + 1
    <3>1. j \in 1..n
      BY <1>2, <2>4
    <3> QED
      BY <1>1, <2>1, <2>2, <3>1 DEF Before
  <2> QED
    BY <2>3, <2>4
<1> QED
  BY <1>1, <1>4, <1>5, <1>6 DEF o

LEMMA CameFirst ==
  ASSUME NEW w \in Workers, NEW a, NEW s, NoneTwice(queue[w]), queue[w] \in Seq(Sources), Before(queue[w], a, s)
  PROVE  a \in Older(w, s)
<1>1. PICK i \in DOMAIN queue[w], j \in DOMAIN queue[w] : i < j /\ queue[w][i] = a /\ queue[w][j] = s
  BY DEF Before
<1>2. DOMAIN queue[w] = 1..Len(queue[w]) /\ Len(queue[w]) \in Nat
  OBVIOUS
<1>3. ASSUME NEW k \in 1..i PROVE queue[w][k] # s
  <2>1. k \in DOMAIN queue[w] /\ k < j
    BY <1>1, <1>2
  <2>2. k # j
    BY <1>2, <2>1
  <2> QED
    BY <1>1, <2>1, <2>2 DEF NoneTwice
<1> QED
  BY <1>1, <1>3 DEF Older

-----------------------------------------------------------------------------
(* The lanes of one worker, step by step.                                  *)

LEMMA LanesStay ==
  ASSUME NEW q, NEW rows, DOMAIN rows = Sources, Lanes(q, rows), NEW s \in Sources, NEW y,
         rows[s].pc \in Queued <=> y.pc \in Queued,
         y.pc \in Queued => y.targets \subseteq rows[s].targets,
         \/ y.pc \in Holding => rows[s].pc \in Holding
         \/ \A a \in Sources : Before(q, a, s) => rows[a].targets \cap y.targets = {}
  PROVE  Lanes(q, [rows EXCEPT ![s] = y])
<1> DEFINE o == [rows EXCEPT ![s] = y]
<1>1. \A a \in Sources : o[a] = IF a = s THEN y ELSE rows[a]
  OBVIOUS
<1> HIDE DEF o
<1>2. \A a \in Sources : In(q, a) <=> o[a].pc \in Queued
  BY <1>1 DEF Lanes
<1>3. ASSUME NEW a \in Sources, NEW b \in Sources, Before(q, a, b), o[b].pc \in Holding
      PROVE  o[a].targets \cap o[b].targets = {}
  <2>1. In(q, a) /\ In(q, b) /\ a # b
    BY <1>3 DEF Before, In, Lanes, NoneTwice
  <2>2. o[a].targets \subseteq rows[a].targets
    BY <1>1, <1>2, <2>1
  <2>3. o[b].targets \subseteq rows[b].targets
    BY <1>1, <1>2, <2>1
  <2>4. CASE rows[b].pc \in Holding
    <3>1. rows[a].targets \cap rows[b].targets = {}
      BY <1>3, <2>4 DEF Lanes
    <3> QED
      BY <2>2, <2>3, <3>1
  <2>5. CASE rows[b].pc \notin Holding
    <3>1. b = s /\ y.pc \in Holding
      BY <1>1, <1>3, <2>5
    <3>2. rows[a].targets \cap y.targets = {}
      BY <1>3, <2>5, <3>1
    <3> QED
      BY <1>1, <2>1, <3>1, <3>2
  <2> QED
    BY <2>4, <2>5
<1>4. Lanes(q, o)
  BY <1>2, <1>3 DEF Lanes
<1> QED
  BY <1>4 DEF o

LEMMA LanesJoined ==
  ASSUME NEW q, NEW rows, DOMAIN rows = Sources, Lanes(q, rows), NEW s \in Sources, NEW y,
         rows[s].pc \notin Queued, y.pc = "waiting"
  PROVE  Append(q, s) \in Seq(Sources) /\ Lanes(Append(q, s), [rows EXCEPT ![s] = y])
<1> DEFINE o == [rows EXCEPT ![s] = y]
           p == Append(q, s)
<1>1. \A a \in Sources : o[a] = IF a = s THEN y ELSE rows[a]
  OBVIOUS
<1>2. q \in Seq(Sources) /\ NoneTwice(q) /\ ~In(q, s)
  BY DEF Lanes
<1>3. /\ p \in Seq(Sources) /\ NoneTwice(p)
      /\ \A x : In(p, x) <=> In(q, x) \/ x = s
      /\ \A x, z : Before(p, x, z) => Before(q, x, z) \/ (In(q, x) /\ z = s)
  BY <1>2, Joining
<1> HIDE DEF o, p
<1>4. y.pc \in Queued /\ y.pc \notin Holding
  BY DEF Queued, Holding
<1>5. \A a \in Sources : In(p, a) <=> o[a].pc \in Queued
  BY <1>1, <1>3, <1>4 DEF Lanes
<1>6. ASSUME NEW a \in Sources, NEW b \in Sources, Before(p, a, b), o[b].pc \in Holding
      PROVE  o[a].targets \cap o[b].targets = {}
  <2>1. b # s
    BY <1>1, <1>4, <1>6
  <2>2. Before(q, a, b)
    BY <1>3, <1>6, <2>1
  <2>3. a # s
    BY <1>2, <2>2 DEF Before, In
  <2> QED
    BY <1>1, <1>6, <2>1, <2>2, <2>3 DEF Lanes
<1>7. Lanes(p, o)
  BY <1>3, <1>5, <1>6 DEF Lanes
<1> QED
  BY <1>3, <1>7 DEF o, p

LEMMA LanesLeft ==
  ASSUME NEW q, NEW rows, DOMAIN rows = Sources, Lanes(q, rows), NEW s \in Sources, NEW y,
         y.pc \notin Queued
  PROVE  RemoveFirst(q, s) \in Seq(Sources) /\ Lanes(RemoveFirst(q, s), [rows EXCEPT ![s] = y])
<1> DEFINE o == [rows EXCEPT ![s] = y]
           p == RemoveFirst(q, s)
<1>1. \A a \in Sources : o[a] = IF a = s THEN y ELSE rows[a]
  OBVIOUS
<1>2. q \in Seq(Sources) /\ NoneTwice(q)
  BY DEF Lanes
<1>3. /\ p \in Seq(Sources) /\ NoneTwice(p)
      /\ \A x : In(p, x) <=> In(q, x) /\ x # s
      /\ \A x, z : Before(p, x, z) => Before(q, x, z)
  BY <1>2, Leaving
<1> HIDE DEF o, p
<1>4. \A a \in Sources : In(p, a) <=> o[a].pc \in Queued
  BY <1>1, <1>3 DEF Lanes
<1>5. ASSUME NEW a \in Sources, NEW b \in Sources, Before(p, a, b), o[b].pc \in Holding
      PROVE  o[a].targets \cap o[b].targets = {}
  <2>1. In(p, a) /\ In(p, b)
    BY <1>5 DEF Before, In
  <2>2. a # s /\ b # s /\ Before(q, a, b)
    BY <1>3, <1>5, <2>1
  <2> QED
    BY <1>1, <1>5, <2>2 DEF Lanes
<1>6. Lanes(p, o)
  BY <1>3, <1>4, <1>5 DEF Lanes
<1> QED
  BY <1>3, <1>6 DEF o, p

(* Two executions of one worker that hold their lanes hold different documents. *)
LEMMA LanesApart ==
  ASSUME NEW q, NEW rows, Lanes(q, rows), NEW a \in Sources, NEW b \in Sources, a # b,
         rows[a].pc \in Holding, rows[b].pc \in Holding
  PROVE  rows[a].targets \cap rows[b].targets = {}
<1>1. In(q, a) /\ In(q, b)
  BY DEF Lanes, Holding, Queued
<1>2. PICK i \in DOMAIN q : q[i] = a
  BY <1>1 DEF In
<1>3. PICK j \in DOMAIN q : q[j] = b
  BY <1>1 DEF In
<1>4. q \in Seq(Sources) /\ i \in Nat /\ j \in Nat /\ i # j
  BY <1>2, <1>3 DEF Lanes
<1>5. Before(q, a, b) \/ Before(q, b, a)
  <2>1. i < j \/ j < i
    BY <1>4
  <2> QED
    BY <1>2, <1>3, <2>1 DEF Before
<1> QED
  BY <1>5 DEF Lanes

-----------------------------------------------------------------------------
(* The attempts of one execution.                                          *)

(* Of the links a commit knows, at most one for each event is not routed by.  *)
LEMMA RoomOfLinks ==
  ASSUME NEW s \in Sources, NEW c \in Commits(s), NEW ls,
         ls \subseteq RoutingLinks(Log[s][c]) \cup StagedLinks(Log[s][c])
  PROVE  /\ IsFiniteSet(ls \ RoutingLinks(Log[s][c]))
         /\ Cardinality(ls \ RoutingLinks(Log[s][c])) \in Nat
         /\ Cardinality(ls \ RoutingLinks(Log[s][c])) <= Len(Log[s][c])
<1> DEFINE n == Len(Log[s][c])
           staged == StagedLinks(Log[s][c])
           left == ls \ RoutingLinks(Log[s][c])
           f == [i \in 1..n |-> Log[s][c][i].link]
<1>1. n \in Nat /\ DOMAIN Log[s][c] = 1..n
  BY LogTyped
<1>2. f \in Surjection(1..n, staged)
  <2>1. \A i \in 1..n : f[i] \in staged
    BY <1>1 DEF StagedLinks
  <2>2. \A l \in staged : \E i \in 1..n : f[i] = l
    BY <1>1 DEF StagedLinks
  <2> QED
    BY <2>1, <2>2 DEF Surjection
<1>3. left \subseteq staged
  OBVIOUS
<1> HIDE DEF n, staged, left, f
<1>4. IsFiniteSet(1..n) /\ Cardinality(1..n) = n
  BY <1>1, FS_Interval
<1>5. IsFiniteSet(staged) /\ Cardinality(staged) <= n
  BY <1>2, <1>4, FS_Surjection
<1>6. IsFiniteSet(left) /\ Cardinality(left) <= Cardinality(staged)
  BY <1>3, <1>5, FS_Subset
<1>7. Cardinality(left) \in Nat /\ Cardinality(staged) \in Nat
  BY <1>5, <1>6, FS_CardinalityType
<1>8. Cardinality(left) <= n
  BY <1>1, <1>5, <1>6, <1>7
<1> QED
  BY <1>6, <1>7, <1>8 DEF left, n

LEMMA RoomOfDocs ==
  ASSUME NEW ts \in SUBSET Docs, NEW known
  PROVE  IsFiniteSet(ts \ known) /\ Cardinality(ts \ known) \in Nat
<1>1. ts \ known \in SUBSET Docs /\ IsFiniteSet(Docs)
  BY StoreAssumption
<1>2. IsFiniteSet(ts \ known)
  BY <1>1, FS_Subset
<1> QED
  BY <1>2, FS_CardinalityType

(* What was missing takes room.                                             *)
LEMMA RoomGrows ==
  ASSUME NEW old, NEW new, NEW known, known \subseteq old, IsFiniteSet((old \cup new) \ known),
         new \cap old = {}
  PROVE  /\ Cardinality(old \ known) \in Nat /\ Cardinality((old \cup new) \ known) \in Nat
         /\ Cardinality(old \ known) <= Cardinality((old \cup new) \ known)
         /\ new # {} => Cardinality(old \ known) + 1 <= Cardinality((old \cup new) \ known)
<1> DEFINE big == (old \cup new) \ known
           small == old \ known
<1>1. small \subseteq big
  OBVIOUS
<1>2. ASSUME NEW k \in new PROVE k \in big /\ small \subseteq big \ {k}
  OBVIOUS
<1> HIDE DEF big, small
<1>3. IsFiniteSet(big)
  BY DEF big
<1>4. IsFiniteSet(small) /\ Cardinality(small) <= Cardinality(big)
  BY <1>1, <1>3, FS_Subset
<1>5. Cardinality(small) \in Nat /\ Cardinality(big) \in Nat
  BY <1>3, <1>4, FS_CardinalityType
<1>6. ASSUME NEW k \in new PROVE Cardinality(small) + 1 <= Cardinality(big)
  <2> DEFINE rest == big \ {k}
  <2>1. IsFiniteSet(rest) /\ Cardinality(rest) = Cardinality(big) - 1
    BY <1>2, <1>3, FS_RemoveElement
  <2>2. small \subseteq rest
    BY <1>2
  <2> HIDE DEF rest
  <2>3. Cardinality(small) <= Cardinality(rest)
    BY <2>1, <2>2, FS_Subset
  <2> QED
    BY <1>5, <2>1, <2>3
<1> QED
  BY <1>4, <1>5, <1>6 DEF big, small

-----------------------------------------------------------------------------
(* What an execution has read stays what only others write.                 *)

LEMMA LaneTyped ==
  ASSUME StoreIInv, LaneIInv, NEW w \in Workers, NEW s \in Sources
  PROVE  /\ task[w][s] \in Row /\ RowHolds(task[w][s], s) /\ DOMAIN task[w] = Sources
         /\ queue[w] \in Seq(Sources) /\ Lanes(queue[w], task[w])
         /\ ReadHolds(task[w][s], w) /\ RoomHolds(task[w][s], Log[s][task[w][s].c])
BY DEF StoreIInv, StoreTypeOK, LaneIInv

LEMMA ReadsKept ==
  ASSUME StoreIInv, LaneIInv, NEW w \in Workers, NEW s \in Sources, NEW x, x = task[w][s],
         \/ doc' = doc /\ writer' = writer
         \/ x.pc = "commit" /\ Valid(w, s) /\ Write(w, s),
         NEW w2 \in Workers, NEW s2 \in Sources, w2 # w \/ s2 # s,
         NEW z, z = task[w2][s2]
  PROVE  ReadHolds(z, w2)'
<1>1. z \in Row /\ ReadHolds(z, w2)
  BY LaneTyped
<1>2. CASE doc' = doc /\ writer' = writer
  BY <1>1, <1>2 DEF ReadHolds
<1>3. CASE x.pc = "commit" /\ Valid(w, s) /\ Write(w, s)
  <2>1. x \in Row /\ RowHolds(x, s) /\ ReadHolds(x, w) /\ Plan(w, s) = x.plan
    BY LaneTyped DEF Plan
  <2>2. x.plan.touched \subseteq x.targets
    <3>1. x.plan.touched \subseteq DOMAIN x.docs
      BY <1>3, <2>1, PlanKnown
    <3> QED
      BY <1>3, <2>1, <3>1 DEF ReadHolds
  <2>3. ASSUME z.pc \in {"load", "commit"}, NEW t \in DOMAIN z.docs, doc'[t].rev # z.docs[t].rev
        PROVE  writer'[t] # w2
    <3>1. t \in z.targets /\ t \in Docs /\ (doc[t].rev # z.docs[t].rev => writer[t] # w2)
      BY <1>1, <2>3 DEF ReadHolds, Row
    <3>2. CASE t \notin x.plan.touched
      <4>1. doc'[t] = doc[t] /\ writer'[t] = writer[t]
        BY <1>3, <2>1, <3>1, <3>2 DEF Write
      <4> QED
        BY SMTT(60), <2>3, <3>1, <4>1
    <3>3. CASE t \in x.plan.touched
      <4>1. writer'[t] = w
        BY <1>3, <2>1, <3>1, <3>3 DEF Write
      <4>2. CASE w2 = w
        <5>1. Lanes(queue[w], task[w]) /\ task[w][s2] = z /\ s2 # s
          BY <4>2, LaneTyped
        <5>2. z.pc \in Holding /\ x.pc \in Holding
          BY <1>3, <2>3 DEF Holding
        <5>3. z.targets \cap x.targets = {}
          BY <5>1, <5>2, LanesApart
        <5> QED
          BY <2>2, <3>1, <3>3, <5>3
      <4> QED
        BY SMTT(60), <4>1, <4>2
    <3> QED
      BY <3>2, <3>3
  <2> QED
    BY <1>1, <2>3 DEF ReadHolds
<1> QED
  BY <1>2, <1>3

LEMMA LaneStep ==
  ASSUME StoreIInv, LaneIInv, NEW w \in Workers, NEW s \in Sources, NEW x, x = task[w][s],
         NEW y, SetTask(w, s, y),
         NEW p \in Seq(Sources), queue' = [queue EXCEPT ![w] = p], Lanes(p, [task[w] EXCEPT ![s] = y]),
         \/ doc' = doc /\ writer' = writer
         \/ x.pc = "commit" /\ Valid(w, s) /\ Write(w, s),
         ReadHolds(y, w)', RoomHolds(y, Log[s][y.c])
  PROVE  LaneIInv'
<1>1. PICK tk : tk = task'
  OBVIOUS
<1>2. PICK qu : qu = queue'
  OBVIOUS
<1>3. /\ tk = [task EXCEPT ![w] = [task[w] EXCEPT ![s] = y]]
      /\ qu = [queue EXCEPT ![w] = p]
      /\ task \in [Workers -> [Sources -> Row]] /\ queue \in [Workers -> Seq(Sources)]
  BY <1>1, <1>2 DEF SetTask, StoreIInv, StoreTypeOK, LaneIInv
<1>4. qu \in [Workers -> Seq(Sources)]
  BY <1>3
<1>5. ASSUME NEW w2 \in Workers PROVE Lanes(qu[w2], tk[w2])
  <2>1. CASE w2 = w
    BY <1>3, <2>1
  <2>2. CASE w2 # w
    BY <1>3, <2>2 DEF LaneIInv
  <2> QED
    BY <2>1, <2>2
<1>6. ASSUME NEW w2 \in Workers, NEW s2 \in Sources, NEW z, z = tk[w2][s2]
      PROVE  ReadHolds(z, w2)' /\ RoomHolds(z, Log[s2][z.c])
  <2>1. CASE w2 = w /\ s2 = s
    <3>1. z = y
      BY <1>3, <1>6, <2>1
    <3> QED
      BY <2>1, <3>1
  <2>2. CASE w2 # w \/ s2 # s
    <3>1. z = task[w2][s2]
      BY <1>3, <1>6, <2>2
    <3>2. RoomHolds(z, Log[s2][z.c])
      BY <3>1, LaneTyped
    <3> QED
      BY <2>2, <3>1, <3>2, ReadsKept
  <2> QED
    BY <2>1, <2>2
<1>7. \A w2 \in Workers : Lanes(queue[w2], task[w2])'
  BY <1>1, <1>2, <1>5 DEF Lanes
<1>8. \A w2 \in Workers, s2 \in Sources :
        ReadHolds(task[w2][s2], w2)' /\ RoomHolds(task[w2][s2], Log[s2][task[w2][s2].c])'
  <2> SUFFICES ASSUME NEW w2 \in Workers, NEW s2 \in Sources
               PROVE  ReadHolds(task[w2][s2], w2)' /\ RoomHolds(task[w2][s2], Log[s2][task[w2][s2].c])'
    OBVIOUS
  <2>1. PICK z : z = task'[w2][s2]
    OBVIOUS
  <2>2. ReadHolds(z, w2)' /\ RoomHolds(z, Log[s2][z.c])
    BY <1>1, <1>6, <2>1
  <2> QED
    BY <2>1, <2>2 DEF ReadHolds, RoomHolds
<1> QED
  BY <1>2, <1>4, <1>7, <1>8 DEF LaneIInv

(* The execution gives its lanes back and ends.                             *)
LEMMA LaneEnds ==
  ASSUME StoreIInv, LaneIInv, NEW w \in Workers, NEW s \in Sources, NEW x, x = task[w][s],
         SetTask(w, s, Idle), Release(w, s),
         \/ doc' = doc /\ writer' = writer
         \/ x.pc = "commit" /\ Valid(w, s) /\ Write(w, s)
  PROVE  LaneIInv'
<1> DEFINE p == RemoveFirst(queue[w], s)
<1>1. DOMAIN task[w] = Sources /\ Lanes(queue[w], task[w]) /\ queue \in [Workers -> Seq(Sources)]
  BY LaneTyped DEF LaneIInv
<1>2. Idle.pc = "idle" /\ Idle.pc \notin Queued
  BY IdleTyped DEF Queued
<1>3. p \in Seq(Sources) /\ Lanes(p, [task[w] EXCEPT ![s] = Idle])
  BY <1>1, <1>2, LanesLeft
<1>4. queue' = [queue EXCEPT ![w] = p]
  BY <1>1 DEF Release
<1>5. PICK y : y = Idle
  OBVIOUS
<1>6. y.pc = "idle"
  BY <1>2, <1>5
<1>7. ReadHolds(y, w)' /\ RoomHolds(y, Log[s][y.c])
  BY <1>6 DEF ReadHolds, RoomHolds
<1> HIDE DEF p
<1>8. SetTask(w, s, y) /\ Lanes(p, [task[w] EXCEPT ![s] = y])
  BY <1>3, <1>5
<1> QED
  BY <1>3, <1>4, <1>7, <1>8, LaneStep

(* The execution keeps its place in the queue, or stays out of it.           *)
LEMMA LaneKeeps ==
  ASSUME StoreIInv, LaneIInv, NEW w \in Workers, NEW s \in Sources, NEW x, x = task[w][s],
         NEW y, SetTask(w, s, y), queue' = queue,
         x.pc \in Queued <=> y.pc \in Queued,
         y.pc \in Queued => y.targets \subseteq x.targets,
         \/ y.pc \in Holding => x.pc \in Holding
         \/ \A o \in Older(w, s) : task[w][o].targets \cap y.targets = {},
         \/ doc' = doc /\ writer' = writer
         \/ x.pc = "commit" /\ Valid(w, s) /\ Write(w, s),
         ReadHolds(y, w)', RoomHolds(y, Log[s][y.c])
  PROVE  LaneIInv'
<1>1. /\ DOMAIN task[w] = Sources /\ queue[w] \in Seq(Sources) /\ Lanes(queue[w], task[w])
      /\ queue \in [Workers -> Seq(Sources)]
  BY LaneTyped DEF LaneIInv
<1>2. queue' = [queue EXCEPT ![w] = queue[w]]
  BY <1>1
<1>3. ASSUME \A o \in Older(w, s) : task[w][o].targets \cap y.targets = {},
             NEW a \in Sources, Before(queue[w], a, s)
      PROVE  task[w][a].targets \cap y.targets = {}
  <2>1. a \in Older(w, s)
    BY <1>1, <1>3, CameFirst DEF Lanes
  <2> QED
    BY <1>3, <2>1
<1>4. Lanes(queue[w], [task[w] EXCEPT ![s] = y])
  <2>1. CASE y.pc \in Holding => x.pc \in Holding
    BY <1>1, <2>1, LanesStay
  <2>2. CASE \A o \in Older(w, s) : task[w][o].targets \cap y.targets = {}
    <3>1. \A a \in Sources : Before(queue[w], a, s) => task[w][a].targets \cap y.targets = {}
      BY <1>3, <2>2
    <3> QED
      BY <1>1, <3>1, LanesStay
  <2> QED
    BY <2>1, <2>2
<1> QED
  BY <1>1, <1>2, <1>4, LaneStep

-----------------------------------------------------------------------------
(* The actions, at the lanes.                                              *)

LEMMA BeginLane ==
  ASSUME StoreIInv, LaneIInv, NEW w \in Workers, NEW s \in Sources, NEW c \in Commits(s), Begin(w, s, c)
  PROVE  LaneIInv'
<1>1. PICK x : x = task[w][s]
  OBVIOUS
<1> DEFINE y == [Idle EXCEPT !.pc = "initial", !.c = c, !.links = RoutingLinks(Log[s][c])]
<1>2. x.pc = "idle" /\ SetTask(w, s, y) /\ queue' = queue /\ doc' = doc /\ writer' = writer
  BY <1>1 DEF Begin, store
<1>3. y.pc = "initial" /\ y.c = c /\ y.links = RoutingLinks(Log[s][c]) /\ y.conflicts = 0 /\ y.docs = Nothing
  BY DEF Idle
<1> HIDE DEF y
<1>4. y.pc \notin Queued /\ x.pc \notin Queued /\ y.pc \notin Holding
  BY <1>2, <1>3 DEF Queued, Holding
<1>5. ReadHolds(y, w)' /\ RoomHolds(y, Log[s][y.c])
  BY <1>3 DEF ReadHolds, RoomHolds
<1> QED
  BY <1>1, <1>2, <1>4, <1>5, LaneKeeps

LEMMA ReadLinkLane ==
  ASSUME StoreIInv, LaneIInv, NEW w \in Workers, NEW s \in Sources, ReadLink(w, s)
  PROVE  LaneIInv'
<1>1. PICK x : x = task[w][s]
  OBVIOUS
<1>2. /\ x \in Row /\ ReadHolds(x, w) /\ RoomHolds(x, Log[s][x.c])
      /\ queue' = queue /\ doc' = doc /\ writer' = writer
  BY <1>1, LaneTyped DEF ReadLink, store
<1>3. PICK l : SetTask(w, s, [x EXCEPT !.lks = With(@, l, link[l])])
  BY <1>1 DEF ReadLink
<1>4. PICK row : row = link[l]
  OBVIOUS
<1> DEFINE y == [x EXCEPT !.lks = With(@, l, row)]
<1>5. /\ y.pc = x.pc /\ y.c = x.c /\ y.targets = x.targets /\ y.links = x.links
      /\ y.docs = x.docs /\ y.conflicts = x.conflicts /\ y.attempt = x.attempt
  BY <1>2 DEF Row
<1>6. SetTask(w, s, y)
  BY <1>3, <1>4
<1> HIDE DEF y
<1>7. ReadHolds(y, w)' /\ RoomHolds(y, Log[s][y.c])
  BY <1>2, <1>5 DEF ReadHolds, RoomHolds
<1> QED
  BY <1>1, <1>2, <1>5, <1>6, <1>7, LaneKeeps

LEMMA ReadDocLane ==
  ASSUME StoreIInv, LaneIInv, NEW w \in Workers, NEW s \in Sources, ReadDoc(w, s)
  PROVE  LaneIInv'
<1>1. PICK x : x = task[w][s]
  OBVIOUS
<1>2. /\ x \in Row /\ ReadHolds(x, w) /\ RoomHolds(x, Log[s][x.c]) /\ x.pc = "load"
      /\ queue' = queue /\ doc' = doc /\ writer' = writer
  BY <1>1, LaneTyped DEF ReadDoc, store
<1>3. PICK t \in x.targets \ DOMAIN x.docs : SetTask(w, s, [x EXCEPT !.docs = With(@, t, doc[t])])
  BY <1>1 DEF ReadDoc
<1>4. PICK row : row = doc[t]
  OBVIOUS
<1> DEFINE read == With(x.docs, t, row)
           y == [x EXCEPT !.docs = read]
<1>5. DOMAIN read = DOMAIN x.docs \cup {t} /\ \A u \in DOMAIN read : read[u] = IF u = t THEN row ELSE x.docs[u]
  BY DEF With
<1>6. SetTask(w, s, y)
  BY <1>3, <1>4
<1> HIDE DEF read
<1>7. /\ y.pc = x.pc /\ y.c = x.c /\ y.targets = x.targets /\ y.links = x.links
      /\ y.docs = read /\ y.conflicts = x.conflicts /\ y.attempt = x.attempt
  BY <1>2 DEF Row
<1> HIDE DEF y
<1>8. DOMAIN read \subseteq x.targets
  BY <1>2, <1>3, <1>5 DEF ReadHolds
<1>9. \A u \in DOMAIN read : doc'[u].rev # read[u].rev => writer'[u] # w
  BY <1>2, <1>5, <1>4 DEF ReadHolds
<1>10. ReadHolds(y, w)' /\ RoomHolds(y, Log[s][y.c])
  BY <1>2, <1>7, <1>8, <1>9 DEF ReadHolds, RoomHolds
<1> QED
  BY <1>1, <1>2, <1>6, <1>7, <1>10, LaneKeeps

LEMMA FinishInitialLane ==
  ASSUME StoreIInv, LaneIInv, NEW w \in Workers, NEW s \in Sources, FinishInitial(w, s)
  PROVE  LaneIInv'
<1>1. PICK x : x = task[w][s]
  OBVIOUS
<1>2. /\ x \in Row /\ RowHolds(x, s) /\ ReadHolds(x, w) /\ RoomHolds(x, Log[s][x.c]) /\ x.pc = "initial"
      /\ doc' = doc /\ writer' = writer /\ x.pc \notin Queued
  BY <1>1, LaneTyped DEF FinishInitial, store, Queued
<1>3. CASE Resolve(w, s) /\ UNCHANGED queue
  <2>1. SetTask(w, s, Idle) /\ queue' = queue
    BY <1>3 DEF Resolve
  <2>2. PICK y : y = Idle
    OBVIOUS
  <2>3. y.pc = "idle" /\ y.pc \notin Queued /\ y.pc \notin Holding /\ SetTask(w, s, y)
    BY <2>1, <2>2, IdleTyped DEF Queued, Holding
  <2>4. ReadHolds(y, w)' /\ RoomHolds(y, Log[s][y.c])
    BY <2>3 DEF ReadHolds, RoomHolds
  <2> QED
    BY <1>1, <1>2, <2>1, <2>3, <2>4, LaneKeeps
<1>4. CASE /\ SetTask(w, s, [x EXCEPT !.pc = "waiting", !.attempt = 1, !.lks = Nothing,
                              !.targets = ProvisionalTargets(Log[s][x.c], x.lks)])
           /\ queue' = [queue EXCEPT ![w] = Append(@, s)]
  <2> DEFINE commit == Log[s][x.c]
             ts == ProvisionalTargets(commit, x.lks)
             y == [x EXCEPT !.pc = "waiting", !.attempt = 1, !.lks = Nothing, !.targets = ts]
  <2>1. SetTask(w, s, y)
    BY <1>4
  <2>2. /\ y.pc = "waiting" /\ y.attempt = 1 /\ y.c = x.c /\ y.targets = ts /\ y.links = x.links
        /\ y.docs = x.docs /\ y.conflicts = x.conflicts
    BY <1>2 DEF Row
  <2>3. x.c \in Commits(s) /\ x.lks \in LinkMaps
    BY <1>2 DEF RowHolds, Row
  <2>4. OwnTargets(commit) \subseteq ts
    <3> SUFFICES ASSUME NEW i \in DOMAIN commit, NEW t \in commit[i].to PROVE t \in ts
      BY DEF OwnTargets
    <3>1. commit[i] \in Event
      BY <2>3, LogTyped
    <3>2. commit[i].via = NoLink
      BY <3>1 DEF Event
    <3> QED
      BY <3>2 DEF ProvisionalTargets, RouteEvent
  <2>5. ts \in SUBSET Docs
    BY <2>3, RoutingTyped
  <2> HIDE DEF y, ts
  <2>6. Cardinality(ts \ OwnTargets(commit)) \in Nat
    BY <2>5, RoomOfDocs
  <2>7. x.links = RoutingLinks(commit) /\ x.conflicts = 0
    BY <1>2 DEF RoomHolds
  <2>8. Cardinality(x.links \ RoutingLinks(commit)) \in Nat
    BY <2>3, <2>7, RoomOfLinks
  <2>9. /\ 0 <= MaxConflictRetries
        /\ 1 <= 1 + 0 + Cardinality(ts \ OwnTargets(commit)) + Cardinality(x.links \ RoutingLinks(commit))
    BY <2>6, <2>8, StoreAssumption
  <2>10. RoomHolds(y, commit)
    BY <2>2, <2>4, <2>7, <2>9 DEF RoomHolds
  <2>11. ReadHolds(y, w)'
    BY <1>2, <2>2 DEF ReadHolds
  <2>12. DOMAIN task[w] = Sources /\ Lanes(queue[w], task[w]) /\ queue \in [Workers -> Seq(Sources)]
    BY LaneTyped DEF LaneIInv
  <2>13. /\ Append(queue[w], s) \in Seq(Sources)
         /\ Lanes(Append(queue[w], s), [task[w] EXCEPT ![s] = y])
    BY <1>1, <1>2, <2>2, <2>12, LanesJoined
  <2>14. queue' = [queue EXCEPT ![w] = Append(queue[w], s)]
    BY <1>4, <2>12
  <2>15. RoomHolds(y, Log[s][y.c])
    BY <2>2, <2>10
  <2> QED
    BY <1>1, <1>2, <2>1, <2>11, <2>13, <2>14, <2>15, LaneStep
<1> QED
  BY <1>1, <1>3, <1>4 DEF FinishInitial

LEMMA ReserveLane ==
  ASSUME StoreIInv, LaneIInv, NEW w \in Workers, NEW s \in Sources, Reserve(w, s)
  PROVE  LaneIInv'
<1>1. PICK x : x = task[w][s]
  OBVIOUS
<1>2. /\ x \in Row /\ ReadHolds(x, w) /\ RoomHolds(x, Log[s][x.c]) /\ x.pc = "reserve"
      /\ doc' = doc /\ writer' = writer /\ x.pc \notin Queued
  BY <1>1, LaneTyped DEF Reserve, store, Queued
<1> DEFINE y == [x EXCEPT !.pc = "waiting"]
<1>3. SetTask(w, s, y)
  BY <1>1 DEF Reserve
<1>4. /\ y.pc = "waiting" /\ y.c = x.c /\ y.targets = x.targets /\ y.links = x.links
      /\ y.docs = x.docs /\ y.conflicts = x.conflicts /\ y.attempt = x.attempt
  BY <1>2 DEF Row
<1> HIDE DEF y
<1>5. DOMAIN task[w] = Sources /\ Lanes(queue[w], task[w]) /\ queue \in [Workers -> Seq(Sources)]
  BY LaneTyped DEF LaneIInv
<1>6. /\ Append(queue[w], s) \in Seq(Sources)
      /\ Lanes(Append(queue[w], s), [task[w] EXCEPT ![s] = y])
  BY <1>1, <1>2, <1>4, <1>5, LanesJoined
<1>7. queue' = [queue EXCEPT ![w] = Append(queue[w], s)]
  BY <1>5 DEF Reserve
<1>8. ReadHolds(y, w)' /\ RoomHolds(y, Log[s][y.c])
  BY <1>2, <1>4 DEF ReadHolds, RoomHolds
<1> QED
  BY <1>1, <1>2, <1>3, <1>6, <1>7, <1>8, LaneStep

LEMMA StartLane ==
  ASSUME StoreIInv, LaneIInv, NEW w \in Workers, NEW s \in Sources, Start(w, s)
  PROVE  LaneIInv'
<1>1. PICK x : x = task[w][s]
  OBVIOUS
<1>2. /\ x \in Row /\ ReadHolds(x, w) /\ RoomHolds(x, Log[s][x.c]) /\ x.pc = "waiting"
      /\ queue' = queue /\ doc' = doc /\ writer' = writer
      /\ \A o \in Older(w, s) : task[w][o].targets \cap x.targets = {}
  BY <1>1, LaneTyped DEF Start, store
<1> DEFINE y == [x EXCEPT !.pc = "load"]
<1>3. SetTask(w, s, y)
  BY <1>1 DEF Start
<1>4. /\ y.pc = "load" /\ y.c = x.c /\ y.targets = x.targets /\ y.links = x.links
      /\ y.docs = x.docs /\ y.conflicts = x.conflicts /\ y.attempt = x.attempt
  BY <1>2 DEF Row
<1> HIDE DEF y
<1>5. x.pc \in Queued /\ y.pc \in Queued
  BY <1>2, <1>4 DEF Queued
<1>6. DOMAIN x.docs = {}
  BY <1>2, NothingRead DEF ReadHolds
<1>7. ReadHolds(y, w)' /\ RoomHolds(y, Log[s][y.c])
  BY <1>2, <1>4, <1>6 DEF ReadHolds, RoomHolds
<1> QED
  BY <1>1, <1>2, <1>3, <1>4, <1>5, <1>7, LaneKeeps

(* Another attempt: z is the execution it starts from.                       *)
LEMMA AgainLane ==
  ASSUME StoreIInv, LaneIInv, NEW w \in Workers, NEW s \in Sources, NEW x, x = task[w][s],
         NEW z \in Row, TryAgain(w, s, z), doc' = doc /\ writer' = writer,
         OwnTargets(Log[s][z.c]) \subseteq z.targets,
         z.links \subseteq RoutingLinks(Log[s][z.c]) \cup StagedLinks(Log[s][z.c]),
         z.conflicts <= MaxConflictRetries,
         z.attempt + 1 <= 1 + z.conflicts + Cardinality(z.targets \ OwnTargets(Log[s][z.c]))
                            + Cardinality(z.links \ RoutingLinks(Log[s][z.c]))
  PROVE  LaneIInv'
<1>1. Release(w, s)
  BY DEF TryAgain
<1>2. CASE SetTask(w, s, Idle)
  BY <1>1, <1>2, LaneEnds
<1>3. CASE SetTask(w, s, [z EXCEPT !.pc = "reserve", !.attempt = @ + 1, !.docs = Nothing,
                            !.lks = Nothing, !.own = 0, !.plan = Nothing])
  <2> DEFINE p == RemoveFirst(queue[w], s)
             y == [z EXCEPT !.pc = "reserve", !.attempt = @ + 1, !.docs = Nothing,
                            !.lks = Nothing, !.own = 0, !.plan = Nothing]
  <2>1. SetTask(w, s, y)
    BY <1>3
  <2>2. /\ y.pc = "reserve" /\ y.c = z.c /\ y.targets = z.targets /\ y.links = z.links
        /\ y.docs = Nothing /\ y.conflicts = z.conflicts /\ y.attempt = z.attempt + 1
    BY DEF Row
  <2> HIDE DEF y
  <2>3. y.pc \notin Queued
    BY <2>2 DEF Queued
  <2>4. DOMAIN task[w] = Sources /\ Lanes(queue[w], task[w]) /\ queue \in [Workers -> Seq(Sources)]
    BY LaneTyped DEF LaneIInv
  <2>5. p \in Seq(Sources) /\ Lanes(p, [task[w] EXCEPT ![s] = y])
    BY <2>3, <2>4, LanesLeft
  <2>6. queue' = [queue EXCEPT ![w] = p]
    BY <1>1, <2>4 DEF Release
  <2> HIDE DEF p
  <2>7. ReadHolds(y, w)' /\ RoomHolds(y, Log[s][y.c])
    BY <2>2 DEF ReadHolds, RoomHolds
  <2> QED
    BY <2>1, <2>5, <2>6, <2>7, LaneStep
<1> QED
  BY <1>2, <1>3 DEF TryAgain

LEMMA FinishLoadLane ==
  ASSUME StoreIInv, LaneIInv, NEW w \in Workers, NEW s \in Sources, FinishLoad(w, s)
  PROVE  LaneIInv'
<1>1. PICK x : x = task[w][s]
  OBVIOUS
<1>2. /\ x \in Row /\ RowHolds(x, s) /\ ReadHolds(x, w) /\ RoomHolds(x, Log[s][x.c])
      /\ x.pc = "load" /\ AllRead(x) /\ doc' = doc /\ writer' = writer
  BY <1>1, LaneTyped DEF FinishLoad, store
<1>3. PICK red : red = Reduce(s, x.c, x.docs, x.lks)
  OBVIOUS
<1>4. PICK seen : seen = own[s]
  OBVIOUS
<1>5. CASE (Resolve(w, s) \/ SetTask(w, s, Idle)) /\ Release(w, s)
  <2>1. SetTask(w, s, Idle)
    BY <1>5 DEF Resolve
  <2> QED
    BY <1>1, <1>2, <1>5, <2>1, LaneEnds
<1>6. CASE /\ TryAgain(w, s, [x EXCEPT !.targets = @ \cup red.missingDocs, !.links = @ \cup red.missingLinks])
           /\ NeedsSnapshot(red)
  <2> DEFINE commit == Log[s][x.c]
             own0 == OwnTargets(commit)
             rout == RoutingLinks(commit)
             ts == x.targets \cup red.missingDocs
             ls == x.links \cup red.missingLinks
             z == [x EXCEPT !.targets = ts, !.links = ls]
  <2>1. /\ x.c \in Commits(s) /\ x.docs \in DocMaps /\ x.lks \in LinkMaps
        /\ x.targets \in SUBSET Docs /\ x.links \in SUBSET Links
        /\ x.attempt \in Nat /\ x.conflicts \in Nat
    BY <1>2 DEF RowHolds, Row
  <2>2. /\ red.missingDocs \cap DOMAIN x.docs = {} /\ red.missingLinks \cap DOMAIN x.lks = {}
        /\ red.missingLinks \subseteq StagedLinks(commit)
    BY <1>3, <2>1, ReduceMisses
  <2>3. red \in Plans
    BY <1>3, <2>1, ReduceHolds DEF Reduced
  <2>4. DOMAIN x.docs = x.targets /\ DOMAIN x.lks = x.links
    BY <1>2 DEF AllRead
  <2>5. /\ own0 \subseteq x.targets /\ x.links \subseteq rout \cup StagedLinks(commit)
        /\ x.conflicts <= MaxConflictRetries
        /\ x.attempt <= 1 + x.conflicts + Cardinality(x.targets \ own0) + Cardinality(x.links \ rout)
    BY <1>2 DEF RoomHolds
  <2>6. rout \subseteq x.links
    BY <1>2 DEF RowHolds
  <2>7. ts \in SUBSET Docs /\ ls \in SUBSET Links
    BY <2>1, <2>3 DEF Plans
  <2>8. ls \subseteq rout \cup StagedLinks(commit)
    BY <2>2, <2>5
  <2>9. IsFiniteSet(ts \ own0) /\ IsFiniteSet(ls \ rout)
    <3>1. IsFiniteSet(ts \ own0)
      BY <2>7, RoomOfDocs
    <3> HIDE DEF ls
    <3>2. IsFiniteSet(ls \ rout)
      BY <2>1, <2>8, RoomOfLinks
    <3> QED
      BY <3>1, <3>2
  <2> DEFINE d0 == Cardinality(x.targets \ own0)
             d1 == Cardinality(ts \ own0)
             l0 == Cardinality(x.links \ rout)
             l1 == Cardinality(ls \ rout)
  <2>10. d0 \in Nat /\ d1 \in Nat /\ d0 <= d1 /\ (red.missingDocs # {} => d0 + 1 <= d1)
    <3>1. red.missingDocs \cap x.targets = {}
      BY <2>2, <2>4
    <3> HIDE DEF own0
    <3> QED
      BY <2>5, <2>9, <3>1, RoomGrows
  <2>11. l0 \in Nat /\ l1 \in Nat /\ l0 <= l1 /\ (red.missingLinks # {} => l0 + 1 <= l1)
    <3>1. red.missingLinks \cap x.links = {}
      BY <2>2, <2>4
    <3> HIDE DEF rout
    <3> QED
      BY <2>6, <2>9, <3>1, RoomGrows
  <2>12. red.missingDocs # {} \/ red.missingLinks # {}
    BY <1>6 DEF NeedsSnapshot
  <2>13. TryAgain(w, s, z)
    BY <1>6
  <2> HIDE DEF d0, d1, l0, l1, ts, ls, own0, rout, commit
  <2>14. x.attempt <= 1 + x.conflicts + d0 + l0
    BY <2>5 DEF d0, l0
  <2>15. x.attempt + 1 <= 1 + x.conflicts + d1 + l1
    BY <2>1, <2>10, <2>11, <2>12, <2>14
  <2>16. /\ z \in Row /\ z.c = x.c /\ z.targets = ts /\ z.links = ls /\ z.attempt = x.attempt
         /\ z.conflicts = x.conflicts
    BY <1>2, <2>7 DEF Row
  <2> HIDE DEF z
  <2>17. own0 \subseteq ts
    BY <2>5 DEF ts
  <2>18. /\ OwnTargets(Log[s][z.c]) \subseteq z.targets
         /\ z.links \subseteq RoutingLinks(Log[s][z.c]) \cup StagedLinks(Log[s][z.c])
         /\ z.conflicts <= MaxConflictRetries
         /\ z.attempt + 1 <= 1 + z.conflicts + Cardinality(z.targets \ OwnTargets(Log[s][z.c]))
                               + Cardinality(z.links \ RoutingLinks(Log[s][z.c]))
    BY <2>5, <2>8, <2>15, <2>16, <2>17 DEF d1, l1, own0, rout, commit
  <2> QED
    BY <1>1, <1>2, <2>13, <2>16, <2>18, AgainLane
<1>7. CASE /\ SetTask(w, s, [x EXCEPT !.pc = "commit", !.own = seen, !.plan = red])
           /\ UNCHANGED queue
  <2> DEFINE y == [x EXCEPT !.pc = "commit", !.own = seen, !.plan = red]
  <2>1. SetTask(w, s, y) /\ queue' = queue
    BY <1>7
  <2>2. /\ y.pc = "commit" /\ y.c = x.c /\ y.targets = x.targets /\ y.links = x.links
        /\ y.docs = x.docs /\ y.conflicts = x.conflicts /\ y.attempt = x.attempt
    BY <1>2 DEF Row
  <2> HIDE DEF y
  <2>3. x.pc \in Queued /\ y.pc \in Queued /\ x.pc \in Holding
    BY <1>2, <2>2 DEF Queued, Holding
  <2>4. ReadHolds(y, w)' /\ RoomHolds(y, Log[s][y.c])
    BY <1>2, <2>2 DEF ReadHolds, RoomHolds
  <2> QED
    BY <1>1, <1>2, <2>1, <2>2, <2>3, <2>4, LaneKeeps
<1> QED
  BY <1>1, <1>3, <1>4, <1>5, <1>6, <1>7 DEF FinishLoad

LEMMA ConflictLane ==
  ASSUME StoreIInv, LaneIInv, NEW w \in Workers, NEW s \in Sources, Conflict(w, s)
  PROVE  LaneIInv'
<1>1. PICK x : x = task[w][s]
  OBVIOUS
<1>2. /\ x \in Row /\ RowHolds(x, s) /\ ReadHolds(x, w) /\ RoomHolds(x, Log[s][x.c])
      /\ x.pc = "commit" /\ doc' = doc /\ writer' = writer
  BY <1>1, LaneTyped DEF Conflict, store
<1>3. CASE SetTask(w, s, Idle) /\ Release(w, s)
  BY <1>1, <1>2, <1>3, LaneEnds
<1>4. CASE x.conflicts < MaxConflictRetries /\ TryAgain(w, s, [x EXCEPT !.conflicts = @ + 1])
  <2> DEFINE z == [x EXCEPT !.conflicts = @ + 1]
             commit == Log[s][x.c]
             d == Cardinality(x.targets \ OwnTargets(commit))
             l == Cardinality(x.links \ RoutingLinks(commit))
  <2>1. /\ x.c \in Commits(s) /\ x.targets \in SUBSET Docs
        /\ x.attempt \in Nat /\ x.conflicts \in Nat /\ MaxConflictRetries \in Nat
    BY <1>2, StoreAssumption DEF RowHolds, Row
  <2>2. /\ OwnTargets(commit) \subseteq x.targets
        /\ x.links \subseteq RoutingLinks(commit) \cup StagedLinks(commit)
        /\ x.attempt <= 1 + x.conflicts + d + l
    BY <1>2 DEF RoomHolds
  <2>3. d \in Nat
    BY <2>1, RoomOfDocs
  <2>4. l \in Nat
    BY <2>1, <2>2, RoomOfLinks
  <2>5. /\ z \in Row /\ z.c = x.c /\ z.targets = x.targets /\ z.links = x.links /\ z.attempt = x.attempt
        /\ z.conflicts = x.conflicts + 1
    BY <1>2, <2>1 DEF Row
  <2>6. TryAgain(w, s, z)
    BY <1>4
  <2> HIDE DEF z, d, l
  <2>7. x.conflicts + 1 <= MaxConflictRetries /\ x.attempt + 1 <= 1 + (x.conflicts + 1) + d + l
    BY <1>4, <2>1, <2>2, <2>3, <2>4
  <2>8. /\ OwnTargets(Log[s][z.c]) \subseteq z.targets
        /\ z.links \subseteq RoutingLinks(Log[s][z.c]) \cup StagedLinks(Log[s][z.c])
        /\ z.conflicts <= MaxConflictRetries
        /\ z.attempt + 1 <= 1 + z.conflicts + Cardinality(z.targets \ OwnTargets(Log[s][z.c]))
                              + Cardinality(z.links \ RoutingLinks(Log[s][z.c]))
    BY <2>2, <2>5, <2>7 DEF d, l
  <2> QED
    BY <1>1, <1>2, <2>5, <2>6, <2>8, AgainLane
<1> QED
  BY <1>1, <1>3, <1>4 DEF Conflict

LEMMA OutcomeUnknownLane ==
  ASSUME StoreIInv, LaneIInv, NEW w \in Workers, NEW s \in Sources, OutcomeUnknown(w, s)
  PROVE  LaneIInv'
<1>1. PICK x : x = task[w][s]
  OBVIOUS
<1>2. /\ x \in Row /\ RowHolds(x, s) /\ ReadHolds(x, w) /\ x.pc = "commit"
      /\ queue' = queue /\ Valid(w, s)
  BY <1>1, LaneTyped DEF OutcomeUnknown
<1>3. Write(w, s) \/ (doc' = doc /\ writer' = writer)
  BY DEF OutcomeUnknown, store
<1> DEFINE y == [x EXCEPT !.pc = "reconcile", !.targets = x.plan.touched, !.links = DOMAIN x.plan.staged]
<1>4. SetTask(w, s, y)
  BY <1>1 DEF OutcomeUnknown
<1>5. y.pc = "reconcile" /\ y.targets = x.plan.touched
  BY <1>2 DEF Row
<1> HIDE DEF y
<1>6. y.targets \subseteq x.targets
  <2>1. x.plan.touched \subseteq DOMAIN x.docs
    BY <1>2, PlanKnown
  <2> QED
    BY <1>2, <1>5, <2>1 DEF ReadHolds
<1>7. x.pc \in Queued /\ y.pc \in Queued /\ x.pc \in Holding
  BY <1>2, <1>5 DEF Queued, Holding
<1>8. ReadHolds(y, w)' /\ RoomHolds(y, Log[s][y.c])
  BY <1>5 DEF ReadHolds, RoomHolds
<1> QED
  BY <1>1, <1>2, <1>3, <1>4, <1>6, <1>7, <1>8, LaneKeeps

LEMMA ReconcileRowLane ==
  ASSUME StoreIInv, LaneIInv, NEW w \in Workers, NEW s \in Sources, ReconcileRow(w, s)
  PROVE  LaneIInv'
<1>1. PICK x : x = task[w][s]
  OBVIOUS
<1>2. x \in Row /\ x.pc = "reconcile" /\ queue' = queue /\ doc' = doc /\ writer' = writer
  BY <1>1, LaneTyped DEF ReconcileRow, store
<1>3. PICK y : SetTask(w, s, y) /\ y.pc = "reconcile" /\ y.targets \subseteq x.targets
  <2>1. CASE \E t \in x.targets : SetTask(w, s, [x EXCEPT !.targets = @ \ {t}])
    <3>1. PICK t : SetTask(w, s, [x EXCEPT !.targets = @ \ {t}])
      BY <2>1
    <3>2. [x EXCEPT !.targets = @ \ {t}].pc = "reconcile" /\ [x EXCEPT !.targets = @ \ {t}].targets = x.targets \ {t}
      BY <1>2 DEF Row
    <3> QED
      BY <3>1, <3>2
  <2>2. CASE \E l \in x.links : SetTask(w, s, [x EXCEPT !.links = @ \ {l}])
    <3>1. PICK l : SetTask(w, s, [x EXCEPT !.links = @ \ {l}])
      BY <2>2
    <3>2. [x EXCEPT !.links = @ \ {l}].pc = "reconcile" /\ [x EXCEPT !.links = @ \ {l}].targets = x.targets
      BY <1>2 DEF Row
    <3> QED
      BY <3>1, <3>2
  <2> QED
    BY <1>1, <2>1, <2>2 DEF ReconcileRow
<1>4. x.pc \in Queued /\ y.pc \in Queued /\ x.pc \in Holding
  BY <1>2, <1>3 DEF Queued, Holding
<1>5. ReadHolds(y, w)' /\ RoomHolds(y, Log[s][y.c])
  BY <1>3 DEF ReadHolds, RoomHolds
<1> QED
  BY <1>1, <1>2, <1>3, <1>4, <1>5, LaneKeeps

LEMMA CrashLane ==
  ASSUME StoreIInv, LaneIInv, NEW w \in Workers, Crash(w)
  PROVE  LaneIInv'
<1>1. doc' = doc /\ writer' = writer
  BY DEF Crash, store
<1>2. PICK tk : tk = task'
  OBVIOUS
<1>3. PICK qu : qu = queue'
  OBVIOUS
<1>4. /\ tk = [task EXCEPT ![w] = [s \in Sources |-> Idle]] /\ qu = [queue EXCEPT ![w] = <<>>]
      /\ task \in [Workers -> [Sources -> Row]] /\ queue \in [Workers -> Seq(Sources)]
  BY <1>2, <1>3 DEF Crash, StoreIInv, StoreTypeOK, LaneIInv
<1>5. PICK idle : idle = Idle
  OBVIOUS
<1>6. idle.pc = "idle" /\ idle.pc \notin Queued
  BY <1>5, IdleTyped DEF Queued
<1>7. ASSUME NEW w2 \in Workers PROVE Lanes(qu[w2], tk[w2])
  <2>1. CASE w2 = w
    <3>1. qu[w2] = <<>> /\ \A s \in Sources : tk[w2][s] = idle
      BY <1>4, <1>5, <2>1
    <3>2. <<>> \in Seq(Sources) /\ DOMAIN <<>> = {}
      OBVIOUS
    <3> QED
      BY <1>6, <3>1, <3>2 DEF Lanes, NoneTwice, In, Before
  <2>2. CASE w2 # w
    BY <1>4, <2>2 DEF LaneIInv
  <2> QED
    BY <2>1, <2>2
<1>8. ASSUME NEW w2 \in Workers, NEW s2 \in Sources, NEW z, z = tk[w2][s2]
      PROVE  ReadHolds(z, w2)' /\ RoomHolds(z, Log[s2][z.c])
  <2>1. CASE z = idle
    BY <1>6, <2>1 DEF ReadHolds, RoomHolds
  <2>2. CASE z = task[w2][s2]
    BY <1>1, <2>2, LaneTyped DEF ReadHolds
  <2> QED
    BY <1>4, <1>5, <1>8, <2>1, <2>2
<1>9. \A w2 \in Workers : Lanes(queue[w2], task[w2])'
  BY <1>2, <1>3, <1>7 DEF Lanes
<1>10. \A w2 \in Workers, s2 \in Sources :
         ReadHolds(task[w2][s2], w2)' /\ RoomHolds(task[w2][s2], Log[s2][task[w2][s2].c])'
  <2> SUFFICES ASSUME NEW w2 \in Workers, NEW s2 \in Sources
               PROVE  ReadHolds(task[w2][s2], w2)' /\ RoomHolds(task[w2][s2], Log[s2][task[w2][s2].c])'
    OBVIOUS
  <2>1. PICK z : z = task'[w2][s2]
    OBVIOUS
  <2>2. ReadHolds(z, w2)' /\ RoomHolds(z, Log[s2][z.c])
    BY <1>2, <1>8, <2>1
  <2> QED
    BY <2>1, <2>2 DEF ReadHolds, RoomHolds
<1>11. qu \in [Workers -> Seq(Sources)]
  BY <1>4
<1> QED
  BY <1>3, <1>9, <1>10, <1>11 DEF LaneIInv

LEMMA LaneInit == Init => LaneIInv
<1> SUFFICES ASSUME Init PROVE LaneIInv
  OBVIOUS
<1>1. PICK idle : idle = Idle
  OBVIOUS
<1>2. /\ \A w \in Workers : queue[w] = <<>> /\ \A s \in Sources : task[w][s] = idle
      /\ queue \in [Workers -> Seq(Sources)]
  BY <1>1 DEF Init
<1>3. idle.pc = "idle" /\ idle.pc \notin Queued
  BY <1>1, IdleTyped DEF Queued
<1>4. <<>> \in Seq(Sources) /\ DOMAIN <<>> = {}
  OBVIOUS
<1>5. \A w \in Workers : Lanes(queue[w], task[w])
  BY <1>2, <1>3, <1>4 DEF Lanes, NoneTwice, In, Before
<1>6. \A w \in Workers, s \in Sources :
        ReadHolds(task[w][s], w) /\ RoomHolds(task[w][s], Log[s][task[w][s].c])
  BY <1>2, <1>3 DEF ReadHolds, RoomHolds
<1> QED
  BY <1>2, <1>5, <1>6 DEF LaneIInv

LEMMA LaneNext == StoreIInv /\ LaneIInv /\ [Next]_vars => LaneIInv'
<1> SUFFICES ASSUME StoreIInv, LaneIInv, [Next]_vars PROVE LaneIInv'
  OBVIOUS
<1>1. ASSUME NEW w \in Workers, NEW s \in Sources, NEW c \in Commits(s), Begin(w, s, c)
      PROVE  LaneIInv'
  BY <1>1, BeginLane
<1>2. ASSUME NEW w \in Workers, NEW s \in Sources, ExecutorStep(w, s) PROVE LaneIInv'
  <2>1. CASE ReadLink(w, s)      BY <2>1, ReadLinkLane
  <2>2. CASE ReadDoc(w, s)       BY <2>2, ReadDocLane
  <2>3. CASE FinishInitial(w, s) BY <2>3, FinishInitialLane
  <2>4. CASE Reserve(w, s)       BY <2>4, ReserveLane
  <2>5. CASE Start(w, s)         BY <2>5, StartLane
  <2>6. CASE FinishLoad(w, s)    BY <2>6, FinishLoadLane
  <2>7. CASE Commit(w, s)
    <3>1. PICK x : x = task[w][s]
      OBVIOUS
    <3>2. /\ x.pc = "commit" /\ Valid(w, s) /\ Write(w, s)
          /\ SetTask(w, s, Idle) /\ Release(w, s)
      BY <2>7, <3>1 DEF Commit, Resolve
    <3> QED
      BY <3>1, <3>2, LaneEnds
  <2>8. CASE Conflict(w, s)      BY <2>8, ConflictLane
  <2>9. CASE ReconcileRow(w, s)  BY <2>9, ReconcileRowLane
  <2>10. CASE Reconciled(w, s) \/ NotReconciled(w, s)
    <3>1. SetTask(w, s, Idle) /\ Release(w, s) /\ doc' = doc /\ writer' = writer
      BY <2>10 DEF Reconciled, NotReconciled, Resolve, store
    <3> QED
      BY <3>1, LaneEnds
  <2> QED
    BY <1>2, <2>1, <2>2, <2>3, <2>4, <2>5, <2>6, <2>7, <2>8, <2>9, <2>10 DEF ExecutorStep
<1>3. ASSUME NEW w \in Workers, NEW s \in Sources, CallFails(w, s) PROVE LaneIInv'
  <2>1. SetTask(w, s, Idle) /\ Release(w, s) /\ doc' = doc /\ writer' = writer
    BY <1>3 DEF CallFails, store
  <2> QED
    BY <2>1, LaneEnds
<1>4. ASSUME NEW w \in Workers, NEW s \in Sources, ReplyLost(w, s) PROVE LaneIInv'
  <2>1. PICK x : x = task[w][s]
    OBVIOUS
  <2>2. /\ x.pc = "commit" /\ Valid(w, s) /\ Write(w, s)
        /\ SetTask(w, s, Idle) /\ Release(w, s)
    BY <1>4, <2>1 DEF ReplyLost
  <2> QED
    BY <2>1, <2>2, LaneEnds
<1>5. ASSUME NEW w \in Workers, NEW s \in Sources, OutcomeUnknown(w, s) PROVE LaneIInv'
  BY <1>5, OutcomeUnknownLane
<1>6. ASSUME NEW w \in Workers, Crash(w) PROVE LaneIInv'
  BY <1>6, CrashLane
<1>7. CASE UNCHANGED vars
  <2>1. doc' = doc /\ writer' = writer /\ queue' = queue /\ task' = task
    BY <1>7 DEF vars, store
  <2>2. \A w \in Workers : Lanes(queue[w], task[w])'
    BY <2>1 DEF LaneIInv, Lanes
  <2>3. ASSUME NEW w \in Workers, NEW s \in Sources
        PROVE  ReadHolds(task[w][s], w)' /\ RoomHolds(task[w][s], Log[s][task[w][s].c])'
    <3>1. ReadHolds(task[w][s], w) /\ RoomHolds(task[w][s], Log[s][task[w][s].c])
      BY DEF LaneIInv
    <3>2. ReadHolds(task[w][s], w)'
      BY <2>1, <3>1 DEF ReadHolds
    <3>3. RoomHolds(task[w][s], Log[s][task[w][s].c])'
      BY <2>1, <3>1 DEF RoomHolds
    <3> QED
      BY <3>2, <3>3
  <2> QED
    BY <2>1, <2>2, <2>3 DEF LaneIInv
<1> QED
  BY <1>1, <1>2, <1>3, <1>4, <1>5, <1>6, <1>7 DEF Next

(* A document that moved under an execution was written by another worker,    *)
(* as the target lanes keep the executions of one worker apart, and every      *)
(* further attempt has a conflict or something learned to show for it; so the   *)
(* attempts run out only under an execution that moved links have sent to more *)
(* documents than its commit has events, for any number of conflicts allowed   *)
(* (projectionDefinitionExecutor.ts:125-126, 169-182).                        *)
THEOREM ConflictsAreWithOthers == Spec => []RetriesAreForConflicts
<1>1. StoreIInv /\ LaneIInv => RetriesAreForConflicts
  <2> SUFFICES ASSUME StoreIInv, LaneIInv, NEW w \in Workers, NEW s \in Sources, NEW x, x = task[w][s]
               PROVE  /\ x.pc = "commit" =>
                           \A t \in x.plan.touched : doc[t].rev # x.docs[t].rev => writer[t] # w
                      /\ x.pc \in {"reserve", "load", "commit"} =>
                           x.attempt <= 1 + x.conflicts + Cardinality(x.targets \ OwnTargets(Log[s][x.c]))
                                          + Cardinality(x.links \ RoutingLinks(Log[s][x.c]))
                      /\ x.pc = "load" /\ x.attempt = MaxAttempts(Log[s][x.c])
                           => Cardinality(x.targets \ OwnTargets(Log[s][x.c])) > Len(Log[s][x.c])
    BY ZenonT(60) DEF RetriesAreForConflicts, Plan
  <2>1. x \in Row /\ RowHolds(x, s) /\ ReadHolds(x, w) /\ RoomHolds(x, Log[s][x.c])
    BY LaneTyped
  <2>2. ASSUME x.pc = "commit", NEW t \in x.plan.touched, doc[t].rev # x.docs[t].rev
        PROVE  writer[t] # w
    <3>1. t \in DOMAIN x.docs
      BY <2>1, <2>2, PlanKnown
    <3> QED
      BY <2>1, <2>2, <3>1 DEF ReadHolds
  <2>3. ASSUME x.pc = "load", x.attempt = MaxAttempts(Log[s][x.c])
        PROVE  Cardinality(x.targets \ OwnTargets(Log[s][x.c])) > Len(Log[s][x.c])
    <3> DEFINE commit == Log[s][x.c]
               d == Cardinality(x.targets \ OwnTargets(commit))
               l == Cardinality(x.links \ RoutingLinks(commit))
               n == Len(commit)
    <3>1. /\ x.c \in Commits(s) /\ x.targets \in SUBSET Docs
          /\ x.attempt \in Nat /\ x.conflicts \in Nat /\ MaxConflictRetries \in Nat
      BY <2>1, <2>3, StoreAssumption DEF RowHolds, Row
    <3>2. /\ x.links \subseteq RoutingLinks(commit) \cup StagedLinks(commit)
          /\ x.conflicts <= MaxConflictRetries /\ x.attempt <= 1 + x.conflicts + d + l
      BY <2>1, <2>3 DEF RoomHolds
    <3>3. d \in Nat
      BY <3>1, RoomOfDocs
    <3>4. l \in Nat /\ l <= n
      BY <3>1, <3>2, RoomOfLinks
    <3>5. n \in Nat
      BY <3>1, LogTyped
    <3>6. x.attempt = MaxConflictRetries + 2 * n + 2
      BY <2>3 DEF MaxAttempts
    <3> HIDE DEF d, l, n
    <3>7. d > n
      BY <3>1, <3>2, <3>3, <3>4, <3>5, <3>6
    <3> QED
      BY <3>7 DEF d, n
  <2> QED
    BY <2>1, <2>2, <2>3 DEF RoomHolds
<1> QED
  BY <1>1, StoreInit, StoreNext, LaneInit, LaneNext, PTL DEF Spec

=============================================================================
