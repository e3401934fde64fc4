----------------------------- MODULE DaemonProofs -----------------------------
(***************************************************************************)
(* Proofs about ProjectionDaemon, for any events, documents, links, batch   *)
(* size and length of the log: what a batch folds stays whole, in order and *)
(* without a gap, and with the in-memory store an orderly log leaves what   *)
(* its events leave one at a time.                                          *)
(***************************************************************************)
EXTENDS ProjectionDaemon, SequenceTheorems, FiniteSetTheorems, WellFoundedInduction, TLAPS

-----------------------------------------------------------------------------
(* Induction over natural numbers, and the folds of a batch.               *)

LEMMA LeastNatural ==
  ASSUME NEW T \in SUBSET Nat, T # {}
  PROVE  \E x \in T : \A y \in T : x <= y
<1>1. \E x \in T : \A y \in T : ~ (<<y, x>> \in OpToRel(<, Nat))
  BY NatLessThanWellFounded, WFMin
<1>2. ASSUME NEW x \in T, NEW y \in T, ~ (<<y, x>> \in OpToRel(<, Nat)) PROVE x <= y
  <2>1. x \in Nat /\ y \in Nat
    OBVIOUS
  <2>2. ~ (y < x)
    BY <1>2, <2>1 DEF OpToRel
  <2> QED
    BY <2>1, <2>2
<1> QED
  BY <1>1, <1>2

(* A set of naturals that holds 0 and, up to n, the successors of its        *)
(* members, holds all of them up to n.                                       *)
LEMMA UpTo ==
  ASSUME NEW n \in Nat, NEW T, 0 \in T, \A k \in Nat : k < n /\ k \in T => k + 1 \in T
  PROVE  \A k \in 0..n : k \in T
<1> DEFINE missing == {k \in 0..n : k \notin T}
<1>1. SUFFICES ASSUME missing # {} PROVE FALSE
  OBVIOUS
<1>2. PICK k \in missing : \A j \in missing : k <= j
  <2>1. missing \in SUBSET Nat
    OBVIOUS
  <2> HIDE DEF missing
  <2> QED
    BY <1>1, <2>1, LeastNatural
<1>3. k \in Nat /\ k # 0 /\ k <= n /\ k \notin T
  OBVIOUS
<1>4. k - 1 \in Nat /\ k - 1 < n /\ k - 1 \in 0..n /\ ~ (k <= k - 1) /\ (k - 1) + 1 = k
  BY <1>3
<1>5. k - 1 \in T
  BY <1>2, <1>4
<1> QED
  BY <1>3, <1>4, <1>5

LEMMA MaxOfPrefix ==
  ASSUME NEW m \in Nat, NEW x \in SUBSET (1..(m + 1)), m + 1 \in x
  PROVE  Max(x) = m + 1 /\ x \ {m + 1} \in SUBSET (1..m)
<1>1. \A y \in x : y \in Nat /\ y <= m + 1
  OBVIOUS
<1>2. \A y \in x : (\A z \in x : y >= z) => y = m + 1
  BY <1>1
<1>3. \A z \in x : m + 1 >= z
  BY <1>1
<1>4. Max(x) = m + 1
  BY <1>2, <1>3 DEF Max
<1> QED
  BY <1>1, <1>4

(* The folds of FoldEvent and FoldBatch and of the reference, each as a whole *)
(* and element by element; the reference for any log.                       *)
FoldOne(t, d, n) == Stage([t EXCEPT !.content[d] = Append(@, n)], log[n], d)

ApplyOne(e, t, d, m) ==
  [content |-> [t.content EXCEPT ![d] = Append(@, m)],
   link |-> CASE e.op = "subscribe" -> [t.link EXCEPT ![e.link] = d]
              [] e.op = "unsubscribe" /\ t.link[e.link] = d -> [t.link EXCEPT ![e.link] = NoDoc]
              [] OTHER -> t.link]

FoldTargets(n0, base, q) == FoldLeft(LAMBDA r, x : FoldOne(r, x, n0), base, q)
TargetsTrace(it, n0, base, n, q) ==
  /\ it[0] = base
  /\ \A k \in 1..n : it[k] = FoldOne(it[k - 1], q[k], n0)
  /\ FoldTargets(n0, base, q) = it[n]

FoldEvents(base, q) == FoldLeft(FoldEvent, base, q)
EventsTrace(it, base, n, q) ==
  /\ it[0] = base
  /\ \A k \in 1..n : it[k] = FoldEvent(it[k - 1], q[k])
  /\ FoldEvents(base, q) = it[n]

FoldPasses(batch, base, q) == FoldLeft(LAMBDA r, x : FoldEvents(r, batch), base, q)
PassesTrace(it, batch, base, n, q) ==
  /\ it[0] = base
  /\ \A k \in 1..n : it[k] = FoldEvents(it[k - 1], batch)
  /\ FoldPasses(batch, base, q) = it[n]

FoldApplies(e, m, base, q) == FoldLeft(LAMBDA r, x : ApplyOne(e, r, x, m), base, q)
AppliesTrace(it, e, m, base, n, q) ==
  /\ it[0] = base
  /\ \A k \in 1..n : it[k] = ApplyOne(e, it[k - 1], q[k], m)
  /\ FoldApplies(e, m, base, q) = it[n]

ApplyNext(lg, r, m) == FoldApplies(lg[m], m, r, Held(r, lg[m]))

FoldSequence(lg, base, q) == FoldLeft(LAMBDA r, x : ApplyNext(lg, r, x), base, q)
SequenceTrace(it, lg, base, n, q) ==
  /\ it[0] = base
  /\ \A k \in 1..n : it[k] = ApplyNext(lg, it[k - 1], q[k])
  /\ FoldSequence(lg, base, q) = it[n]

LEMMA TargetsFold ==
  ASSUME NEW n0, NEW base, NEW n \in Nat, NEW q, DOMAIN q = 1..n
  PROVE  \E it : TargetsTrace(it, n0, base, n, q)
<1> DEFINE Step(r, k) == FoldOne(r, q[k], n0)
           Folds(f, m) == f = [x \in SUBSET (1..m) |->
                                 IF x = {} THEN base ELSE Step(f[x \ {Max(x)}], Max(x))]
           T == {m \in Nat : \E f : Folds(f, m)}
<1>1. 0 \in T
  <2>1. Folds([x \in SUBSET (1..0) |-> base], 0)
    OBVIOUS
  <2> QED
    BY <2>1
<1>2. ASSUME NEW m \in Nat, m \in T PROVE m + 1 \in T
  <2>1. PICK f : Folds(f, m)
    BY <1>2
  <2> HIDE DEF Step
  <2>2. \A x \in SUBSET (1..m) : f[x] = IF x = {} THEN base ELSE Step(f[x \ {Max(x)}], Max(x))
    BY <2>1
  <2> DEFINE g == [x \in SUBSET (1..(m + 1)) |->
                     IF m + 1 \in x THEN Step(f[x \ {m + 1}], m + 1) ELSE f[x]]
  <2>3. ASSUME NEW x \in SUBSET (1..(m + 1))
        PROVE  g[x] = IF x = {} THEN base ELSE Step(g[x \ {Max(x)}], Max(x))
    <3>1. CASE m + 1 \in x
      <4>1. Max(x) = m + 1 /\ x \ {m + 1} \in SUBSET (1..m) /\ m + 1 \notin x \ {m + 1}
        BY <3>1, MaxOfPrefix
      <4>2. x \ {m + 1} \in SUBSET (1..(m + 1))
        OBVIOUS
      <4> QED
        BY <3>1, <4>1, <4>2
    <3>2. CASE m + 1 \notin x
      <4>0. \A y \in 1..(m + 1) : y # m + 1 => y \in 1..m
        OBVIOUS
      <4>1. x \in SUBSET (1..m) /\ x \ {Max(x)} \in SUBSET (1..(m + 1)) /\ m + 1 \notin x \ {Max(x)}
        BY <3>2, <4>0
      <4> QED
        BY <3>2, <4>1, <2>2
    <3> QED
      BY <3>1, <3>2
  <2>4. Folds(g, m + 1)
    BY <2>3
  <2> HIDE DEF Folds, g
  <2>5. \E h : Folds(h, m + 1)
    BY <2>4
  <2> QED
    BY <2>5
<1> HIDE DEF T
<1>3. n \in T
  <2>1. \A k \in 0..n : k \in T
    BY <1>1, <1>2, UpTo
  <2> QED
    BY <2>1
<1> DEFINE f == CHOOSE f : Folds(f, n)
<1>4. Folds(f, n)
  BY <1>3 DEF T
<1>5. FoldTargets(n0, base, q) = f[1..n]
  BY DEF FoldTargets, FoldLeft, MapThenFoldSet
<1> HIDE DEF f, Step
<1>6. \A x \in SUBSET (1..n) : f[x] = IF x = {} THEN base ELSE Step(f[x \ {Max(x)}], Max(x))
  BY <1>4
<1> DEFINE it == [k \in 0..n |-> f[1..k]]
<1>7. it[0] = base
  <2>1. 1..0 = {} /\ 1..0 \in SUBSET (1..n)
    OBVIOUS
  <2>2. f[1..0] = base
    BY <2>1, <1>6
  <2> QED
    BY <2>2
<1>8. ASSUME NEW k \in 1..n PROVE it[k] = Step(it[k - 1], k)
  <2>1. k - 1 \in Nat /\ (k - 1) + 1 = k
    OBVIOUS
  <2>2. 1..k \in SUBSET (1..((k - 1) + 1)) /\ (k - 1) + 1 \in 1..k
    BY <2>1
  <2>3. Max(1..k) = k
    BY <2>1, <2>2, MaxOfPrefix
  <2>4. (1..k) \ {k} = 1..(k - 1) /\ 1..k \in SUBSET (1..n) /\ 1..k # {} /\ k - 1 \in 0..n
    BY <2>1
  <2>5. f[1..k] = Step(f[1..(k - 1)], k)
    BY <2>3, <2>4, <1>6
  <2>6. it[k] = f[1..k] /\ it[k - 1] = f[1..(k - 1)]
    BY <2>4
  <2> QED
    BY <2>5, <2>6
<1>9. it[n] = f[1..n]
  OBVIOUS
<1> QED
  BY <1>5, <1>7, <1>8, <1>9 DEF Step, TargetsTrace

LEMMA EventsFold ==
  ASSUME NEW base, NEW n \in Nat, NEW q, DOMAIN q = 1..n
  PROVE  \E it : EventsTrace(it, base, n, q)
<1> DEFINE Step(r, k) == FoldEvent(r, q[k])
           Folds(f, m) == f = [x \in SUBSET (1..m) |->
                                 IF x = {} THEN base ELSE Step(f[x \ {Max(x)}], Max(x))]
           T == {m \in Nat : \E f : Folds(f, m)}
<1>1. 0 \in T
  <2>1. Folds([x \in SUBSET (1..0) |-> base], 0)
    OBVIOUS
  <2> QED
    BY <2>1
<1>2. ASSUME NEW m \in Nat, m \in T PROVE m + 1 \in T
  <2>1. PICK f : Folds(f, m)
    BY <1>2
  <2> HIDE DEF Step
  <2>2. \A x \in SUBSET (1..m) : f[x] = IF x = {} THEN base ELSE Step(f[x \ {Max(x)}], Max(x))
    BY <2>1
  <2> DEFINE g == [x \in SUBSET (1..(m + 1)) |->
                     IF m + 1 \in x THEN Step(f[x \ {m + 1}], m + 1) ELSE f[x]]
  <2>3. ASSUME NEW x \in SUBSET (1..(m + 1))
        PROVE  g[x] = IF x = {} THEN base ELSE Step(g[x \ {Max(x)}], Max(x))
    <3>1. CASE m + 1 \in x
      <4>1. Max(x) = m + 1 /\ x \ {m + 1} \in SUBSET (1..m) /\ m + 1 \notin x \ {m + 1}
        BY <3>1, MaxOfPrefix
      <4>2. x \ {m + 1} \in SUBSET (1..(m + 1))
        OBVIOUS
      <4> QED
        BY <3>1, <4>1, <4>2
    <3>2. CASE m + 1 \notin x
      <4>0. \A y \in 1..(m + 1) : y # m + 1 => y \in 1..m
        OBVIOUS
      <4>1. x \in SUBSET (1..m) /\ x \ {Max(x)} \in SUBSET (1..(m + 1)) /\ m + 1 \notin x \ {Max(x)}
        BY <3>2, <4>0
      <4> QED
        BY <3>2, <4>1, <2>2
    <3> QED
      BY <3>1, <3>2
  <2>4. Folds(g, m + 1)
    BY <2>3
  <2> HIDE DEF Folds, g
  <2>5. \E h : Folds(h, m + 1)
    BY <2>4
  <2> QED
    BY <2>5
<1> HIDE DEF T
<1>3. n \in T
  <2>1. \A k \in 0..n : k \in T
    BY <1>1, <1>2, UpTo
  <2> QED
    BY <2>1
<1> DEFINE f == CHOOSE f : Folds(f, n)
<1>4. Folds(f, n)
  BY <1>3 DEF T
<1>5. FoldEvents(base, q) = f[1..n]
  BY DEF FoldEvents, FoldLeft, MapThenFoldSet
<1> HIDE DEF f, Step
<1>6. \A x \in SUBSET (1..n) : f[x] = IF x = {} THEN base ELSE Step(f[x \ {Max(x)}], Max(x))
  BY <1>4
<1> DEFINE it == [k \in 0..n |-> f[1..k]]
<1>7. it[0] = base
  <2>1. 1..0 = {} /\ 1..0 \in SUBSET (1..n)
    OBVIOUS
  <2>2. f[1..0] = base
    BY <2>1, <1>6
  <2> QED
    BY <2>2
<1>8. ASSUME NEW k \in 1..n PROVE it[k] = Step(it[k - 1], k)
  <2>1. k - 1 \in Nat /\ (k - 1) + 1 = k
    OBVIOUS
  <2>2. 1..k \in SUBSET (1..((k - 1) + 1)) /\ (k - 1) + 1 \in 1..k
    BY <2>1
  <2>3. Max(1..k) = k
    BY <2>1, <2>2, MaxOfPrefix
  <2>4. (1..k) \ {k} = 1..(k - 1) /\ 1..k \in SUBSET (1..n) /\ 1..k # {} /\ k - 1 \in 0..n
    BY <2>1
  <2>5. f[1..k] = Step(f[1..(k - 1)], k)
    BY <2>3, <2>4, <1>6
  <2>6. it[k] = f[1..k] /\ it[k - 1] = f[1..(k - 1)]
    BY <2>4
  <2> QED
    BY <2>5, <2>6
<1>9. it[n] = f[1..n]
  OBVIOUS
<1> QED
  BY <1>5, <1>7, <1>8, <1>9 DEF Step, EventsTrace

LEMMA PassesFold ==
  ASSUME NEW batch, NEW base, NEW n \in Nat, NEW q, DOMAIN q = 1..n
  PROVE  \E it : PassesTrace(it, batch, base, n, q)
<1> DEFINE Step(r, k) == FoldEvents(r, batch)
           Folds(f, m) == f = [x \in SUBSET (1..m) |->
                                 IF x = {} THEN base ELSE Step(f[x \ {Max(x)}], Max(x))]
           T == {m \in Nat : \E f : Folds(f, m)}
<1>1. 0 \in T
  <2>1. Folds([x \in SUBSET (1..0) |-> base], 0)
    OBVIOUS
  <2> QED
    BY <2>1
<1>2. ASSUME NEW m \in Nat, m \in T PROVE m + 1 \in T
  <2>1. PICK f : Folds(f, m)
    BY <1>2
  <2> HIDE DEF Step
  <2>2. \A x \in SUBSET (1..m) : f[x] = IF x = {} THEN base ELSE Step(f[x \ {Max(x)}], Max(x))
    BY <2>1
  <2> DEFINE g == [x \in SUBSET (1..(m + 1)) |->
                     IF m + 1 \in x THEN Step(f[x \ {m + 1}], m + 1) ELSE f[x]]
  <2>3. ASSUME NEW x \in SUBSET (1..(m + 1))
        PROVE  g[x] = IF x = {} THEN base ELSE Step(g[x \ {Max(x)}], Max(x))
    <3>1. CASE m + 1 \in x
      <4>1. Max(x) = m + 1 /\ x \ {m + 1} \in SUBSET (1..m) /\ m + 1 \notin x \ {m + 1}
        BY <3>1, MaxOfPrefix
      <4>2. x \ {m + 1} \in SUBSET (1..(m + 1))
        OBVIOUS
      <4> QED
        BY <3>1, <4>1, <4>2
    <3>2. CASE m + 1 \notin x
      <4>0. \A y \in 1..(m + 1) : y # m + 1 => y \in 1..m
        OBVIOUS
      <4>1. x \in SUBSET (1..m) /\ x \ {Max(x)} \in SUBSET (1..(m + 1)) /\ m + 1 \notin x \ {Max(x)}
        BY <3>2, <4>0
      <4> QED
        BY <3>2, <4>1, <2>2
    <3> QED
      BY <3>1, <3>2
  <2>4. Folds(g, m + 1)
    BY <2>3
  <2> HIDE DEF Folds, g
  <2>5. \E h : Folds(h, m + 1)
    BY <2>4
  <2> QED
    BY <2>5
<1> HIDE DEF T
<1>3. n \in T
  <2>1. \A k \in 0..n : k \in T
    BY <1>1, <1>2, UpTo
  <2> QED
    BY <2>1
<1> DEFINE f == CHOOSE f : Folds(f, n)
<1>4. Folds(f, n)
  BY <1>3 DEF T
<1>5. FoldPasses(batch, base, q) = f[1..n]
  BY DEF FoldPasses, FoldLeft, MapThenFoldSet
<1> HIDE DEF f, Step
<1>6. \A x \in SUBSET (1..n) : f[x] = IF x = {} THEN base ELSE Step(f[x \ {Max(x)}], Max(x))
  BY <1>4
<1> DEFINE it == [k \in 0..n |-> f[1..k]]
<1>7. it[0] = base
  <2>1. 1..0 = {} /\ 1..0 \in SUBSET (1..n)
    OBVIOUS
  <2>2. f[1..0] = base
    BY <2>1, <1>6
  <2> QED
    BY <2>2
<1>8. ASSUME NEW k \in 1..n PROVE it[k] = Step(it[k - 1], k)
  <2>1. k - 1 \in Nat /\ (k - 1) + 1 = k
    OBVIOUS
  <2>2. 1..k \in SUBSET (1..((k - 1) + 1)) /\ (k - 1) + 1 \in 1..k
    BY <2>1
  <2>3. Max(1..k) = k
    BY <2>1, <2>2, MaxOfPrefix
  <2>4. (1..k) \ {k} = 1..(k - 1) /\ 1..k \in SUBSET (1..n) /\ 1..k # {} /\ k - 1 \in 0..n
    BY <2>1
  <2>5. f[1..k] = Step(f[1..(k - 1)], k)
    BY <2>3, <2>4, <1>6
  <2>6. it[k] = f[1..k] /\ it[k - 1] = f[1..(k - 1)]
    BY <2>4
  <2> QED
    BY <2>5, <2>6
<1>9. it[n] = f[1..n]
  OBVIOUS
<1> QED
  BY <1>5, <1>7, <1>8, <1>9 DEF Step, PassesTrace

LEMMA AppliesFold ==
  ASSUME NEW e, NEW n0, NEW base, NEW n \in Nat, NEW q, DOMAIN q = 1..n
  PROVE  \E it : AppliesTrace(it, e, n0, base, n, q)
<1> DEFINE Step(r, k) == ApplyOne(e, r, q[k], n0)
           Folds(f, m) == f = [x \in SUBSET (1..m) |->
                                 IF x = {} THEN base ELSE Step(f[x \ {Max(x)}], Max(x))]
           T == {m \in Nat : \E f : Folds(f, m)}
<1>1. 0 \in T
  <2>1. Folds([x \in SUBSET (1..0) |-> base], 0)
    OBVIOUS
  <2> QED
    BY <2>1
<1>2. ASSUME NEW m \in Nat, m \in T PROVE m + 1 \in T
  <2>1. PICK f : Folds(f, m)
    BY <1>2
  <2> HIDE DEF Step
  <2>2. \A x \in SUBSET (1..m) : f[x] = IF x = {} THEN base ELSE Step(f[x \ {Max(x)}], Max(x))
    BY <2>1
  <2> DEFINE g == [x \in SUBSET (1..(m + 1)) |->
                     IF m + 1 \in x THEN Step(f[x \ {m + 1}], m + 1) ELSE f[x]]
  <2>3. ASSUME NEW x \in SUBSET (1..(m + 1))
        PROVE  g[x] = IF x = {} THEN base ELSE Step(g[x \ {Max(x)}], Max(x))
    <3>1. CASE m + 1 \in x
      <4>1. Max(x) = m + 1 /\ x \ {m + 1} \in SUBSET (1..m) /\ m + 1 \notin x \ {m + 1}
        BY <3>1, MaxOfPrefix
      <4>2. x \ {m + 1} \in SUBSET (1..(m + 1))
        OBVIOUS
      <4> QED
        BY <3>1, <4>1, <4>2
    <3>2. CASE m + 1 \notin x
      <4>0. \A y \in 1..(m + 1) : y # m + 1 => y \in 1..m
        OBVIOUS
      <4>1. x \in SUBSET (1..m) /\ x \ {Max(x)} \in SUBSET (1..(m + 1)) /\ m + 1 \notin x \ {Max(x)}
        BY <3>2, <4>0
      <4> QED
        BY <3>2, <4>1, <2>2
    <3> QED
      BY <3>1, <3>2
  <2>4. Folds(g, m + 1)
    BY <2>3
  <2> HIDE DEF Folds, g
  <2>5. \E h : Folds(h, m + 1)
    BY <2>4
  <2> QED
    BY <2>5
<1> HIDE DEF T
<1>3. n \in T
  <2>1. \A k \in 0..n : k \in T
    BY <1>1, <1>2, UpTo
  <2> QED
    BY <2>1
<1> DEFINE f == CHOOSE f : Folds(f, n)
<1>4. Folds(f, n)
  BY <1>3 DEF T
<1>5. FoldApplies(e, n0, base, q) = f[1..n]
  BY DEF FoldApplies, FoldLeft, MapThenFoldSet
<1> HIDE DEF f, Step
<1>6. \A x \in SUBSET (1..n) : f[x] = IF x = {} THEN base ELSE Step(f[x \ {Max(x)}], Max(x))
  BY <1>4
<1> DEFINE it == [k \in 0..n |-> f[1..k]]
<1>7. it[0] = base
  <2>1. 1..0 = {} /\ 1..0 \in SUBSET (1..n)
    OBVIOUS
  <2>2. f[1..0] = base
    BY <2>1, <1>6
  <2> QED
    BY <2>2
<1>8. ASSUME NEW k \in 1..n PROVE it[k] = Step(it[k - 1], k)
  <2>1. k - 1 \in Nat /\ (k - 1) + 1 = k
    OBVIOUS
  <2>2. 1..k \in SUBSET (1..((k - 1) + 1)) /\ (k - 1) + 1 \in 1..k
    BY <2>1
  <2>3. Max(1..k) = k
    BY <2>1, <2>2, MaxOfPrefix
  <2>4. (1..k) \ {k} = 1..(k - 1) /\ 1..k \in SUBSET (1..n) /\ 1..k # {} /\ k - 1 \in 0..n
    BY <2>1
  <2>5. f[1..k] = Step(f[1..(k - 1)], k)
    BY <2>3, <2>4, <1>6
  <2>6. it[k] = f[1..k] /\ it[k - 1] = f[1..(k - 1)]
    BY <2>4
  <2> QED
    BY <2>5, <2>6
<1>9. it[n] = f[1..n]
  OBVIOUS
<1> QED
  BY <1>5, <1>7, <1>8, <1>9 DEF Step, AppliesTrace

LEMMA SequenceFold ==
  ASSUME NEW lg, NEW base, NEW n \in Nat, NEW q, DOMAIN q = 1..n
  PROVE  \E it : SequenceTrace(it, lg, base, n, q)
<1> DEFINE Step(r, k) == ApplyNext(lg, r, q[k])
           Folds(f, m) == f = [x \in SUBSET (1..m) |->
                                 IF x = {} THEN base ELSE Step(f[x \ {Max(x)}], Max(x))]
           T == {m \in Nat : \E f : Folds(f, m)}
<1>1. 0 \in T
  <2>1. Folds([x \in SUBSET (1..0) |-> base], 0)
    OBVIOUS
  <2> QED
    BY <2>1
<1>2. ASSUME NEW m \in Nat, m \in T PROVE m + 1 \in T
  <2>1. PICK f : Folds(f, m)
    BY <1>2
  <2> HIDE DEF Step
  <2>2. \A x \in SUBSET (1..m) : f[x] = IF x = {} THEN base ELSE Step(f[x \ {Max(x)}], Max(x))
    BY <2>1
  <2> DEFINE g == [x \in SUBSET (1..(m + 1)) |->
                     IF m + 1 \in x THEN Step(f[x \ {m + 1}], m + 1) ELSE f[x]]
  <2>3. ASSUME NEW x \in SUBSET (1..(m + 1))
        PROVE  g[x] = IF x = {} THEN base ELSE Step(g[x \ {Max(x)}], Max(x))
    <3>1. CASE m + 1 \in x
      <4>1. Max(x) = m + 1 /\ x \ {m + 1} \in SUBSET (1..m) /\ m + 1 \notin x \ {m + 1}
        BY <3>1, MaxOfPrefix
      <4>2. x \ {m + 1} \in SUBSET (1..(m + 1))
        OBVIOUS
      <4> QED
        BY <3>1, <4>1, <4>2
    <3>2. CASE m + 1 \notin x
      <4>0. \A y \in 1..(m + 1) : y # m + 1 => y \in 1..m
        OBVIOUS
      <4>1. x \in SUBSET (1..m) /\ x \ {Max(x)} \in SUBSET (1..(m + 1)) /\ m + 1 \notin x \ {Max(x)}
        BY <3>2, <4>0
      <4> QED
        BY <3>2, <4>1, <2>2
    <3> QED
      BY <3>1, <3>2
  <2>4. Folds(g, m + 1)
    BY <2>3
  <2> HIDE DEF Folds, g
  <2>5. \E h : Folds(h, m + 1)
    BY <2>4
  <2> QED
    BY <2>5
<1> HIDE DEF T
<1>3. n \in T
  <2>1. \A k \in 0..n : k \in T
    BY <1>1, <1>2, UpTo
  <2> QED
    BY <2>1
<1> DEFINE f == CHOOSE f : Folds(f, n)
<1>4. Folds(f, n)
  BY <1>3 DEF T
<1>5. FoldSequence(lg, base, q) = f[1..n]
  BY DEF FoldSequence, FoldLeft, MapThenFoldSet
<1> HIDE DEF f, Step
<1>6. \A x \in SUBSET (1..n) : f[x] = IF x = {} THEN base ELSE Step(f[x \ {Max(x)}], Max(x))
  BY <1>4
<1> DEFINE it == [k \in 0..n |-> f[1..k]]
<1>7. it[0] = base
  <2>1. 1..0 = {} /\ 1..0 \in SUBSET (1..n)
    OBVIOUS
  <2>2. f[1..0] = base
    BY <2>1, <1>6
  <2> QED
    BY <2>2
<1>8. ASSUME NEW k \in 1..n PROVE it[k] = Step(it[k - 1], k)
  <2>1. k - 1 \in Nat /\ (k - 1) + 1 = k
    OBVIOUS
  <2>2. 1..k \in SUBSET (1..((k - 1) + 1)) /\ (k - 1) + 1 \in 1..k
    BY <2>1
  <2>3. Max(1..k) = k
    BY <2>1, <2>2, MaxOfPrefix
  <2>4. (1..k) \ {k} = 1..(k - 1) /\ 1..k \in SUBSET (1..n) /\ 1..k # {} /\ k - 1 \in 0..n
    BY <2>1
  <2>5. f[1..k] = Step(f[1..(k - 1)], k)
    BY <2>3, <2>4, <1>6
  <2>6. it[k] = f[1..k] /\ it[k - 1] = f[1..(k - 1)]
    BY <2>4
  <2> QED
    BY <2>5, <2>6
<1>9. it[n] = f[1..n]
  OBVIOUS
<1> QED
  BY <1>5, <1>7, <1>8, <1>9 DEF Step, SequenceTrace


-----------------------------------------------------------------------------
(* What a batch does to what was folded before it.                         *)

Subscribers == Docs \cup {NoDoc}
StagedBatches ==
  [content : [Docs -> Seq(Nat)], adds : [Links -> Subscribers], removes : [Links -> Subscribers],
   fresh : SUBSET Nat]

\* Contents c, with the events F folded into them: an event is folded into all
\* its targets, once, those of the projected stream in order and without a gap.
FoldedInto(c, n) == \E d \in Docs : n \in ToSet(c[d])
Sorted(q) ==
  \A i, j \in 1..Len(q) : i < j => (~Joined(log[q[i]]) /\ ~Joined(log[q[j]]) => q[i] < q[j])
Kept(c, F) ==
  /\ c \in [Docs -> Seq(Nat)] /\ F \in SUBSET (1..Len(log))
  /\ \A n : n \in F <=> FoldedInto(c, n)
  /\ \A d \in Docs : IsInjective(c[d]) /\ Sorted(c[d])
  /\ \A n \in F : \A i \in DOMAIN log[n].to : n \in ToSet(c[log[n].to[i]])
  /\ \A m \in 1..Len(log), n \in F : m < n /\ ~Joined(log[m]) /\ ~Joined(log[n]) => m \in F

LEMMA SeqFacts ==
  ASSUME NEW S, NEW q \in Seq(S)
  PROVE  /\ DOMAIN q = 1..Len(q) /\ Len(q) \in Nat
         /\ \A i \in 1..Len(q) : q[i] \in S /\ q[i] \in ToSet(q)
         /\ \A x \in ToSet(q) : x \in S /\ \E i \in 1..Len(q) : q[i] = x
         /\ IsInjective(q) <=> \A i, j \in 1..Len(q) : q[i] = q[j] => i = j
         /\ q # <<>> => 1 \in 1..Len(q)
<1>1. DOMAIN q = 1..Len(q) /\ Len(q) \in Nat /\ \A i \in 1..Len(q) : q[i] \in S
  OBVIOUS
<1>2. q # <<>> => Len(q) # 0
  OBVIOUS
<1>3. IsInjective(q) <=> \A i, j \in 1..Len(q) : q[i] = q[j] => i = j
  BY <1>1 DEF IsInjective
<1>4. ToSet(q) = {q[i] : i \in 1..Len(q)}
  BY <1>1 DEF ToSet
<1> QED
  BY <1>1, <1>2, <1>3, <1>4

LEMMA AppendFacts ==
  ASSUME NEW q \in Seq(Nat), NEW n \in Nat
  PROVE  /\ Append(q, n) \in Seq(Nat) /\ Len(Append(q, n)) = Len(q) + 1 /\ Len(q) \in Nat
         /\ Append(q, n)[Len(q) + 1] = n
         /\ \A i \in 1..Len(q) : Append(q, n)[i] = q[i] /\ i \in 1..(Len(q) + 1)
         /\ \A i \in 1..(Len(q) + 1) : i \in 1..Len(q) \/ i = Len(q) + 1
         /\ ToSet(Append(q, n)) = ToSet(q) \cup {n}
<1>1. /\ Append(q, n) \in Seq(Nat) /\ Len(Append(q, n)) = Len(q) + 1 /\ Len(q) \in Nat
      /\ Append(q, n)[Len(q) + 1] = n
      /\ \A i \in 1..Len(q) : Append(q, n)[i] = q[i] /\ i \in 1..(Len(q) + 1)
      /\ \A i \in 1..(Len(q) + 1) : i \in 1..Len(q) \/ i = Len(q) + 1
  OBVIOUS
<1>2. DOMAIN q = 1..Len(q) /\ DOMAIN Append(q, n) = 1..(Len(q) + 1) /\ Len(q) + 1 \in 1..(Len(q) + 1)
  BY <1>1
<1>3. ToSet(Append(q, n)) = ToSet(q) \cup {n}
  BY <1>1, <1>2 DEF ToSet
<1> QED
  BY <1>1, <1>3

\* An event that has not been folded is folded into its targets t.
LEMMA KeptFold ==
  ASSUME NEW c, NEW F, Kept(c, F), NEW n \in 1..Len(log), n \notin F, log \in Seq(Events),
         NEW t \in Seq(Docs), t # <<>>, ~Joined(log[n]) => t = log[n].to,
         Joined(log[n]) => log[n].to = <<>>,
         ~Joined(log[n]) => \A m \in 1..Len(log) : m < n /\ ~Joined(log[m]) => m \in F,
         NEW c2 \in [Docs -> Seq(Nat)],
         \A d \in Docs : c2[d] = IF d \in ToSet(t) THEN Append(c[d], n) ELSE c[d]
  PROVE  Kept(c2, F \cup {n})
<1>1. /\ c \in [Docs -> Seq(Nat)] /\ F \in SUBSET (1..Len(log)) /\ n \in Nat /\ Len(log) \in Nat
      /\ \A m : m \in F <=> FoldedInto(c, m)
      /\ \A d \in Docs : IsInjective(c[d]) /\ Sorted(c[d])
  BY DEF Kept
<1>2. /\ DOMAIN t = 1..Len(t) /\ 1 \in 1..Len(t) /\ t[1] \in Docs /\ t[1] \in ToSet(t)
      /\ ToSet(t) \in SUBSET Docs
  BY SeqFacts
<1>3. \A d \in Docs : /\ c[d] \in Seq(Nat) /\ ToSet(c[d]) \subseteq ToSet(c2[d])
                      /\ d \in ToSet(t) => ToSet(c2[d]) = ToSet(c[d]) \cup {n}
                      /\ d \notin ToSet(t) => c2[d] = c[d]
  <2> SUFFICES ASSUME NEW d \in Docs
               PROVE  /\ c[d] \in Seq(Nat) /\ ToSet(c[d]) \subseteq ToSet(c2[d])
                      /\ d \in ToSet(t) => ToSet(c2[d]) = ToSet(c[d]) \cup {n}
                      /\ d \notin ToSet(t) => c2[d] = c[d]
    OBVIOUS
  <2>1. c[d] \in Seq(Nat)
    BY <1>1
  <2>2. ToSet(Append(c[d], n)) = ToSet(c[d]) \cup {n}
    BY <1>1, <2>1, AppendFacts
  <2> QED
    BY <2>1, <2>2
<1>4. \A m : m \in F \cup {n} <=> FoldedInto(c2, m)
  <2> SUFFICES ASSUME NEW m PROVE m \in F \cup {n} <=> FoldedInto(c2, m)
    OBVIOUS
  <2>1. m \in F => FoldedInto(c2, m)
    BY <1>1, <1>3 DEF FoldedInto
  <2>2. m = n => FoldedInto(c2, m)
    BY <1>2, <1>3 DEF FoldedInto
  <2>3. FoldedInto(c2, m) => m = n \/ FoldedInto(c, m)
    BY <1>3 DEF FoldedInto
  <2> QED
    BY <1>1, <2>1, <2>2, <2>3
<1>5. ASSUME NEW d \in Docs PROVE IsInjective(c2[d]) /\ Sorted(c2[d])
  <2>1. CASE d \notin ToSet(t)
    BY <1>1, <1>3, <2>1
  <2>2. CASE d \in ToSet(t)
    <3> DEFINE q == c[d]
    <3>1. q \in Seq(Nat) /\ c2[d] = Append(q, n) /\ IsInjective(q) /\ Sorted(q)
      BY <1>1, <1>3, <2>2
    <3>2. n \notin ToSet(q) /\ \A i \in 1..Len(q) : q[i] \in F /\ q[i] \in Nat /\ q[i] # n
      <4>1. \A m \in ToSet(q) : m \in F
        BY <1>1 DEF FoldedInto
      <4>2. \A i \in 1..Len(q) : q[i] \in ToSet(q) /\ q[i] \in Nat
        BY <3>1, SeqFacts
      <4> HIDE DEF q
      <4> QED
        BY <4>1, <4>2
    <3>3. \A i \in 1..Len(q) : ~Joined(log[q[i]]) /\ ~Joined(log[n]) => q[i] < n
      <4> SUFFICES ASSUME NEW i \in 1..Len(q), ~Joined(log[q[i]]), ~Joined(log[n]) PROVE q[i] < n
        OBVIOUS
      <4>1. q[i] \in 1..Len(log) /\ q[i] \in F /\ q[i] # n
        BY <1>1, <3>2
      <4>2. ~ (n < q[i])
        BY <4>1 DEF Kept
      <4>3. q[i] \in Nat /\ n \in Nat /\ q[i] # n
        BY <1>1, <3>2
      <4> QED
        BY ONLY <4>2, <4>3
    <3> HIDE DEF q
    <3>4. IsInjective(Append(q, n))
      <4> DEFINE a == Append(q, n)
      <4>1. \A x, y \in 1..Len(q) : q[x] = q[y] => x = y
        BY ONLY <3>1, SeqFacts
      <4>2. /\ a \in Seq(Nat) /\ Len(a) = Len(q) + 1 /\ a[Len(q) + 1] = n
            /\ \A i \in 1..Len(q) : a[i] = q[i] /\ i \in 1..(Len(q) + 1)
            /\ \A i \in 1..(Len(q) + 1) : i \in 1..Len(q) \/ i = Len(q) + 1
        BY <1>1, <3>1, AppendFacts
      <4> HIDE DEF a
      <4>3. \A i, j \in 1..Len(a) : a[i] = a[j] => i = j
        <5>1. \A i \in 1..Len(q) : q[i] # n
          BY <3>2
        <5>2. ASSUME NEW i \in 1..Len(a), NEW j \in 1..Len(a), a[i] = a[j] PROVE i = j
          <6>1. (i \in 1..Len(q) \/ i = Len(q) + 1) /\ (j \in 1..Len(q) \/ j = Len(q) + 1)
            BY ONLY <4>2, <5>2
          <6>2. /\ i \in 1..Len(q) => a[i] = q[i] /\ a[i] # n
                /\ j \in 1..Len(q) => a[j] = q[j] /\ a[j] # n
                /\ i = Len(q) + 1 => a[i] = n
                /\ j = Len(q) + 1 => a[j] = n
            BY ONLY <4>2, <5>1
          <6> QED
            BY ONLY <4>1, <6>1, <6>2, <5>2
        <5> QED
          BY ONLY <5>2
      <4>4. IsInjective(a)
        BY <4>2, <4>3, SeqFacts
      <4> QED
        BY <4>4 DEF a
    <3>5. Sorted(Append(q, n))
      <4> SUFFICES ASSUME NEW i \in 1..(Len(q) + 1), NEW j \in 1..(Len(q) + 1), i < j,
                          ~Joined(log[Append(q, n)[i]]), ~Joined(log[Append(q, n)[j]])
                   PROVE  Append(q, n)[i] < Append(q, n)[j]
        BY <1>1, <3>1, AppendFacts DEF Sorted
      <4>1. i \in 1..Len(q) /\ Append(q, n)[i] = q[i]
        BY <1>1, <3>1, AppendFacts
      <4>2. CASE j \in 1..Len(q)
        BY <1>1, <3>1, <4>1, <4>2, AppendFacts DEF Sorted
      <4>3. CASE j = Len(q) + 1
        BY <1>1, <3>1, <3>3, <4>1, <4>3, AppendFacts
      <4> QED
        BY <1>1, <3>1, <4>2, <4>3, AppendFacts
    <3> QED
      BY <3>1, <3>4, <3>5
  <2> QED
    BY <2>1, <2>2
<1>6. ASSUME NEW m \in F \cup {n}, NEW i \in DOMAIN log[m].to PROVE m \in ToSet(c2[log[m].to[i]])
  <2>0. log[m].to[i] \in Docs
    <3>1. log[m] \in Event /\ m \in 1..Len(log)
      BY <1>1, DaemonAssumption
    <3> QED
      BY <3>1 DEF Event
  <2>1. CASE m \in F
    <3>1. m \in ToSet(c[log[m].to[i]])
      BY <2>1 DEF Kept
    <3> QED
      BY <1>3, <2>0, <3>1
  <2>2. CASE m = n
    <3>1. log[n].to = t
      <4>1. log[n].to # <<>>
        BY <1>6, <2>2
      <4> QED
        BY <4>1
    <3>2. log[n].to[i] \in ToSet(t)
      BY <1>6, <2>2, <3>1 DEF ToSet
    <3> QED
      BY <1>3, <2>0, <2>2, <3>2
  <2> QED
    BY <2>1, <2>2
<1>7. \A m \in 1..Len(log), k \in F \cup {n} :
        m < k /\ ~Joined(log[m]) /\ ~Joined(log[k]) => m \in F \cup {n}
  BY DEF Kept
<1> QED
  BY <1>1, <1>4, <1>5, <1>6, <1>7 DEF Kept

\* The updates of Stage, and of FoldInto, as operators.
AddAndRemove(s, l, a, b) == [s EXCEPT !.adds[l] = a, !.removes[l] = b]
RemoveAndAdd(s, l, a, b) == [s EXCEPT !.removes[l] = b, !.adds[l] = a]
AddOnly(s, l, a) == [s EXCEPT !.adds[l] = a]
AddContent(s, d, q) == [s EXCEPT !.content[d] = q]
Restaged(s, a, b) == [content |-> s.content, adds |-> a, removes |-> b, fresh |-> s.fresh]

LEMMA Relinked ==
  ASSUME NEW s \in StagedBatches, NEW l \in Links, NEW a \in Subscribers, NEW b \in Subscribers
  PROVE  /\ AddAndRemove(s, l, a, b) = Restaged(s, [s.adds EXCEPT ![l] = a], [s.removes EXCEPT ![l] = b])
         /\ RemoveAndAdd(s, l, a, b) = Restaged(s, [s.adds EXCEPT ![l] = a], [s.removes EXCEPT ![l] = b])
         /\ AddOnly(s, l, a) = Restaged(s, [s.adds EXCEPT ![l] = a], s.removes)
<1>1. ASSUME NEW t, t = [s EXCEPT !.adds[l] = a, !.removes[l] = b]
      PROVE  t = [content |-> s.content, adds |-> [s.adds EXCEPT ![l] = a],
                  removes |-> [s.removes EXCEPT ![l] = b], fresh |-> s.fresh]
  BY <1>1 DEF StagedBatches
<1>2. ASSUME NEW t, t = [s EXCEPT !.removes[l] = b, !.adds[l] = a]
      PROVE  t = [content |-> s.content, adds |-> [s.adds EXCEPT ![l] = a],
                  removes |-> [s.removes EXCEPT ![l] = b], fresh |-> s.fresh]
  BY <1>2 DEF StagedBatches
<1>3. ASSUME NEW t, t = [s EXCEPT !.adds[l] = a]
      PROVE  t = [content |-> s.content, adds |-> [s.adds EXCEPT ![l] = a],
                  removes |-> s.removes, fresh |-> s.fresh]
  BY <1>3 DEF StagedBatches
<1>4. AddAndRemove(s, l, a, b) = Restaged(s, [s.adds EXCEPT ![l] = a], [s.removes EXCEPT ![l] = b])
  BY ONLY <1>1 DEF AddAndRemove, Restaged
<1>5. RemoveAndAdd(s, l, a, b) = Restaged(s, [s.adds EXCEPT ![l] = a], [s.removes EXCEPT ![l] = b])
  BY ONLY <1>2 DEF RemoveAndAdd, Restaged
<1>6. AddOnly(s, l, a) = Restaged(s, [s.adds EXCEPT ![l] = a], s.removes)
  BY ONLY <1>3 DEF AddOnly, Restaged
<1> QED
  BY <1>4, <1>5, <1>6

LEMMA ContentAdded ==
  ASSUME NEW s \in StagedBatches, NEW d \in Docs, NEW q \in Seq(Nat)
  PROVE  AddContent(s, d, q) = [content |-> [s.content EXCEPT ![d] = q], adds |-> s.adds,
                                removes |-> s.removes, fresh |-> s.fresh]
<1>1. ASSUME NEW t, t = [s EXCEPT !.content[d] = q]
      PROVE  t = [content |-> [s.content EXCEPT ![d] = q], adds |-> s.adds,
                  removes |-> s.removes, fresh |-> s.fresh]
  BY <1>1 DEF StagedBatches
<1> QED
  BY ONLY <1>1 DEF AddContent

\* What a handler stages: nothing, or a record with other links.
HolderOf(s, l) == IF s.adds[l] # NoDoc THEN s.adds[l] ELSE link[l]

LEMMA StageCases ==
  ASSUME NEW s \in StagedBatches, NEW e \in Events, NEW d \in Docs, link \in [Links -> Subscribers]
  PROVE  /\ e.op \in {"subscribe", "unsubscribe"} => e.link \in Links
         /\ e.op \notin {"subscribe", "unsubscribe"} => Stage(s, e, d) = s
         /\ e.op = "unsubscribe" =>
              Stage(s, e, d) = Restaged(s, [s.adds EXCEPT ![e.link] = NoDoc], [s.removes EXCEPT ![e.link] = d])
         /\ e.op = "subscribe" =>
              /\ HolderOf(s, e.link) \in Subscribers
              /\ Stage(s, e, d) =
                   IF s.removes[e.link] # NoDoc \/ HolderOf(s, e.link) = NoDoc
                     THEN Restaged(s, [s.adds EXCEPT ![e.link] = d], s.removes)
                   ELSE IF HolderOf(s, e.link) = d THEN s
                   ELSE Restaged(s, [s.adds EXCEPT ![e.link] = d],
                                 [s.removes EXCEPT ![e.link] = HolderOf(s, e.link)])
<1>1. e.op # "none" => e.link \in Links
  BY DaemonAssumption DEF Event
<1>2. d \in Subscribers /\ NoDoc \in Subscribers
  BY DEF Subscribers
<1>3. CASE e.op = "unsubscribe"
  <2>1. e.link \in Links
    BY <1>1, <1>3
  <2>2. Stage(s, e, d) = AddAndRemove(s, e.link, NoDoc, d)
    BY <1>3 DEF Stage, StageUnsubscribe, AddAndRemove
  <2> QED
    BY <1>2, <1>3, <2>1, <2>2, Relinked
<1>4. CASE e.op = "subscribe"
  <2> DEFINE l == e.link
             holder == HolderOf(s, l)
  <2>1. l \in Links /\ holder \in Subscribers
    BY <1>1, <1>4 DEF HolderOf, StagedBatches
  <2>2. Stage(s, e, d) = StageSubscribe(s, l, d)
    BY <1>4 DEF Stage
  <2>3. StageSubscribe(s, l, d) = IF s.removes[l] # NoDoc \/ holder = NoDoc THEN AddOnly(s, l, d)
                                  ELSE IF holder = d THEN s ELSE RemoveAndAdd(s, l, d, holder)
    BY <1>2, DaemonAssumption DEF StageSubscribe, HolderOf, AddOnly, RemoveAndAdd
  <2>4. /\ AddOnly(s, l, d) = Restaged(s, [s.adds EXCEPT ![l] = d], s.removes)
        /\ RemoveAndAdd(s, l, d, holder) =
             Restaged(s, [s.adds EXCEPT ![l] = d], [s.removes EXCEPT ![l] = holder])
    BY <1>2, <2>1, Relinked
  <2> QED
    BY <1>4, <2>1, <2>2, <2>3, <2>4
<1>5. CASE e.op \notin {"subscribe", "unsubscribe"}
  BY <1>5 DEF Stage
<1> QED
  BY <1>3, <1>4, <1>5

LEMMA StageFacts ==
  ASSUME NEW s \in StagedBatches, NEW e \in Events, NEW d \in Docs, link \in [Links -> Subscribers]
  PROVE  /\ Stage(s, e, d) \in StagedBatches
         /\ Stage(s, e, d).content = s.content /\ Stage(s, e, d).fresh = s.fresh
<1>1. /\ s.content \in [Docs -> Seq(Nat)] /\ s.adds \in [Links -> Subscribers]
      /\ s.removes \in [Links -> Subscribers] /\ s.fresh \in SUBSET Nat
  BY DEF StagedBatches
<1>2. ASSUME NEW a \in [Links -> Subscribers], NEW b \in [Links -> Subscribers]
      PROVE  /\ Restaged(s, a, b) \in StagedBatches
             /\ Restaged(s, a, b).content = s.content /\ Restaged(s, a, b).fresh = s.fresh
  BY <1>1 DEF StagedBatches, Restaged
<1>3. \A l \in Links, x \in Subscribers :
        /\ [s.adds EXCEPT ![l] = x] \in [Links -> Subscribers]
        /\ [s.removes EXCEPT ![l] = x] \in [Links -> Subscribers]
  BY <1>1
<1>4. d \in Subscribers /\ NoDoc \in Subscribers
  BY DEF Subscribers
<1>5. CASE e.op = "unsubscribe"
  <2>1. e.link \in Links
    BY <1>5, StageCases
  <2>2. Stage(s, e, d) = Restaged(s, [s.adds EXCEPT ![e.link] = NoDoc], [s.removes EXCEPT ![e.link] = d])
    BY <1>5, StageCases
  <2>3. /\ [s.adds EXCEPT ![e.link] = NoDoc] \in [Links -> Subscribers]
        /\ [s.removes EXCEPT ![e.link] = d] \in [Links -> Subscribers]
    BY <1>3, <1>4, <2>1
  <2> QED
    BY <1>2, <2>2, <2>3
<1>6. CASE e.op = "subscribe"
  <2> DEFINE a == [s.adds EXCEPT ![e.link] = d]
             b == [s.removes EXCEPT ![e.link] = HolderOf(s, e.link)]
  <2>1. e.link \in Links /\ HolderOf(s, e.link) \in Subscribers
    BY <1>6, StageCases
  <2>2. Stage(s, e, d) \in {s, Restaged(s, a, s.removes), Restaged(s, a, b)}
    BY <1>6, StageCases
  <2>3. a \in [Links -> Subscribers] /\ b \in [Links -> Subscribers]
    BY <1>3, <1>4, <2>1
  <2> HIDE DEF a, b
  <2> QED
    BY <1>1, <1>2, <2>2, <2>3
<1>7. CASE e.op \notin {"subscribe", "unsubscribe"}
  <2>1. Stage(s, e, d) = s
    BY <1>7, StageCases
  <2> QED
    BY <2>1
<1> QED
  BY <1>5, <1>6, <1>7

\* A document gets the event at the end of its content.
LEMMA ContentAppended ==
  ASSUME NEW s \in StagedBatches, NEW d \in Docs, NEW n \in Nat
  PROVE  LET t == AddContent(s, d, Append(s.content[d], n))
         IN /\ t = [content |-> [s.content EXCEPT ![d] = Append(@, n)], adds |-> s.adds,
                    removes |-> s.removes, fresh |-> s.fresh]
            /\ t \in StagedBatches
<1>1. s.content \in [Docs -> Seq(Nat)]
  BY DEF StagedBatches
<1>2. s.content[d] \in Seq(Nat) /\ Append(s.content[d], n) \in Seq(Nat)
  BY <1>1, AppendFacts
<1> DEFINE q == Append(s.content[d], n)
           t == AddContent(s, d, q)
<1>3. t = [content |-> [s.content EXCEPT ![d] = q], adds |-> s.adds, removes |-> s.removes, fresh |-> s.fresh]
  BY <1>2, ContentAdded
<1>4. [s.content EXCEPT ![d] = q] \in [Docs -> Seq(Nat)]
  BY <1>1, <1>2
<1>5. t \in StagedBatches
  <2> HIDE DEF t, q
  <2> QED
    BY <1>3, <1>4 DEF StagedBatches
<1> QED
  BY <1>3, <1>5

LEMMA FoldOneFacts ==
  ASSUME NEW s \in StagedBatches, log \in Seq(Events), NEW n \in 1..Len(log), NEW d \in Docs,
         link \in [Links -> Subscribers]
  PROVE  /\ FoldOne(s, d, n) \in StagedBatches
         /\ FoldOne(s, d, n).content = [s.content EXCEPT ![d] = Append(@, n)]
         /\ FoldOne(s, d, n).fresh = s.fresh
<1>1. log[n] \in Events /\ n \in Nat
  OBVIOUS
<1> DEFINE t == AddContent(s, d, Append(s.content[d], n))
<1>3. t \in StagedBatches /\ t.content = [s.content EXCEPT ![d] = Append(@, n)] /\ t.fresh = s.fresh
  <2>1. /\ t = [content |-> [s.content EXCEPT ![d] = Append(@, n)], adds |-> s.adds,
                 removes |-> s.removes, fresh |-> s.fresh]
        /\ t \in StagedBatches
    BY <1>1, ContentAppended
  <2> HIDE DEF t
  <2> QED
    BY <2>1
<1>4. FoldOne(s, d, n) = Stage(t, log[n], d)
  BY DEF FoldOne, AddContent
<1> HIDE DEF t
<1> QED
  BY <1>1, <1>3, <1>4, StageFacts

LEMMA FoldTargetsFacts ==
  ASSUME NEW s \in StagedBatches, log \in Seq(Events), NEW n \in 1..Len(log),
         NEW q \in Seq(Docs), IsInjective(q), link \in [Links -> Subscribers]
  PROVE  /\ FoldTargets(n, s, q) \in StagedBatches
         /\ FoldTargets(n, s, q).fresh = s.fresh
         /\ \A d \in Docs : FoldTargets(n, s, q).content[d] =
                              IF d \in ToSet(q) THEN Append(s.content[d], n) ELSE s.content[d]
<1>1. /\ DOMAIN q = 1..Len(q) /\ Len(q) \in Nat
      /\ \A i \in 1..Len(q) : q[i] \in Docs
      /\ \A i, j \in 1..Len(q) : q[i] = q[j] => i = j
  BY SeqFacts
<1>2. PICK it : TargetsTrace(it, n, s, Len(q), q)
  BY <1>1, TargetsFold
<1> DEFINE P(k) == /\ it[k] \in StagedBatches /\ it[k].fresh = s.fresh
                   /\ \A d \in Docs : it[k].content[d] =
                        IF \E i \in 1..k : q[i] = d THEN Append(s.content[d], n) ELSE s.content[d]
           T == {k \in 0..Len(q) : P(k)}
<1>3. 0 \in T
  <2>1. it[0] = s
    BY <1>2 DEF TargetsTrace
  <2>2. P(0)
    BY <2>1
  <2> QED
    BY <1>1, <2>2
<1>4. ASSUME NEW k \in Nat, k < Len(q), k \in T PROVE k + 1 \in T
  <2>1. /\ k + 1 \in 1..Len(q) /\ (k + 1) - 1 = k /\ q[k + 1] \in Docs
        /\ \A i \in 1..(k + 1) : i \in 1..k \/ i = k + 1
        /\ \A i \in 1..k : i \in 1..(k + 1) /\ i \in 1..Len(q) /\ i # k + 1
    BY <1>1, <1>4
  <2>2. it[k + 1] = FoldOne(it[k], q[k + 1], n)
    BY <1>2, <2>1 DEF TargetsTrace
  <2>3. P(k) /\ it[k] \in StagedBatches /\ it[k].fresh = s.fresh
    BY <1>4
  <2>4. /\ it[k + 1] \in StagedBatches /\ it[k + 1].fresh = s.fresh
        /\ it[k + 1].content = [it[k].content EXCEPT ![q[k + 1]] = Append(@, n)]
    <3>1. /\ FoldOne(it[k], q[k + 1], n) \in StagedBatches
          /\ FoldOne(it[k], q[k + 1], n).content = [it[k].content EXCEPT ![q[k + 1]] = Append(@, n)]
          /\ FoldOne(it[k], q[k + 1], n).fresh = it[k].fresh
      BY <2>1, <2>3, FoldOneFacts
    <3> QED
      BY <2>2, <2>3, <3>1
  <2>5. ~ \E i \in 1..k : q[i] = q[k + 1]
    BY <1>1, <2>1
  <2>6. it[k].content \in [Docs -> Seq(Nat)]
    BY <2>3 DEF StagedBatches
  <2>7. ASSUME NEW d \in Docs
        PROVE  it[k + 1].content[d] =
                 IF \E i \in 1..(k + 1) : q[i] = d THEN Append(s.content[d], n) ELSE s.content[d]
    <3>1. CASE d = q[k + 1]
      <4>1. it[k].content[d] = s.content[d]
        BY <2>3, <2>5, <3>1
      <4>2. it[k + 1].content[d] = Append(it[k].content[d], n)
        BY <2>4, <2>6, <3>1
      <4>3. k + 1 \in 1..(k + 1)
        BY <2>1
      <4> QED
        BY <3>1, <4>1, <4>2, <4>3
    <3>2. CASE d # q[k + 1]
      <4>1. it[k + 1].content[d] = it[k].content[d]
        BY <2>1, <2>4, <2>6, <3>2
      <4>2. (\E i \in 1..(k + 1) : q[i] = d) <=> (\E i \in 1..k : q[i] = d)
        BY <2>1, <3>2
      <4> QED
        BY <2>3, <4>1, <4>2
    <3> QED
      BY <3>1, <3>2
  <2>8. P(k + 1)
    BY <2>4, <2>7
  <2> QED
    BY <2>1, <2>8
<1>5. P(Len(q))
  <2> HIDE DEF P
  <2>1. \A k \in 0..Len(q) : k \in T
    <3> HIDE DEF T
    <3> QED
      BY <1>1, <1>3, <1>4, UpTo
  <2> QED
    BY <1>1, <2>1
<1>6. FoldTargets(n, s, q) = it[Len(q)]
  BY <1>2 DEF TargetsTrace
<1>7. \A d \in Docs : d \in ToSet(q) <=> \E i \in 1..Len(q) : q[i] = d
  BY SeqFacts
<1> QED
  BY <1>5, <1>6, <1>7

\* The documents an event goes to.
LEMMA TargetsFacts ==
  ASSUME NEW s \in StagedBatches, log \in Seq(Events), NEW n \in 1..Len(log),
         link \in [Links -> Subscribers]
  PROVE  /\ Targets(s, log[n]) \in Seq(Docs) /\ IsInjective(Targets(s, log[n]))
         /\ ~Joined(log[n]) => Targets(s, log[n]) = log[n].to /\ log[n].to # <<>>
         /\ Joined(log[n]) => log[n].to = <<>>
<1>1. log[n] \in Events /\ log[n] \in Event
  BY DaemonAssumption
<1>2. /\ log[n].to \in Seq(Docs) /\ IsInjective(log[n].to)
      /\ log[n].to = <<>> <=> log[n].via \in Links
  BY <1>1, DaemonAssumption DEF Event
<1>3. CASE ~Joined(log[n])
  BY <1>2, <1>3 DEF Targets, Joined
<1>4. CASE Joined(log[n])
  <2> DEFINE x == log[n].via
             found == CASE s.adds[x] # NoDoc -> s.adds[x]
                        [] s.adds[x] = NoDoc /\ s.removes[x] # NoDoc -> NoDoc
                        [] OTHER -> link[x]
  <2>1. x \in Links
    BY <1>4 DEF Joined
  <2>2. s.adds[x] \in Subscribers /\ link[x] \in Subscribers /\ NoDoc \in Subscribers
    BY <2>1 DEF StagedBatches, Subscribers
  <2>3. found \in Subscribers
    BY <2>2
  <2>4. Targets(s, log[n]) = IF found = NoDoc THEN <<>> ELSE <<found>>
    BY <1>4 DEF Targets
  <2> HIDE DEF found
  <2>5. CASE found = NoDoc
    <3>1. Targets(s, log[n]) = <<>>
      BY <2>4, <2>5
    <3> QED
      BY <1>2, <1>4, <3>1 DEF IsInjective, Joined
  <2>6. CASE found # NoDoc
    <3>1. Targets(s, log[n]) = <<found>> /\ found \in Docs
      BY <2>3, <2>4, <2>6 DEF Subscribers
    <3>2. <<found>> \in Seq(Docs) /\ IsInjective(<<found>>)
      BY <3>1 DEF IsInjective
    <3> QED
      BY <1>2, <1>4, <3>1, <3>2 DEF Joined
  <2> QED
    BY <2>5, <2>6
<1> QED
  BY <1>3, <1>4

Skipped(s, n) == n \in s.fresh \cup dedupe \/ Targets(s, log[n]) = <<>>

LEMMA FoldEventFacts ==
  ASSUME NEW s \in StagedBatches, log \in Seq(Events), NEW n \in 1..Len(log),
         link \in [Links -> Subscribers]
  PROVE  /\ FoldEvent(s, n) \in StagedBatches
         /\ Skipped(s, n) => FoldEvent(s, n) = s
         /\ ~Skipped(s, n) =>
              /\ FoldEvent(s, n) = [FoldTargets(n, s, Targets(s, log[n])) EXCEPT !.fresh = @ \cup {n}]
              /\ FoldEvent(s, n).fresh = s.fresh \cup {n}
              /\ \A d \in Docs : FoldEvent(s, n).content[d] =
                   IF d \in ToSet(Targets(s, log[n])) THEN Append(s.content[d], n) ELSE s.content[d]
<1>1. CASE Skipped(s, n)
  BY <1>1 DEF FoldEvent, Skipped
<1>2. CASE ~Skipped(s, n)
  <2> DEFINE r == FoldTargets(n, s, Targets(s, log[n]))
  <2>1. FoldEvent(s, n) = [r EXCEPT !.fresh = @ \cup {n}]
    BY <1>2 DEF FoldEvent, Skipped, FoldTargets, FoldOne
  <2>2. /\ r \in StagedBatches /\ r.fresh = s.fresh
        /\ \A d \in Docs : r.content[d] =
             IF d \in ToSet(Targets(s, log[n])) THEN Append(s.content[d], n) ELSE s.content[d]
    BY TargetsFacts, FoldTargetsFacts
  <2> HIDE DEF r
  <2>3. /\ FoldEvent(s, n) \in StagedBatches /\ FoldEvent(s, n).content = r.content
        /\ FoldEvent(s, n).fresh = r.fresh \cup {n}
    <3>1. /\ r = [content |-> r.content, adds |-> r.adds, removes |-> r.removes, fresh |-> r.fresh]
          /\ r.content \in [Docs -> Seq(Nat)] /\ r.adds \in [Links -> Subscribers]
          /\ r.removes \in [Links -> Subscribers] /\ r.fresh \in SUBSET Nat
      BY <2>2 DEF StagedBatches
    <3>2. FoldEvent(s, n) = [content |-> r.content, adds |-> r.adds, removes |-> r.removes,
                             fresh |-> r.fresh \cup {n}]
      BY <2>1, <3>1
    <3>3. r.fresh \cup {n} \in SUBSET Nat
      BY <3>1
    <3> QED
      BY <3>1, <3>2, <3>3 DEF StagedBatches
  <2> QED
    BY <1>2, <2>1, <2>2, <2>3 DEF r
<1> QED
  BY <1>1, <1>2

\* One event of a batch: folded, if it has a target and has not been folded yet.
LEMMA FoldEventKept ==
  ASSUME NEW s \in StagedBatches, log \in Seq(Events), NEW n \in 1..Len(log),
         link \in [Links -> Subscribers], Kept(s.content, s.fresh \cup dedupe),
         ~Joined(log[n]) =>
           \A m \in 1..Len(log) : m < n /\ ~Joined(log[m]) => m \in s.fresh \cup dedupe
  PROVE  /\ FoldEvent(s, n) \in StagedBatches
         /\ s.fresh \subseteq FoldEvent(s, n).fresh
         /\ Kept(FoldEvent(s, n).content, FoldEvent(s, n).fresh \cup dedupe)
         /\ ~Joined(log[n]) => n \in FoldEvent(s, n).fresh \cup dedupe
<1> DEFINE t == Targets(s, log[n])
           u == FoldEvent(s, n)
<1>1. /\ t \in Seq(Docs) /\ IsInjective(t)
      /\ ~Joined(log[n]) => t = log[n].to /\ log[n].to # <<>>
      /\ Joined(log[n]) => log[n].to = <<>>
  BY TargetsFacts
<1>2. /\ u \in StagedBatches
      /\ Skipped(s, n) => u = s
      /\ ~Skipped(s, n) =>
           /\ u.fresh = s.fresh \cup {n}
           /\ \A d \in Docs : u.content[d] = IF d \in ToSet(t) THEN Append(s.content[d], n) ELSE s.content[d]
  BY FoldEventFacts
<1>3. Skipped(s, n) <=> n \in s.fresh \cup dedupe \/ t = <<>>
  BY DEF Skipped
<1> HIDE DEF t, u
<1>4. CASE Skipped(s, n)
  <2>1. u = s
    BY <1>2, <1>4
  <2>2. ~Joined(log[n]) => n \in s.fresh \cup dedupe
    BY <1>1, <1>3, <1>4
  <2> QED
    BY <2>1, <2>2 DEF u
<1>5. CASE ~Skipped(s, n)
  <2> DEFINE F == s.fresh \cup dedupe
  <2>1. n \notin F /\ t # <<>>
    BY <1>3, <1>5
  <2>2. u.content \in [Docs -> Seq(Nat)]
    BY <1>2 DEF StagedBatches
  <2>3. u.fresh \cup dedupe = F \cup {n} /\ Kept(s.content, F)
    BY <1>2, <1>5
  <2>4. ~Joined(log[n]) => \A m \in 1..Len(log) : m < n /\ ~Joined(log[m]) => m \in F
    OBVIOUS
  <2>5. \A d \in Docs : u.content[d] = IF d \in ToSet(t) THEN Append(s.content[d], n) ELSE s.content[d]
    BY <1>2, <1>5
  <2> HIDE DEF F
  <2>6. Kept(u.content, F \cup {n})
    BY SMTT(30), <1>1, <2>1, <2>2, <2>3, <2>4, <2>5, KeptFold
  <2>7. n \in u.fresh /\ s.fresh \subseteq u.fresh
    BY <1>2, <1>5
  <2> QED
    BY <1>2, <2>3, <2>6, <2>7 DEF u
<1> QED
  BY <1>4, <1>5

\* A batch after everything it follows: every event of the projected stream
\* before one of its events is folded already or stands before it.
BatchFollows(batch) ==
  /\ batch \in Seq(1..Len(log))
  /\ \A i \in 1..Len(batch) : \A m \in 1..Len(log) : m < batch[i] /\ ~Joined(log[m]) =>
       m \in dedupe \/ \E j \in 1..Len(batch) : j < i /\ batch[j] = m

StagedOver(s, batch, k) ==
  /\ s \in StagedBatches
  /\ Kept(s.content, s.fresh \cup dedupe)
  /\ \A j \in 1..k : ~Joined(log[batch[j]]) => batch[j] \in s.fresh \cup dedupe

LEMMA FoldEventsKept ==
  ASSUME NEW s, NEW batch, BatchFollows(batch), log \in Seq(Events),
         link \in [Links -> Subscribers], StagedOver(s, batch, 0)
  PROVE  StagedOver(FoldEvents(s, batch), batch, Len(batch))
<1>1. /\ DOMAIN batch = 1..Len(batch) /\ Len(batch) \in Nat /\ Len(log) \in Nat
      /\ \A i \in 1..Len(batch) : batch[i] \in 1..Len(log)
  BY DEF BatchFollows
<1>2. PICK it : EventsTrace(it, s, Len(batch), batch)
  BY <1>1, EventsFold
<1> DEFINE T == {k \in 0..Len(batch) : StagedOver(it[k], batch, k)}
<1>3. 0 \in T
  <2>1. it[0] = s
    BY <1>2 DEF EventsTrace
  <2> QED
    BY <1>1, <2>1
<1>4. ASSUME NEW k \in Nat, k < Len(batch), k \in T PROVE k + 1 \in T
  <2>1. /\ k + 1 \in 1..Len(batch) /\ (k + 1) - 1 = k /\ batch[k + 1] \in 1..Len(log)
        /\ k + 1 \in 0..Len(batch)
        /\ \A j \in 1..(k + 1) : j \in 1..k \/ j = k + 1
        /\ \A j \in 1..Len(batch) : j < k + 1 => j \in 1..k
    BY <1>1, <1>4
  <2>2. it[k + 1] = FoldEvent(it[k], batch[k + 1])
    BY <1>2, <2>1 DEF EventsTrace
  <2>3. StagedOver(it[k], batch, k)
    BY <1>4
  <2>4. \A m \in 1..Len(log) : m < batch[k + 1] /\ ~Joined(log[m]) => m \in it[k].fresh \cup dedupe
    BY SMTT(30), <2>1, <2>3 DEF StagedOver, BatchFollows
  <2>5. it[k] \in StagedBatches /\ Kept(it[k].content, it[k].fresh \cup dedupe)
    BY <2>3 DEF StagedOver
  <2> HIDE DEF T
  <2>6. /\ it[k + 1] \in StagedBatches
        /\ it[k].fresh \subseteq it[k + 1].fresh
        /\ Kept(it[k + 1].content, it[k + 1].fresh \cup dedupe)
        /\ ~Joined(log[batch[k + 1]]) => batch[k + 1] \in it[k + 1].fresh \cup dedupe
    BY <2>1, <2>2, <2>4, <2>5, FoldEventKept
  <2>7. StagedOver(it[k + 1], batch, k + 1)
    BY <2>1, <2>3, <2>6 DEF StagedOver
  <2> QED
    BY <2>1, <2>7 DEF T
<1>5. Len(batch) \in T
  <2> HIDE DEF T
  <2>1. \A k \in 0..Len(batch) : k \in T
    BY <1>1, <1>3, <1>4, UpTo
  <2> QED
    BY <1>1, <2>1
<1>6. FoldEvents(s, batch) = it[Len(batch)]
  BY <1>2 DEF EventsTrace
<1> QED
  BY <1>5, <1>6

LEMMA FoldBatchKept ==
  ASSUME NEW batch, BatchFollows(batch), log \in Seq(Events), link \in [Links -> Subscribers],
         Kept(doc, dedupe)
  PROVE  StagedOver(FoldBatch(batch), batch, Len(batch))
<1> DEFINE n == Len(batch) + 1
           q == [i \in 1..n |-> i]
<1>1. Len(batch) \in Nat /\ n \in Nat /\ DOMAIN q = 1..n
  BY DEF BatchFollows
<1>2. FoldBatch(batch) = FoldPasses(batch, Unstaged, q)
  BY DEF FoldBatch, FoldPasses, FoldEvents
<1>3. StagedOver(Unstaged, batch, 0)
  <2>1. doc \in [Docs -> Seq(Nat)]
    BY DEF Kept
  <2>2. NoTargets \in [Links -> Subscribers]
    BY DEF NoTargets, Subscribers
  <2>3. Unstaged \in StagedBatches /\ Unstaged.content = doc /\ Unstaged.fresh = {}
    BY <2>1, <2>2 DEF Unstaged, StagedBatches
  <2>4. {} \cup dedupe = dedupe
    OBVIOUS
  <2>5. Kept(Unstaged.content, Unstaged.fresh \cup dedupe)
    BY <2>3, <2>4
  <2> QED
    BY <2>3, <2>5 DEF StagedOver
<1> HIDE DEF q
<1>4. PICK it : PassesTrace(it, batch, Unstaged, n, q)
  BY <1>1, PassesFold
<1> HIDE DEF n
<1> DEFINE T == {k \in Nat : StagedOver(it[k], batch, 0) /\ (k # 0 => StagedOver(it[k], batch, Len(batch)))}
<1>5. 0 \in T
  BY <1>3, <1>4 DEF PassesTrace
<1>6. ASSUME NEW k \in Nat, k < n, k \in T PROVE k + 1 \in T
  <2>1. k + 1 \in 1..n /\ (k + 1) - 1 = k
    BY <1>1, <1>6
  <2>2. it[k + 1] = FoldEvents(it[k], batch)
    BY <1>4, <2>1 DEF PassesTrace
  <2>3. StagedOver(it[k], batch, 0)
    BY <1>6
  <2> HIDE DEF T
  <2>4. StagedOver(it[k + 1], batch, Len(batch))
    BY <2>2, <2>3, FoldEventsKept
  <2>5. StagedOver(it[k + 1], batch, 0)
    BY <2>4 DEF StagedOver
  <2> QED
    BY <2>1, <2>4, <2>5 DEF T
<1>7. n \in T /\ n # 0
  <2> HIDE DEF T
  <2>1. \A k \in 0..n : k \in T
    BY <1>1, <1>5, <1>6, UpTo
  <2> QED
    BY <1>1, <2>1 DEF n
<1>8. FoldBatch(batch) = it[n]
  BY <1>2, <1>4 DEF PassesTrace
<1> QED
  BY <1>7, <1>8

-----------------------------------------------------------------------------
(* The inductive invariant of the daemon.                                  *)

DaemonTypeOK ==
  /\ log \in Seq(Events) /\ link \in [Links -> Subscribers] /\ mode \in Modes
  /\ cursor \in 0..Len(log)
  /\ daemon \in [pc : {"off", "idle", "commit", "persist"}, batch : Seq(1..Len(log)), next : Modes]

\* Everything of the projected stream up to the cursor has been folded.
CursorBehind == \A n \in 1..Len(log) : n <= cursor /\ ~Joined(log[n]) => n \in dedupe

\* The batch in hand is a run of the log from the cursor or before it.
InSequence(batch) ==
  /\ batch \in Seq(1..Len(log))
  /\ \A i \in 1..Len(batch) : \A m \in 1..Len(log) : m < batch[i] =>
       m <= cursor \/ \E j \in 1..Len(batch) : j < i /\ batch[j] = m
BatchInHand == daemon.pc = "commit" => daemon.batch # <<>> /\ InSequence(daemon.batch)

DaemonInv == DaemonTypeOK /\ Kept(doc, dedupe) /\ CursorBehind /\ BatchInHand

LEMMA DaemonInit == Init => DaemonInv
<1> SUFFICES ASSUME Init PROVE DaemonInv
  OBVIOUS
<1>1. /\ log = <<>> /\ doc = [d \in Docs |-> <<>>] /\ link = NoTargets /\ dedupe = {} /\ cursor = 0
      /\ mode \in Modes /\ daemon = [pc |-> "off", batch |-> <<>>, next |-> "live"]
  BY DEF Init, Off, Modes
<1>2. log \in Seq(Events) /\ Len(log) = 0 /\ <<>> \in Seq(Nat) /\ <<>> \in Seq(1..Len(log))
  BY <1>1
<1>3. NoTargets \in [Links -> Subscribers]
  BY DEF NoTargets, Subscribers
<1>4. DaemonTypeOK
  BY <1>1, <1>2, <1>3 DEF DaemonTypeOK, Modes
<1>5. Kept(doc, dedupe)
  <2>1. \A d \in Docs : doc[d] = <<>>
    BY <1>1
  <2>2. ToSet(<<>>) = {} /\ IsInjective(<<>>) /\ Sorted(<<>>)
    BY DEF ToSet, IsInjective, Sorted
  <2>3. doc \in [Docs -> Seq(Nat)] /\ dedupe \in SUBSET (1..Len(log))
    BY <1>1, <1>2
  <2>4. \A n : n \in dedupe <=> FoldedInto(doc, n)
    BY <1>1, <2>1, <2>2 DEF FoldedInto
  <2> QED
    BY <1>1, <2>1, <2>2, <2>3, <2>4 DEF Kept
<1>6. CursorBehind /\ BatchInHand
  BY <1>1, <1>2 DEF CursorBehind, BatchInHand
<1> QED
  BY <1>4, <1>5, <1>6 DEF DaemonInv

\* The events of the log keep their places when it grows.
LEMMA LogGrows ==
  ASSUME DaemonInv, NEW e \in Events, Appended(e)
  PROVE  DaemonInv'
<1>1. /\ log \in Seq(Events) /\ log' = Append(log, e)
      /\ doc' = doc /\ link' = link /\ dedupe' = dedupe /\ cursor' = cursor /\ mode' = mode /\ daemon' = daemon
  BY DEF Appended, DaemonInv, DaemonTypeOK, store
<1>2. /\ log' \in Seq(Events) /\ Len(log') = Len(log) + 1 /\ Len(log) \in Nat
      /\ \A n \in 1..Len(log) : log'[n] = log[n] /\ n \in 1..Len(log')
      /\ \A n \in 1..Len(log') : n \in 1..Len(log) \/ n = Len(log) + 1
  BY <1>1
<1>3. dedupe \in SUBSET (1..Len(log)) /\ cursor \in 0..Len(log)
  BY DEF DaemonInv, DaemonTypeOK, Kept
<1>4. DaemonTypeOK'
  <2>1. daemon \in [pc : {"off", "idle", "commit", "persist"}, batch : Seq(1..Len(log)), next : Modes]
    BY DEF DaemonInv, DaemonTypeOK
  <2>2. \A q \in Seq(1..Len(log)) : q \in Seq(1..Len(log'))
    <3> SUFFICES ASSUME NEW q \in Seq(1..Len(log)) PROVE q \in Seq(1..Len(log'))
      OBVIOUS
    <3>1. q \in [1..Len(q) -> 1..Len(log)] /\ Len(q) \in Nat
      OBVIOUS
    <3>2. q \in [1..Len(q) -> 1..Len(log')]
      BY <1>2, <3>1
    <3> QED
      BY SMTT(30), <3>1, <3>2
  <2>3. daemon \in [pc : {"off", "idle", "commit", "persist"}, batch : Seq(1..Len(log')), next : Modes]
    BY <2>1, <2>2
  <2>4. cursor \in 0..Len(log')
    BY <1>2, <1>3
  <2> QED
    BY <1>1, <1>2, <2>3, <2>4 DEF DaemonTypeOK, DaemonInv
<1>5. Kept(doc, dedupe)'
  <2>0. Kept(doc, dedupe)
    BY DEF DaemonInv
  <2>1. dedupe \in SUBSET (1..Len(log')) /\ doc \in [Docs -> Seq(Nat)]
    BY <1>2, <2>0 DEF Kept
  <2>2. \A n : n \in dedupe <=> FoldedInto(doc, n)
    BY <2>0 DEF Kept
  <2>3. ASSUME NEW d \in Docs PROVE IsInjective(doc[d]) /\ Sorted(doc[d])'
    <3>1. doc[d] \in Seq(Nat) /\ IsInjective(doc[d]) /\ Sorted(doc[d])
      BY <2>0 DEF Kept
    <3>2. \A i \in 1..Len(doc[d]) : doc[d][i] \in 1..Len(log)
      <4>1. \A i \in 1..Len(doc[d]) : doc[d][i] \in ToSet(doc[d])
        BY <3>1, SeqFacts
      <4> QED
        BY <1>3, <2>2, <4>1 DEF FoldedInto
    <3>3. Sorted(doc[d])'
      BY <1>1, <1>2, <3>1, <3>2 DEF Sorted, Joined
    <3> QED
      BY <3>1, <3>3
  <2>4. \A n \in dedupe : \A i \in DOMAIN log'[n].to : n \in ToSet(doc[log'[n].to[i]])
    BY <1>2, <1>3, <2>0 DEF Kept
  <2>5. \A m \in 1..Len(log'), n \in dedupe : m < n /\ ~Joined(log'[m]) /\ ~Joined(log'[n]) => m \in dedupe
    <3> SUFFICES ASSUME NEW m \in 1..Len(log'), NEW n \in dedupe, m < n, ~Joined(log'[m]), ~Joined(log'[n])
                 PROVE  m \in dedupe
      OBVIOUS
    <3>1. n \in 1..Len(log) /\ m \in 1..Len(log)
      BY <1>2, <1>3
    <3> QED
      BY <1>2, <2>0, <3>1 DEF Kept
  <2> QED
    BY <1>1, <2>1, <2>2, <2>3, <2>4, <2>5 DEF Kept, FoldedInto, Joined
<1>6. CursorBehind'
  BY <1>1, <1>2, <1>3 DEF CursorBehind, DaemonInv, Joined
<1>7. BatchInHand'
  <2> SUFFICES ASSUME daemon.pc = "commit" PROVE daemon.batch # <<>> /\ InSequence(daemon.batch)'
    BY <1>1 DEF BatchInHand
  <2> DEFINE b == daemon.batch
  <2>1. b # <<>> /\ InSequence(b)
    BY DEF DaemonInv, BatchInHand
  <2>2. b \in Seq(1..Len(log')) /\ \A i \in 1..Len(b) : b[i] \in 1..Len(log)
    BY <1>1, <1>4, <2>1 DEF DaemonTypeOK, InSequence
  <2>3. ASSUME NEW i \in 1..Len(b), NEW m \in 1..Len(log'), m < b[i]
        PROVE  m <= cursor \/ \E j \in 1..Len(b) : j < i /\ b[j] = m
    <3>1. m \in 1..Len(log)
      BY <1>2, <2>2, <2>3
    <3> QED
      BY <2>1, <2>3, <3>1 DEF InSequence
  <2>4. /\ b \in Seq(1..Len(log'))
        /\ \A i \in 1..Len(b) : \A m \in 1..Len(log') : m < b[i] =>
             m <= cursor \/ \E j \in 1..Len(b) : j < i /\ b[j] = m
    BY <2>2, <2>3
  <2>5. InSequence(daemon.batch)'
    BY <1>1, <2>4 DEF InSequence
  <2> QED
    BY <2>1, <2>5
<1> QED
  BY <1>4, <1>5, <1>6, <1>7 DEF DaemonInv

\* A run of the log from the cursor on, or before it, follows what is folded.
LEMMA SequenceFollows ==
  ASSUME CursorBehind, NEW batch, InSequence(batch)
  PROVE  BatchFollows(batch)
  BY DEF CursorBehind, InSequence, BatchFollows

\* The last of a batch is an event of the log, and what precedes it is folded.
LEMMA CommitKeeps ==
  ASSUME DaemonInv, Commit
  PROVE  DaemonInv'
<1> DEFINE b == daemon.batch
           s == FoldBatch(b)
<1>1. /\ log \in Seq(Events) /\ link \in [Links -> Subscribers] /\ mode \in Modes
      /\ Kept(doc, dedupe) /\ b # <<>> /\ InSequence(b) /\ BatchFollows(b) /\ Len(log) \in Nat
  BY SequenceFollows DEF DaemonInv, DaemonTypeOK, BatchInHand, Commit
<1>2. StagedOver(s, b, Len(b))
  BY <1>1, FoldBatchKept
<1>3. /\ doc' = s.content /\ dedupe' = dedupe \cup s.fresh /\ cursor' = Last(b) /\ log' = log /\ mode' = mode
      /\ daemon' = Idle
      /\ link' = IF StoreKind = "memory" THEN MemoryLinks(s) ELSE MongoLinks(s)
  BY DEF Commit
<1> HIDE DEF s
<1>4. /\ Len(b) \in 1..Len(b) /\ Len(b) \in Nat /\ Last(b) = b[Len(b)] /\ b[Len(b)] \in 1..Len(log)
  <2> HIDE DEF b
  <2>1. b \in Seq(1..Len(log))
    BY <1>1 DEF BatchFollows
  <2> QED
    BY <1>1, <2>1 DEF Last
<1>5. link' \in [Links -> Subscribers]
  <2>1. s.adds \in [Links -> Subscribers] /\ s.removes \in [Links -> Subscribers] /\ NoDoc \in Subscribers
    BY <1>2 DEF StagedOver, StagedBatches, Subscribers
  <2>2. MemoryLinks(s) \in [Links -> Subscribers] /\ MongoLinks(s) \in [Links -> Subscribers]
    BY <1>1, <2>1 DEF MemoryLinks, MongoLinks
  <2> QED
    BY <1>3, <2>2
<1>6. daemon' = [pc |-> "idle", batch |-> <<>>, next |-> "live"]
  BY <1>3 DEF Idle, Off
<1>7. DaemonTypeOK'
  <2>1. <<>> \in Seq(1..Len(log)) /\ "live" \in Modes
    BY DEF Modes
  <2> QED
    BY <1>1, <1>3, <1>4, <1>5, <1>6, <2>1 DEF DaemonTypeOK
<1>8. Kept(doc, dedupe)'
  <2>1. Kept(s.content, s.fresh \cup dedupe) /\ s.fresh \cup dedupe = dedupe \cup s.fresh
    BY <1>2 DEF StagedOver
  <2> QED
    BY <1>3, <2>1 DEF Kept, FoldedInto, Sorted, Joined
<1>9. CursorBehind'
  <2> SUFFICES ASSUME NEW n \in 1..Len(log), n <= Last(b), ~Joined(log[n]) PROVE n \in dedupe \cup s.fresh
    BY <1>3 DEF CursorBehind, Joined
  <2>1. n \in dedupe \/ \E j \in 1..Len(b) : b[j] = n
    <3>1. CASE n < b[Len(b)]
      BY <1>1, <1>4, <3>1 DEF BatchFollows
    <3>2. CASE n = b[Len(b)]
      BY <1>4, <3>2
    <3> QED
      BY <1>4, <3>1, <3>2
  <2> QED
    BY <1>2, <2>1 DEF StagedOver
<1>10. BatchInHand'
  BY <1>6 DEF BatchInHand
<1> QED
  BY <1>7, <1>8, <1>9, <1>10 DEF DaemonInv

\* What a poll takes from the cursor on, also with its first event twice.
LEMMA WindowFollows ==
  ASSUME DaemonInv, NEW first \in 1..(cursor + 1), NEW last \in first..Len(log)
  PROVE  /\ Window(first, last) # <<>> /\ InSequence(Window(first, last))
         /\ <<first>> \o Window(first, last) # <<>> /\ InSequence(<<first>> \o Window(first, last))
<1> DEFINE w == Window(first, last)
           q == <<first>> \o w
           n == last - first + 1
<1>1. cursor \in Nat /\ first \in Nat /\ last \in Nat /\ Len(log) \in Nat /\ first <= last /\ n \in Nat /\ n >= 1
      /\ 1 <= first /\ last <= Len(log)
  BY DEF DaemonInv, DaemonTypeOK
<1>2. w = [i \in 1..n |-> first + i - 1]
  BY DEF Window
<1>3. \A i \in 1..n : first + i - 1 \in 1..Len(log)
  BY <1>1
<1> HIDE DEF n, w
<1>4. w \in Seq(1..Len(log)) /\ Len(w) = n /\ \A i \in 1..n : w[i] = first + i - 1
  BY <1>1, <1>2, <1>3
<1>5. ASSUME NEW i \in 1..n, NEW m \in 1..Len(log), m < first + i - 1
      PROVE  m <= cursor \/ \E j \in 1..n : j < i /\ w[j] = m
  <2>1. CASE m < first
    BY <1>1, <2>1
  <2>2. CASE ~ (m < first)
    <3>1. m - first + 1 \in 1..n /\ m - first + 1 < i /\ first + (m - first + 1) - 1 = m
      BY <1>1, <1>5, <2>2
    <3> QED
      BY <1>4, <3>1
  <2> QED
    BY <2>1, <2>2
<1>6. InSequence(w) /\ w # <<>>
  <2>1. InSequence(w)
    BY <1>4, <1>5 DEF InSequence
  <2>2. w # <<>>
    BY <1>1, <1>4
  <2> QED
    BY <2>1, <2>2
<1>7. /\ q \in Seq(1..Len(log)) /\ Len(q) = n + 1 /\ q[1] = first /\ q # <<>>
      /\ \A i \in 1..n : q[i + 1] = w[i]
  <2>1. first \in 1..Len(log)
    BY <1>1
  <2> QED
    BY <1>1, <1>4, <2>1
<1> HIDE DEF q
<1>8. InSequence(q)
  <2> SUFFICES ASSUME NEW i \in 1..(n + 1), NEW m \in 1..Len(log), m < q[i]
               PROVE  m <= cursor \/ \E j \in 1..(n + 1) : j < i /\ q[j] = m
    BY <1>1, <1>7 DEF InSequence
  <2>1. CASE i = 1
    BY <1>1, <1>7, <2>1
  <2>2. CASE i # 1
    <3>1. i - 1 \in 1..n /\ q[i] = first + (i - 1) - 1
      <4>1. i - 1 \in 1..n /\ (i - 1) + 1 = i
        BY <1>1, <2>2
      <4> QED
        BY <1>4, <1>7, <4>1
    <3>2. m <= cursor \/ \E j \in 1..n : j < i - 1 /\ w[j] = m
      BY <1>5, <3>1
    <3>3. \A j \in 1..n : j < i - 1 => j + 1 \in 1..(n + 1) /\ j + 1 < i
      BY <1>1
    <3> QED
      BY <1>7, <3>2, <3>3
  <2> QED
    BY <2>1, <2>2
<1> QED
  BY <1>6, <1>7, <1>8 DEF w, q

LEMMA PolledKeeps ==
  ASSUME DaemonInv, NEW batch, Polled(batch), batch # <<>>, InSequence(batch)
  PROVE  DaemonInv'
<1>1. /\ daemon' = [daemon EXCEPT !.pc = "commit", !.batch = batch] /\ log' = log
      /\ doc' = doc /\ link' = link /\ dedupe' = dedupe /\ cursor' = cursor /\ mode' = mode
  BY DEF Polled, store
<1>2. daemon \in [pc : {"off", "idle", "commit", "persist"}, batch : Seq(1..Len(log)), next : Modes]
  BY DEF DaemonInv, DaemonTypeOK
<1>3. daemon' = [pc |-> "commit", batch |-> batch, next |-> daemon.next] /\ daemon.next \in Modes
  BY <1>1, <1>2
<1>4. DaemonTypeOK'
  BY <1>1, <1>3 DEF DaemonInv, DaemonTypeOK, InSequence
<1>5. BatchInHand'
  BY <1>1, <1>3 DEF BatchInHand, InSequence
<1>6. Kept(doc, dedupe)' /\ CursorBehind'
  BY <1>1 DEF DaemonInv, Kept, FoldedInto, Sorted, Joined, CursorBehind
<1> QED
  BY <1>4, <1>5, <1>6 DEF DaemonInv

LEMMA DaemonStep == DaemonInv /\ [Next]_vars => DaemonInv'
<1> SUFFICES ASSUME DaemonInv, [Next]_vars PROVE DaemonInv'
  OBVIOUS
<1>1. ASSUME log' = log, doc' = doc, link' = link, dedupe' = dedupe, cursor' = cursor, mode' \in Modes,
             daemon' \in [pc : {"off", "idle", "commit", "persist"}, batch : Seq(1..Len(log)), next : Modes],
             daemon'.pc = "commit" => daemon' = daemon
      PROVE  DaemonInv'
  <2>1. DaemonTypeOK'
    BY <1>1 DEF DaemonInv, DaemonTypeOK
  <2>3. BatchInHand'
    <3> SUFFICES ASSUME daemon'.pc = "commit" PROVE daemon'.batch # <<>> /\ InSequence(daemon.batch)'
      BY DEF BatchInHand
    <3>1. daemon' = daemon /\ daemon.batch # <<>> /\ InSequence(daemon.batch)
      BY <1>1 DEF DaemonInv, BatchInHand
    <3>2. InSequence(daemon.batch)'
      BY <1>1, <3>1 DEF InSequence
    <3> QED
      BY <3>1, <3>2
  <2>2. Kept(doc, dedupe)' /\ CursorBehind'
    BY <1>1 DEF DaemonInv, Kept, FoldedInto, Sorted, Joined, CursorBehind
  <2> QED
    BY <2>1, <2>2, <2>3 DEF DaemonInv
<1>2. /\ daemon \in [pc : {"off", "idle", "commit", "persist"}, batch : Seq(1..Len(log)), next : Modes]
      /\ mode \in Modes /\ cursor \in 0..Len(log) /\ Len(log) \in Nat
  BY DEF DaemonInv, DaemonTypeOK
<1>3. <<>> \in Seq(1..Len(log)) /\ "live" \in Modes /\ "ready_to_cutover" \in Modes
  BY DEF Modes
<1>4. ASSUME NEW next \in Modes, ToPersist(next) PROVE DaemonInv'
  <2>1. daemon' = [pc |-> "persist", batch |-> daemon.batch, next |-> next]
    BY <1>2, <1>4 DEF ToPersist
  <2> QED
    BY <1>1, <1>2, <1>4, <2>1 DEF ToPersist, store
<1>5. ASSUME NEW e \in Events, Appended(e) PROVE DaemonInv'
  BY <1>5, LogGrows
<1>6. CASE Start
  BY <1>1, <1>2, <1>3, <1>6 DEF Start, Idle, Off, store
<1>7. CASE Stops
  BY <1>1, <1>2, <1>3, <1>7 DEF Stops, Off, store
<1>8. CASE PollCatchUp
  <2> DEFINE last == IF Len(log) < cursor + BatchSize THEN Len(log) ELSE cursor + BatchSize
  <2>1. BatchSize \in Nat \ {0} /\ last >= cursor
    BY <1>2, DaemonAssumption
  <2>2. CASE last = cursor
    BY <1>3, <1>4, <1>8, <2>2 DEF PollCatchUp
  <2>3. CASE last # cursor
    <3>1. Polled(Window(cursor + 1, last))
      BY <1>8, <2>3 DEF PollCatchUp
    <3>2. cursor + 1 \in 1..(cursor + 1) /\ last \in (cursor + 1)..Len(log)
      BY <1>2, <2>1, <2>3
    <3> HIDE DEF last
    <3>3. Window(cursor + 1, last) # <<>> /\ InSequence(Window(cursor + 1, last))
      BY <3>2, WindowFollows
    <3> QED
      BY <3>1, <3>3, PolledKeeps
  <2> QED
    BY <2>2, <2>3
<1>9. CASE PollReady
  <2>1. ToPersist("live")
    BY <1>9 DEF PollReady
  <2> QED
    BY <1>3, <1>4, <2>1
<1>10. CASE PollLive
  <2>0. PICK first \in 1..(cursor + 1) : \E last \in first..Len(log) :
          Polled(Window(first, last)) \/ Polled(<<first>> \o Window(first, last))
    BY <1>10 DEF PollLive
  <2>1. PICK last \in first..Len(log) :
          Polled(Window(first, last)) \/ Polled(<<first>> \o Window(first, last))
    BY <2>0
  <2>2. /\ Window(first, last) # <<>> /\ InSequence(Window(first, last))
        /\ <<first>> \o Window(first, last) # <<>> /\ InSequence(<<first>> \o Window(first, last))
    BY WindowFollows
  <2> QED
    BY <2>1, <2>2, PolledKeeps
<1>11. CASE PersistMode
  <2>1. daemon.next \in Modes
    BY <1>2
  <2> QED
    BY <1>1, <1>2, <1>3, <1>11, <2>1 DEF PersistMode, Idle, Off
<1>12. CASE Commit
  BY <1>12, CommitKeeps
<1>13. CASE UNCHANGED vars
  BY <1>1, <1>2, <1>13 DEF vars, store
<1> QED
  BY <1>5, <1>6, <1>7, <1>8, <1>9, <1>10, <1>11, <1>12, <1>13 DEF Next

LEMMA DaemonAlways == Spec => []DaemonInv
<1> QED
  BY DaemonInit, DaemonStep, PTL DEF Spec

\* The documents and the dedupe keys follow the log.
LEMMA KeptIsFoldedOnce == DaemonInv => FoldedOnce
<1> SUFFICES ASSUME DaemonInv PROVE FoldedOnce
  OBVIOUS
<1>1. Kept(doc, dedupe) /\ cursor \in 0..Len(log) /\ Len(log) \in Nat
  BY DEF DaemonInv, DaemonTypeOK
<1>2. ASSUME NEW d \in Docs
      PROVE  /\ IsInjective(doc[d])
             /\ \A i, j \in DOMAIN doc[d] :
                  i < j /\ ~Joined(log[doc[d][i]]) /\ ~Joined(log[doc[d][j]]) => doc[d][i] < doc[d][j]
  <2>1. doc[d] \in Seq(Nat) /\ IsInjective(doc[d]) /\ Sorted(doc[d])
    BY <1>1 DEF Kept
  <2>2. DOMAIN doc[d] = 1..Len(doc[d])
    BY <2>1
  <2> QED
    BY <2>1, <2>2 DEF Sorted
<1>3. dedupe = UNION {ToSet(doc[d]) : d \in Docs}
  BY <1>1 DEF Kept, FoldedInto
<1>4. \A n \in dedupe : \A i \in DOMAIN log[n].to : n \in ToSet(doc[log[n].to[i]])
  BY <1>1 DEF Kept
<1>5. \A n \in 1..cursor : ~Joined(log[n]) => n \in dedupe
  BY <1>1 DEF DaemonInv, CursorBehind
<1> QED
  BY <1>2, <1>3, <1>4, <1>5 DEF FoldedOnce

\* With either store, no event is folded twice into a document or passed over,
\* and the dedupe keys are those of the events folded into all their documents.
THEOREM EventsAreFoldedOnce == Spec => []FoldedOnce
<1> QED
  BY DaemonAlways, KeptIsFoldedOnce, PTL

-----------------------------------------------------------------------------
(* The reference, event by event, for any log.                             *)

References == [content : [Docs -> Seq(Nat)], link : [Links -> Subscribers]]
EmptyReference == [content |-> [d \in Docs |-> <<>>], link |-> NoTargets]
Reference(lg, n) == FoldSequence(lg, EmptyReference, [i \in 1..n |-> i])

LEMMA OneByOneIsReference == \A n : OneByOne(n) = Reference(log, n)
  BY DEF OneByOne, Reference, FoldSequence, EmptyReference, ApplyNext, FoldApplies, ApplyOne

LEMMA OneByOneNext == \A n : OneByOne(n)' = Reference(log', n)
<1>1. (\A n : OneByOne(n) = Reference(log, n))'
  BY OneByOneIsReference, PTL
<1> QED
  BY <1>1

LEMMA ReferenceSteps ==
  ASSUME NEW lg, NEW n \in Nat
  PROVE  /\ Reference(lg, 0) = EmptyReference
         /\ Reference(lg, n + 1) = ApplyNext(lg, Reference(lg, n), n + 1)
<1> DEFINE q(k) == [i \in 1..k |-> i]
<1>1. \A k \in Nat : \E it : SequenceTrace(it, lg, EmptyReference, k, q(k))
  <2> SUFFICES ASSUME NEW k \in Nat PROVE \E it : SequenceTrace(it, lg, EmptyReference, k, q(k))
    OBVIOUS
  <2>1. DOMAIN q(k) = 1..k
    OBVIOUS
  <2> HIDE DEF q
  <2> QED
    BY <2>1, SequenceFold
<1>2. \A k \in Nat, i \in Nat : i \in 1..k => q(k)[i] = i
  OBVIOUS
<1>3. \A k \in Nat : Reference(lg, k) = FoldSequence(lg, EmptyReference, q(k))
  BY DEF Reference
<1> HIDE DEF q
<1>4. PICK old : SequenceTrace(old, lg, EmptyReference, n, q(n))
  BY <1>1
<1>5. PICK it : SequenceTrace(it, lg, EmptyReference, n + 1, q(n + 1))
  BY <1>1
<1>6. PICK none : SequenceTrace(none, lg, EmptyReference, 0, q(0))
  BY <1>1
<1> DEFINE T == {k \in Nat : old[k] = it[k]}
<1>7. 0 \in T
  BY <1>4, <1>5 DEF SequenceTrace
<1>8. ASSUME NEW k \in Nat, k < n, k \in T PROVE k + 1 \in T
  <2>1. k + 1 \in 1..n /\ k + 1 \in 1..(n + 1) /\ (k + 1) - 1 = k /\ n + 1 \in Nat
    BY <1>8
  <2>2. q(n)[k + 1] = k + 1 /\ q(n + 1)[k + 1] = k + 1
    BY <1>2, <2>1
  <2>3. old[k + 1] = ApplyNext(lg, old[k], k + 1) /\ it[k + 1] = ApplyNext(lg, it[k], k + 1)
    BY <1>4, <1>5, <2>1, <2>2 DEF SequenceTrace
  <2> QED
    BY <1>8, <2>3
<1>9. old[n] = it[n]
  <2>1. \A k \in 0..n : k \in T
    <3> HIDE DEF T
    <3> QED
      BY <1>7, <1>8, UpTo
  <2> QED
    BY <2>1
<1>10. it[n + 1] = ApplyNext(lg, it[n], n + 1)
  <2>1. n + 1 \in 1..(n + 1) /\ (n + 1) - 1 = n /\ n + 1 \in Nat
    OBVIOUS
  <2>2. q(n + 1)[n + 1] = n + 1
    BY <1>2, <2>1
  <2> QED
    BY <1>5, <2>1, <2>2 DEF SequenceTrace
<1>11. Reference(lg, n) = old[n] /\ Reference(lg, n + 1) = it[n + 1] /\ Reference(lg, 0) = none[0]
  BY <1>3, <1>4, <1>5, <1>6 DEF SequenceTrace
<1>12. none[0] = EmptyReference
  BY <1>6 DEF SequenceTrace
<1> QED
  BY <1>9, <1>10, <1>11, <1>12

\* The reference depends on the events it folds.
LEMMA ReferenceOfPrefix ==
  ASSUME NEW lg, NEW lh, NEW n \in Nat, \A m \in 1..n : lg[m] = lh[m]
  PROVE  \A k \in 0..n : Reference(lg, k) = Reference(lh, k)
<1> DEFINE T == {k \in Nat : Reference(lg, k) = Reference(lh, k)}
<1>1. 0 \in T
  BY ReferenceSteps
<1>2. ASSUME NEW k \in Nat, k < n, k \in T PROVE k + 1 \in T
  <2>1. k + 1 \in 1..n
    BY <1>2
  <2>2. Reference(lg, k) = Reference(lh, k) /\ lg[k + 1] = lh[k + 1]
    BY <1>2, <2>1
  <2>3. /\ Reference(lg, k + 1) = ApplyNext(lg, Reference(lg, k), k + 1)
        /\ Reference(lh, k + 1) = ApplyNext(lh, Reference(lh, k), k + 1)
    BY ReferenceSteps
  <2>4. Reference(lg, k + 1) = Reference(lh, k + 1)
    BY <2>2, <2>3 DEF ApplyNext
  <2> QED
    BY <2>4
<1>3. \A k \in 0..n : k \in T
  <2> HIDE DEF T
  <2> QED
    BY <1>1, <1>2, UpTo
<1> QED
  BY <1>3

\* One document of one event.
LinkAfter(e, r, d, l) ==
  IF e.op = "subscribe" /\ l = e.link THEN d
  ELSE IF e.op = "unsubscribe" /\ l = e.link /\ r.link[l] = d THEN NoDoc ELSE r.link[l]
AppliedLinks(e, r, d, f) == \A l \in Links : f[l] = LinkAfter(e, r, d, l)

LEMMA ApplyOneFacts ==
  ASSUME NEW r \in References, NEW e \in Events, NEW d \in Docs, NEW m \in Nat
  PROVE  /\ ApplyOne(e, r, d, m) \in References
         /\ ApplyOne(e, r, d, m).content = [r.content EXCEPT ![d] = Append(@, m)]
         /\ (e.op # "none" => e.link \in Links)
         /\ AppliedLinks(e, r, d, ApplyOne(e, r, d, m).link)
<1> DEFINE a == ApplyOne(e, r, d, m)
<1>1. r.content \in [Docs -> Seq(Nat)] /\ r.link \in [Links -> Subscribers] /\ d \in Subscribers /\ NoDoc \in Subscribers
  BY DEF References, Subscribers
<1>2. e.op # "none" => e.link \in Links
  BY DaemonAssumption DEF Event
<1>3. /\ a = [content |-> a.content, link |-> a.link]
      /\ a.content = [r.content EXCEPT ![d] = Append(@, m)]
      /\ a.link = CASE e.op = "subscribe" -> [r.link EXCEPT ![e.link] = d]
                    [] e.op = "unsubscribe" /\ r.link[e.link] = d -> [r.link EXCEPT ![e.link] = NoDoc]
                    [] OTHER -> r.link
  BY DEF ApplyOne
<1> HIDE DEF a
<1>4. a.content \in [Docs -> Seq(Nat)]
  <2>1. Append(r.content[d], m) \in Seq(Nat)
    BY <1>1, AppendFacts
  <2> QED
    BY <1>1, <1>3, <2>1
<1>5. a.link \in [Links -> Subscribers]
  BY <1>1, <1>2, <1>3
<1>6. \A l \in Links : a.link[l] = LinkAfter(e, r, d, l)
  BY <1>1, <1>2, <1>3 DEF LinkAfter
<1>7. a \in References
  BY <1>3, <1>4, <1>5 DEF References
<1> QED
  BY <1>2, <1>3, <1>6, <1>7 DEF a, AppliedLinks

\* The documents an event goes to in the reference, and what folding it does.
LEMMA HeldFacts ==
  ASSUME NEW r \in References, NEW e \in Events
  PROVE  /\ Held(r, e) \in Seq(Docs) /\ IsInjective(Held(r, e))
         /\ Held(r, e) = <<>> <=> Joined(e) /\ r.link[e.via] = NoDoc
<1>1. e.to \in Seq(Docs) /\ IsInjective(e.to) /\ (e.to = <<>> <=> Joined(e))
  BY DaemonAssumption DEF Event, Joined
<1>2. CASE ~Joined(e)
  <2>1. Held(r, e) = e.to
    BY <1>2 DEF Held
  <2> QED
    BY <1>1, <1>2, <2>1
<1>3. CASE Joined(e)
  <2> DEFINE x == r.link[e.via]
  <2>1. x \in Subscribers
    BY <1>3 DEF Joined, References
  <2>2. Held(r, e) = IF x = NoDoc THEN <<>> ELSE <<x>>
    BY <1>3 DEF Held
  <2> HIDE DEF x
  <2>3. IsInjective(<<>>) /\ <<>> \in Seq(Docs)
    BY DEF IsInjective
  <2>4. x # NoDoc => <<x>> \in Seq(Docs) /\ IsInjective(<<x>>) /\ <<x>> # <<>>
    BY <2>1 DEF Subscribers, IsInjective
  <2> QED
    BY <1>3, <2>2, <2>3, <2>4 DEF x
<1> QED
  BY <1>2, <1>3

\* Who is subscribed to l after an event: as before, or a document it went to
\* with a subscription to l.
SubscribedBy(r, e, l, x) == e.op = "subscribe" /\ e.link = l /\ x \in ToSet(Held(r, e))

LEMMA FoldAppliesFacts ==
  ASSUME NEW e \in Events, NEW m \in Nat, NEW r \in References, NEW q \in Seq(Docs)
  PROVE  /\ FoldApplies(e, m, r, q) \in References
         /\ \A l \in Links : LET x == FoldApplies(e, m, r, q).link[l]
                             IN \/ x \in {NoDoc, r.link[l]}
                                \/ e.op = "subscribe" /\ e.link = l /\ x \in ToSet(q)
<1>1. /\ DOMAIN q = 1..Len(q) /\ Len(q) \in Nat
      /\ \A i \in 1..Len(q) : q[i] \in Docs /\ q[i] \in ToSet(q)
  BY SeqFacts
<1>2. PICK it : AppliesTrace(it, e, m, r, Len(q), q)
  BY <1>1, AppliesFold
<1> DEFINE P(k) == /\ it[k] \in References
                   /\ \A l \in Links : \/ it[k].link[l] \in {NoDoc, r.link[l]}
                                       \/ e.op = "subscribe" /\ e.link = l /\ it[k].link[l] \in ToSet(q)
           T == {k \in Nat : P(k)}
<1>3. 0 \in T
  <2>1. it[0] = r
    BY <1>2 DEF AppliesTrace
  <2> QED
    BY <2>1
<1>4. ASSUME NEW k \in Nat, k < Len(q), k \in T PROVE k + 1 \in T
  <2>1. k + 1 \in 1..Len(q) /\ (k + 1) - 1 = k
    BY <1>1, <1>4
  <2>2. it[k + 1] = ApplyOne(e, it[k], q[k + 1], m)
    BY <1>2, <2>1 DEF AppliesTrace
  <2>3. P(k) /\ q[k + 1] \in Docs /\ q[k + 1] \in ToSet(q)
    BY <1>1, <1>4, <2>1
  <2>4. /\ ApplyOne(e, it[k], q[k + 1], m) \in References
        /\ AppliedLinks(e, it[k], q[k + 1], ApplyOne(e, it[k], q[k + 1], m).link)
    BY <2>3, ApplyOneFacts
  <2>5. P(k + 1)
    BY <2>2, <2>3, <2>4 DEF AppliedLinks, LinkAfter
  <2> QED
    BY <2>1, <2>5
<1>5. Len(q) \in T
  <2> HIDE DEF T
  <2>1. \A k \in 0..Len(q) : k \in T
    BY <1>1, <1>3, <1>4, UpTo
  <2> QED
    BY <1>1, <2>1
<1>6. FoldApplies(e, m, r, q) = it[Len(q)]
  BY <1>2 DEF AppliesTrace
<1> QED
  BY <1>5, <1>6

LEMMA ApplyNextFacts ==
  ASSUME NEW lg \in Seq(Events), NEW m \in 1..Len(lg), NEW r \in References
  PROVE  /\ ApplyNext(lg, r, m) \in References
         /\ \A l \in Links : LET x == ApplyNext(lg, r, m).link[l]
                             IN x \in {NoDoc, r.link[l]} \/ SubscribedBy(r, lg[m], l, x)
<1>1. lg[m] \in Events /\ m \in Nat
  OBVIOUS
<1>2. Held(r, lg[m]) \in Seq(Docs)
  BY <1>1, HeldFacts
<1> QED
  BY <1>1, <1>2, FoldAppliesFacts DEF ApplyNext, SubscribedBy

\* The holder of an aggregate got it from some event.
HeldFrom(lg, l, n, x) ==
  \E m \in 1..n : SubscribedBy(Reference(lg, m - 1), lg[m], l, x)

LEMMA ReferenceFacts ==
  ASSUME NEW lg \in Seq(Events)
  PROVE  \A n \in 0..Len(lg) :
           /\ Reference(lg, n) \in References
           /\ \A l \in Links : LET x == Reference(lg, n).link[l] IN x = NoDoc \/ HeldFrom(lg, l, n, x)
<1> DEFINE P(n) == /\ Reference(lg, n) \in References
                   /\ \A l \in Links : LET x == Reference(lg, n).link[l] IN x = NoDoc \/ HeldFrom(lg, l, n, x)
           T == {n \in Nat : P(n)}
<1>1. 0 \in T
  <2>1. Reference(lg, 0) = EmptyReference
    BY ReferenceSteps
  <2>2. NoTargets \in [Links -> Subscribers] /\ \A l \in Links : NoTargets[l] = NoDoc
    BY DEF NoTargets, Subscribers
  <2>3. [d \in Docs |-> <<>>] \in [Docs -> Seq(Nat)]
    OBVIOUS
  <2>4. /\ EmptyReference \in References
        /\ EmptyReference.link = NoTargets
    BY <2>2, <2>3 DEF EmptyReference, References
  <2> QED
    BY <2>1, <2>2, <2>4
<1>2. ASSUME NEW n \in Nat, n < Len(lg), n \in T PROVE n + 1 \in T
  <2> DEFINE r == Reference(lg, n)
             u == Reference(lg, n + 1)
  <2>1. n + 1 \in 1..Len(lg) /\ (n + 1) - 1 = n /\ n + 1 \in 1..(n + 1) /\ \A m \in 1..n : m \in 1..(n + 1)
    BY <1>2
  <2>2. P(n)
    BY <1>2
  <2>3. u = ApplyNext(lg, r, n + 1)
    BY ReferenceSteps
  <2>4. /\ u \in References
        /\ \A l \in Links : u.link[l] \in {NoDoc, r.link[l]} \/ SubscribedBy(r, lg[n + 1], l, u.link[l])
    <3> HIDE DEF u
    <3> QED
      BY <2>1, <2>2, <2>3, ApplyNextFacts
  <2>5. ASSUME NEW l \in Links PROVE u.link[l] = NoDoc \/ HeldFrom(lg, l, n + 1, u.link[l])
    <3> HIDE DEF u, r, T
    <3>1. r.link[l] = NoDoc \/ HeldFrom(lg, l, n, r.link[l])
      BY <2>2 DEF r
    <3>2. CASE u.link[l] = r.link[l]
      BY <2>1, <3>1, <3>2 DEF HeldFrom
    <3>3. CASE SubscribedBy(r, lg[n + 1], l, u.link[l])
      BY <2>1, <3>3 DEF HeldFrom, r
    <3> QED
      BY <2>4, <3>2, <3>3
  <2> QED
    BY <2>1, <2>4, <2>5
<1>3. \A n \in 0..Len(lg) : n \in T
  <2> HIDE DEF T
  <2>1. Len(lg) \in Nat
    OBVIOUS
  <2> QED
    BY <1>1, <1>2, <2>1, UpTo
<1> QED
  BY <1>3

-----------------------------------------------------------------------------
(* A staged batch against the reference.                                   *)

\* Who an aggregate is subscribed to once the batch is committed.
Effective(s, l) == IF s.adds[l] # NoDoc THEN s.adds[l] ELSE IF s.removes[l] # NoDoc THEN NoDoc ELSE link[l]

\* What is staged is the reference's, and an addition over a link, or a removal,
\* is of the document that holds it.
LinksAgree(s, f) ==
  \A l \in Links :
    /\ f[l] = Effective(s, l)
    /\ s.removes[l] = NoDoc /\ s.adds[l] # NoDoc => link[l] = NoDoc
    /\ s.removes[l] # NoDoc => link[l] \in {NoDoc, s.removes[l]}
Agrees(s, r) ==
  s \in StagedBatches /\ r \in References /\ s.content = r.content /\ LinksAgree(s, r.link)

LEMMA AgreesOne ==
  ASSUME NEW s, NEW r, Agrees(s, r), NEW n \in Nat, NEW d \in Docs, NEW e \in Events,
         link \in [Links -> Subscribers],
         e.op = "unsubscribe" => r.link[e.link] = d /\ link[e.link] \in {NoDoc, d}
  PROVE  Agrees(Stage(AddContent(s, d, Append(s.content[d], n)), e, d), ApplyOne(e, r, d, n))
<1> DEFINE t == AddContent(s, d, Append(s.content[d], n))
           u == Stage(t, e, d)
           v == ApplyOne(e, r, d, n)
<1>1. /\ s \in StagedBatches /\ r \in References /\ s.content = r.content
      /\ d \in Subscribers /\ d # NoDoc /\ NoDoc \in Subscribers
  BY DaemonAssumption DEF Agrees, Subscribers
<1>2. /\ t \in StagedBatches /\ t.adds = s.adds /\ t.removes = s.removes
      /\ t.content = [s.content EXCEPT ![d] = Append(@, n)]
  <2>1. /\ t = [content |-> [s.content EXCEPT ![d] = Append(@, n)], adds |-> s.adds,
                removes |-> s.removes, fresh |-> s.fresh]
        /\ t \in StagedBatches
    BY <1>1, ContentAppended
  <2> HIDE DEF t
  <2> QED
    BY <2>1
<1>3. u = Stage(t, e, d)
  OBVIOUS
<1>4. /\ u \in StagedBatches
      /\ u.content = [s.content EXCEPT ![d] = Append(@, n)]
  BY <1>2, StageFacts
<1>5. /\ v \in References
      /\ v.content = [r.content EXCEPT ![d] = Append(@, n)]
      /\ (e.op # "none" => e.link \in Links)
      /\ \A l \in Links : v.link[l] = LinkAfter(e, r, d, l)
  <2>0. r \in References /\ e \in Events /\ d \in Docs /\ n \in Nat
    BY <1>1
  <2>1. v \in References /\ v.content = [r.content EXCEPT ![d] = Append(@, n)]
    BY ONLY <2>0, ApplyOneFacts
  <2>2. (e.op # "none" => e.link \in Links)
    BY ONLY <2>0, ApplyOneFacts
  <2>3. AppliedLinks(e, r, d, v.link)
    BY ONLY <2>0, ApplyOneFacts
  <2> QED
    BY <2>1, <2>2, <2>3 DEF AppliedLinks
<1>6. \A l \in Links :
        /\ r.link[l] = Effective(s, l)
        /\ s.removes[l] = NoDoc /\ s.adds[l] # NoDoc => link[l] = NoDoc
        /\ s.removes[l] # NoDoc => link[l] \in {NoDoc, s.removes[l]}
        /\ s.adds[l] \in Subscribers /\ s.removes[l] \in Subscribers /\ link[l] \in Subscribers
  BY <1>1 DEF Agrees, LinksAgree, StagedBatches
<1>7. s.adds \in [Links -> Subscribers] /\ s.removes \in [Links -> Subscribers]
  BY <1>1 DEF StagedBatches
<1> HIDE DEF t
<1>16. t \in StagedBatches /\ e \in Events /\ d \in Docs /\ link \in [Links -> Subscribers]
  BY <1>2
<1>8. \A a, b : Restaged(t, a, b).adds = a /\ Restaged(t, a, b).removes = b
  BY DEF Restaged
<1>9. HolderOf(t, e.link) = HolderOf(s, e.link)
  BY <1>2 DEF HolderOf
<1>10. u.content = v.content
  BY <1>1, <1>4, <1>5
<1>11. SUFFICES LinksAgree(u, v.link)
  BY <1>4, <1>5, <1>10 DEF Agrees, t
<1>12. SUFFICES ASSUME NEW l \in Links
                PROVE  /\ v.link[l] = Effective(u, l)
                       /\ u.removes[l] = NoDoc /\ u.adds[l] # NoDoc => link[l] = NoDoc
                       /\ u.removes[l] # NoDoc => link[l] \in {NoDoc, u.removes[l]}
  BY DEF LinksAgree
<1>13. CASE e.op = "unsubscribe"
  <2>1. u = Restaged(t, [t.adds EXCEPT ![e.link] = NoDoc], [t.removes EXCEPT ![e.link] = d])
    <3> HIDE DEF u
    <3>1. Stage(t, e, d) = Restaged(t, [t.adds EXCEPT ![e.link] = NoDoc], [t.removes EXCEPT ![e.link] = d])
      BY ONLY <1>16, <1>13, StageCases
    <3> QED
      BY <1>3, <3>1
  <2>2. u.adds = [s.adds EXCEPT ![e.link] = NoDoc] /\ u.removes = [s.removes EXCEPT ![e.link] = d]
    BY <1>2, <1>8, <2>1
  <2> HIDE DEF u, v
  <2>3. CASE l = e.link
    BY <1>1, <1>5, <1>6, <1>7, <1>13, <2>2, <2>3 DEF Effective, LinkAfter
  <2>4. CASE l # e.link
    BY <1>5, <1>6, <1>7, <1>13, <2>2, <2>4 DEF Effective, LinkAfter
  <2> QED
    BY <2>3, <2>4
<1>14. CASE e.op = "subscribe"
  <2> DEFINE h == HolderOf(s, e.link)
             x == e.link
  <2>1. x \in Links /\ h \in Subscribers
    BY <1>5, <1>6, <1>14 DEF HolderOf
  <2>2. u = IF t.removes[x] # NoDoc \/ h = NoDoc THEN Restaged(t, [t.adds EXCEPT ![x] = d], t.removes)
            ELSE IF h = d THEN t
            ELSE Restaged(t, [t.adds EXCEPT ![x] = d], [t.removes EXCEPT ![x] = h])
    <3> HIDE DEF u
    <3>1. Stage(t, e, d) = IF t.removes[e.link] # NoDoc \/ HolderOf(t, e.link) = NoDoc
                             THEN Restaged(t, [t.adds EXCEPT ![e.link] = d], t.removes)
                           ELSE IF HolderOf(t, e.link) = d THEN t
                           ELSE Restaged(t, [t.adds EXCEPT ![e.link] = d],
                                         [t.removes EXCEPT ![e.link] = HolderOf(t, e.link)])
      BY ONLY <1>16, <1>14, StageCases
    <3> QED
      BY <1>3, <1>9, <3>1
  <2>3. /\ u.adds = IF s.removes[x] # NoDoc \/ h # d THEN [s.adds EXCEPT ![x] = d] ELSE s.adds
        /\ u.removes = IF s.removes[x] # NoDoc \/ h = NoDoc \/ h = d THEN s.removes ELSE [s.removes EXCEPT ![x] = h]
    <3> HIDE DEF u, h, x
    <3> QED
      BY <1>1, <1>2, <1>8, <2>2
  <2>4. h = IF s.adds[x] # NoDoc THEN s.adds[x] ELSE link[x]
    BY DEF HolderOf
  <2> HIDE DEF u, v, h
  <2>5. CASE l = x
    <3>1. v.link[l] = d
      BY <1>5, <1>14, <2>5 DEF LinkAfter
    <3>2. CASE s.removes[x] # NoDoc
      <4>1. u.adds[l] = d /\ u.removes[l] = s.removes[l]
        BY <1>7, <2>3, <2>5, <3>2
      <4> QED
        BY <1>1, <1>6, <2>5, <3>1, <3>2, <4>1 DEF Effective
    <3>3. CASE s.removes[x] = NoDoc /\ h = d
      <4>1. u.adds[l] = s.adds[l] /\ u.removes[l] = NoDoc
        BY <2>3, <2>5, <3>3
      <4> QED
        BY <1>1, <1>6, <2>4, <2>5, <3>1, <3>3, <4>1 DEF Effective
    <3>4. CASE s.removes[x] = NoDoc /\ h = NoDoc
      <4>1. u.adds[l] = d /\ u.removes[l] = NoDoc
        BY <1>1, <1>7, <2>3, <2>5, <3>4
      <4> QED
        BY <1>1, <1>6, <2>4, <2>5, <3>1, <3>4, <4>1 DEF Effective
    <3>5. CASE s.removes[x] = NoDoc /\ h # d /\ h # NoDoc
      <4>1. u.adds[l] = d /\ u.removes[l] = h
        BY <1>1, <1>7, <2>3, <2>5, <3>5
      <4>2. link[l] \in {NoDoc, h}
        BY <1>6, <2>4, <2>5, <3>5
      <4> QED
        BY <1>1, <3>1, <3>5, <4>1, <4>2 DEF Effective
    <3> QED
      BY <3>2, <3>3, <3>4, <3>5
  <2>6. CASE l # x
    <3>1. u.adds[l] = s.adds[l] /\ u.removes[l] = s.removes[l]
      BY <1>7, <2>3, <2>6
    <3>2. v.link[l] = r.link[l]
      BY <1>5, <1>14, <2>6 DEF LinkAfter
    <3> QED
      BY <1>6, <3>1, <3>2 DEF Effective
  <2> QED
    BY <2>5, <2>6
<1>15. CASE e.op \notin {"subscribe", "unsubscribe"}
  <2>1. u = t
    <3> HIDE DEF u
    <3>1. Stage(t, e, d) = t
      BY ONLY <1>16, <1>15, StageCases
    <3> QED
      BY <1>3, <3>1
  <2>2. u.adds = s.adds /\ u.removes = s.removes
    BY <1>2, <2>1
  <2> HIDE DEF u, v
  <2> QED
    BY <1>5, <1>6, <1>15, <2>2 DEF Effective, LinkAfter
<1> QED
  BY <1>13, <1>14, <1>15

\* Folding an event into its documents, staged and in the reference.
LEMMA AgreesTargets ==
  ASSUME NEW s, NEW r, Agrees(s, r), log \in Seq(Events), NEW n \in 1..Len(log),
         link \in [Links -> Subscribers], NEW q \in Seq(Docs), IsInjective(q),
         log[n].op = "unsubscribe" =>
           \A i \in 1..Len(q) : q[i] = r.link[log[n].link] /\ link[log[n].link] \in {NoDoc, q[i]}
  PROVE  Agrees(FoldTargets(n, s, q), FoldApplies(log[n], n, r, q))
<1>1. /\ DOMAIN q = 1..Len(q) /\ Len(q) \in Nat
      /\ \A i \in 1..Len(q) : q[i] \in Docs
      /\ \A i, j \in 1..Len(q) : q[i] = q[j] => i = j
  BY SeqFacts
<1>2. log[n] \in Events /\ n \in Nat
  OBVIOUS
<1>3. PICK it : TargetsTrace(it, n, s, Len(q), q)
  BY <1>1, TargetsFold
<1>4. PICK jt : AppliesTrace(jt, log[n], n, r, Len(q), q)
  BY <1>1, AppliesFold
<1> DEFINE T == {k \in Nat : Agrees(it[k], jt[k])}
<1>5. 0 \in T
  BY <1>3, <1>4 DEF TargetsTrace, AppliesTrace
<1>6. ASSUME NEW k \in Nat, k < Len(q), k \in T PROVE k + 1 \in T
  <2> DEFINE d == q[k + 1]
             t == it[k]
  <2>1. k + 1 \in 1..Len(q) /\ (k + 1) - 1 = k /\ d \in Docs
    BY <1>1, <1>6
  <2>2. it[k + 1] = FoldOne(t, d, n) /\ jt[k + 1] = ApplyOne(log[n], jt[k], d, n)
    BY <1>3, <1>4, <2>1 DEF TargetsTrace, AppliesTrace
  <2>3. Agrees(t, jt[k])
    BY <1>6
  <2>4. log[n].op = "unsubscribe" => jt[k].link[log[n].link] = d /\ link[log[n].link] \in {NoDoc, d}
    <3> SUFFICES ASSUME log[n].op = "unsubscribe"
                 PROVE  jt[k].link[log[n].link] = d /\ link[log[n].link] \in {NoDoc, d}
      OBVIOUS
    <3>1. 1 \in 1..Len(q) /\ q[1] = d
      BY <1>1, <2>1
    <3>2. k = 0
      BY <1>1, <2>1, <3>1
    <3>3. jt[k] = r
      BY <1>4, <3>2 DEF AppliesTrace
    <3> QED
      BY <2>1, <3>3
  <2> HIDE DEF d, t, T
  <2>5. Agrees(Stage(AddContent(t, d, Append(t.content[d], n)), log[n], d), ApplyOne(log[n], jt[k], d, n))
    BY <1>2, <2>1, <2>3, <2>4, AgreesOne
  <2>6. FoldOne(t, d, n) = Stage(AddContent(t, d, Append(t.content[d], n)), log[n], d)
    BY DEF FoldOne, AddContent
  <2>7. Agrees(it[k + 1], jt[k + 1])
    BY <2>2, <2>5, <2>6
  <2> QED
    BY <2>7 DEF T
<1>7. Len(q) \in T
  <2> HIDE DEF T
  <2>1. \A k \in 0..Len(q) : k \in T
    BY <1>1, <1>5, <1>6, UpTo
  <2> QED
    BY <1>1, <2>1
<1>8. FoldTargets(n, s, q) = it[Len(q)] /\ FoldApplies(log[n], n, r, q) = jt[Len(q)]
  BY <1>3, <1>4 DEF TargetsTrace, AppliesTrace
<1> QED
  BY <1>7, <1>8

\* The key of an event is staged beside its contents and links.
LEMMA AgreesFresh ==
  ASSUME NEW s, NEW r, Agrees(s, r), NEW n \in Nat
  PROVE  Agrees([s EXCEPT !.fresh = @ \cup {n}], r)
<1>1. /\ s = [content |-> s.content, adds |-> s.adds, removes |-> s.removes, fresh |-> s.fresh]
      /\ s.content \in [Docs -> Seq(Nat)] /\ s.adds \in [Links -> Subscribers]
      /\ s.removes \in [Links -> Subscribers] /\ s.fresh \in SUBSET Nat
  BY DEF Agrees, StagedBatches
<1> DEFINE t == [content |-> s.content, adds |-> s.adds, removes |-> s.removes, fresh |-> s.fresh \cup {n}]
<1>2. [s EXCEPT !.fresh = @ \cup {n}] = t
  <2>1. s \in StagedBatches
    BY DEF Agrees
  <2>2. ASSUME NEW u, u = [s EXCEPT !.fresh = @ \cup {n}] PROVE u = t
    BY ONLY <2>1, <2>2 DEF StagedBatches
  <2> QED
    BY <2>2
<1>3. t \in StagedBatches /\ t.content = s.content /\ t.adds = s.adds /\ t.removes = s.removes
  BY <1>1 DEF StagedBatches
<1> HIDE DEF t
<1>4. \A l \in Links : Effective(t, l) = Effective(s, l)
  BY <1>3 DEF Effective
<1>5. LinksAgree(t, r.link)
  BY <1>3, <1>4 DEF Agrees, LinksAgree
<1> QED
  BY <1>2, <1>3, <1>5 DEF Agrees

\* What makes a log orderly at an event.
OrderlyAt(lg, n) ==
  LET r == Reference(lg, n - 1) e == lg[n]
  IN /\ Joined(e) => r.link[e.via] # NoDoc
     /\ e.op = "unsubscribe" =>
          /\ \A i \in DOMAIN Held(r, e) : Held(r, e)[i] = r.link[e.link]
          /\ \A m \in 1 .. n - 1 : lg[m].op = "subscribe" /\ lg[m].link = e.link =>
               ToSet(Held(Reference(lg, m - 1), lg[m])) = {r.link[e.link]}

\* The next event of an orderly log, in a batch that agrees with the reference.
LEMMA AgreesEvent ==
  ASSUME log \in Seq(Events), NEW h \in Nat, h + 1 \in 1..Len(log), OrderlyAt(log, h + 1),
         NEW s, Agrees(s, Reference(log, h)), h + 1 \notin s.fresh \cup dedupe,
         NEW h0 \in 0..h, link = Reference(log, h0).link
  PROVE  /\ Agrees(FoldEvent(s, h + 1), Reference(log, h + 1))
         /\ FoldEvent(s, h + 1).fresh = s.fresh \cup {h + 1}
<1> DEFINE n == h + 1
           e == log[n]
           r == Reference(log, h)
           q == Held(r, e)
<1>1. /\ n \in 1..Len(log) /\ n \in Nat /\ n - 1 = h /\ e \in Events /\ h \in 0..Len(log) /\ h0 \in 0..Len(log)
      /\ \A m \in 1..h0 : m \in 1..(n - 1)
  OBVIOUS
<1>2. link \in [Links -> Subscribers]
  <2>1. Reference(log, h0) \in References
    BY <1>1, ReferenceFacts
  <2> QED
    BY <2>1 DEF References
<1>3. s \in StagedBatches /\ r \in References /\ LinksAgree(s, r.link)
  BY DEF Agrees
<1>4. Targets(s, e) = q
  <2>1. CASE ~Joined(e)
    BY <2>1 DEF Targets, Held
  <2>2. CASE Joined(e)
    <3>1. e.via \in Links
      BY <2>2 DEF Joined
    <3>2. r.link[e.via] = Effective(s, e.via)
      BY <1>3, <3>1 DEF LinksAgree
    <3> QED
      BY <2>2, <3>2 DEF Targets, Held, Effective
  <2> QED
    BY <2>1, <2>2
<1>5. q \in Seq(Docs) /\ IsInjective(q) /\ (q = <<>> <=> Joined(e) /\ r.link[e.via] = NoDoc)
  BY <1>1, <1>3, HeldFacts
<1>6. /\ Joined(e) => r.link[e.via] # NoDoc
      /\ e.op = "unsubscribe" =>
           /\ \A i \in DOMAIN q : q[i] = r.link[e.link]
           /\ \A m \in 1..(n - 1) : log[m].op = "subscribe" /\ log[m].link = e.link =>
                ToSet(Held(Reference(log, m - 1), log[m])) = {r.link[e.link]}
  BY <1>1 DEF OrderlyAt
<1>7. q # <<>>
  BY <1>5, <1>6
<1>8. DOMAIN q = 1..Len(q)
  BY <1>5
<1> HIDE DEF q, r, e
<1>9. e.op = "unsubscribe" => \A i \in 1..Len(q) : q[i] = r.link[e.link] /\ link[e.link] \in {NoDoc, q[i]}
  <2> SUFFICES ASSUME e.op = "unsubscribe", NEW i \in 1..Len(q)
               PROVE  q[i] = r.link[e.link] /\ link[e.link] \in {NoDoc, q[i]}
    OBVIOUS
  <2>1. q[i] = r.link[e.link]
    BY <1>6, <1>8
  <2>2. e.link \in Links
    BY <1>1, DaemonAssumption DEF Event
  <2>3. link[e.link] = NoDoc \/ HeldFrom(log, e.link, h0, link[e.link])
    BY <1>1, <2>2, ReferenceFacts
  <2>4. ASSUME HeldFrom(log, e.link, h0, link[e.link]) PROVE link[e.link] = q[i]
    <3>1. PICK m \in 1..h0 : SubscribedBy(Reference(log, m - 1), log[m], e.link, link[e.link])
      BY <2>4 DEF HeldFrom
    <3>2. ToSet(Held(Reference(log, m - 1), log[m])) = {r.link[e.link]}
      BY <1>1, <1>6, <3>1 DEF SubscribedBy
    <3> QED
      BY <2>1, <3>1, <3>2 DEF SubscribedBy
  <2> QED
    BY <2>1, <2>3, <2>4
<1>10. Agrees(FoldTargets(n, s, q), FoldApplies(e, n, r, q))
  <2>1. Agrees(s, r)
    BY DEF r
  <2>2. log[n].op = "unsubscribe" =>
          \A i \in 1..Len(q) : q[i] = r.link[log[n].link] /\ link[log[n].link] \in {NoDoc, q[i]}
    BY <1>9 DEF e
  <2>3. Agrees(FoldTargets(n, s, q), FoldApplies(log[n], n, r, q))
    BY <1>1, <1>2, <1>5, <2>1, <2>2, AgreesTargets
  <2> QED
    BY <2>3 DEF e
<1>11. Reference(log, n) = FoldApplies(e, n, r, q)
  <2>1. Reference(log, h + 1) = ApplyNext(log, Reference(log, h), h + 1)
    BY ReferenceSteps
  <2> QED
    BY <2>1 DEF ApplyNext, e, r, q
<1>12. ~Skipped(s, n)
  BY <1>4, <1>7 DEF Skipped, e
<1>13. /\ FoldEvent(s, n) = [FoldTargets(n, s, Targets(s, log[n])) EXCEPT !.fresh = @ \cup {n}]
       /\ FoldEvent(s, n).fresh = s.fresh \cup {n}
  BY <1>1, <1>2, <1>3, <1>12, FoldEventFacts
<1>14. FoldEvent(s, n) = [FoldTargets(n, s, q) EXCEPT !.fresh = @ \cup {n}]
  BY <1>4, <1>13 DEF e
<1>15. Agrees(FoldEvent(s, n), Reference(log, n))
  BY <1>1, <1>10, <1>11, <1>14, AgreesFresh
<1> QED
  BY <1>13, <1>15

-----------------------------------------------------------------------------
(* A whole batch of an orderly log.                                        *)

InStep(s, h) ==
  h \in 0..Len(log) /\ s.fresh \cup dedupe = 1..h /\ cursor <= h /\ Agrees(s, Reference(log, h))
StepsTo(s, batch, k) == \E h : InStep(s, h) /\ \A j \in 1..k : batch[j] <= h

\* What holds of the store before the batch, and after.
StoreInStep ==
  \E h \in 0..Len(log) : /\ dedupe = 1..h /\ cursor <= h
                         /\ doc = Reference(log, h).content /\ link = Reference(log, h).link
OrderlyLog == \A n \in 1..Len(log) : OrderlyAt(log, n)

LEMMA EventInStep ==
  ASSUME log \in Seq(Events), cursor \in Nat, OrderlyLog, StoreInStep, NEW s, NEW h, InStep(s, h),
         NEW n \in 1..Len(log), \A m \in 1..Len(log) : m < n => m <= h
  PROVE  \E h2 : InStep(FoldEvent(s, n), h2) /\ h <= h2 /\ n <= h2
<1>1. h \in 0..Len(log) /\ s.fresh \cup dedupe = 1..h /\ cursor <= h /\ Agrees(s, Reference(log, h))
      /\ h \in Nat /\ n \in Nat /\ Len(log) \in Nat
  BY DEF InStep
<1>2. CASE n <= h
  <2>1. n \in s.fresh \cup dedupe
    BY <1>1, <1>2
  <2>2. FoldEvent(s, n) = s
    BY <2>1 DEF FoldEvent
  <2> QED
    BY <1>1, <1>2, <2>2
<1>3. CASE ~ (n <= h)
  <2>1. n = h + 1
    <3>1. n - 1 \in 1..Len(log) => n - 1 <= h
      BY <1>1
    <3> QED
      BY <1>1, <1>3, <3>1
  <2>2. h + 1 \in 1..Len(log) /\ OrderlyAt(log, h + 1) /\ h + 1 \notin s.fresh \cup dedupe
    BY <1>1, <2>1 DEF OrderlyLog
  <2>3. PICK h0 \in 0..Len(log) : dedupe = 1..h0 /\ link = Reference(log, h0).link
    BY DEF StoreInStep
  <2>4. h0 \in 0..h
    <3>1. h0 \in 1..h0 => h0 \in 1..h
      BY <1>1, <2>3
    <3> QED
      BY <1>1, <2>3, <3>1
  <2>5. /\ Agrees(FoldEvent(s, h + 1), Reference(log, h + 1))
        /\ FoldEvent(s, h + 1).fresh = s.fresh \cup {h + 1}
    BY <1>1, <2>2, <2>3, <2>4, AgreesEvent
  <2>6. FoldEvent(s, h + 1).fresh \cup dedupe = 1..(h + 1)
    <3>1. FoldEvent(s, h + 1).fresh \cup dedupe = (1..h) \cup {h + 1}
      BY <1>1, <2>5
    <3> QED
      BY <1>1, <3>1
  <2>7. InStep(FoldEvent(s, h + 1), h + 1)
    BY <1>1, <2>2, <2>5, <2>6 DEF InStep
  <2> QED
    BY <1>1, <2>1, <2>7
<1> QED
  BY <1>2, <1>3

LEMMA EventsInStep ==
  ASSUME log \in Seq(Events), cursor \in Nat, OrderlyLog, StoreInStep, NEW batch, InSequence(batch),
         NEW s, StepsTo(s, batch, 0)
  PROVE  StepsTo(FoldEvents(s, batch), batch, Len(batch))
<1>1. /\ DOMAIN batch = 1..Len(batch) /\ Len(batch) \in Nat /\ Len(log) \in Nat
      /\ \A i \in 1..Len(batch) : batch[i] \in 1..Len(log)
  BY DEF InSequence
<1>2. PICK it : EventsTrace(it, s, Len(batch), batch)
  BY <1>1, EventsFold
<1> DEFINE T == {k \in Nat : StepsTo(it[k], batch, k)}
<1>3. 0 \in T
  BY <1>2 DEF EventsTrace
<1>4. ASSUME NEW k \in Nat, k < Len(batch), k \in T PROVE k + 1 \in T
  <2>1. /\ k + 1 \in 1..Len(batch) /\ (k + 1) - 1 = k /\ batch[k + 1] \in 1..Len(log)
        /\ \A j \in 1..(k + 1) : j \in 1..k \/ j = k + 1
        /\ \A j \in 1..Len(batch) : j < k + 1 => j \in 1..k
    BY <1>1, <1>4
  <2>2. it[k + 1] = FoldEvent(it[k], batch[k + 1])
    BY <1>2, <2>1 DEF EventsTrace
  <2>3. PICK h : InStep(it[k], h) /\ \A j \in 1..k : batch[j] <= h
    BY <1>4 DEF StepsTo
  <2>4. h \in Nat /\ cursor <= h
    BY <1>1, <2>3 DEF InStep
  <2>5. \A m \in 1..Len(log) : m < batch[k + 1] => m <= h
    <3> SUFFICES ASSUME NEW m \in 1..Len(log), m < batch[k + 1] PROVE m <= h
      OBVIOUS
    <3>1. m <= cursor \/ \E j \in 1..Len(batch) : j < k + 1 /\ batch[j] = m
      BY <2>1 DEF InSequence
    <3> QED
      BY <2>1, <2>3, <2>4, <3>1
  <2> HIDE DEF T
  <2>6. PICK h2 : InStep(FoldEvent(it[k], batch[k + 1]), h2) /\ h <= h2 /\ batch[k + 1] <= h2
    BY <2>1, <2>3, <2>5, EventInStep
  <2>7. h2 \in Nat
    BY <1>1, <2>6 DEF InStep
  <2>8. \A j \in 1..(k + 1) : batch[j] <= h2
    <3> SUFFICES ASSUME NEW j \in 1..(k + 1) PROVE batch[j] <= h2
      OBVIOUS
    <3>1. CASE j = k + 1
      BY <2>6, <3>1
    <3>2. CASE j \in 1..k
      <4>1. batch[j] <= h /\ batch[j] \in Nat
        BY <1>1, <1>4, <2>3, <3>2
      <4> QED
        BY <2>4, <2>6, <2>7, <4>1
    <3> QED
      BY <2>1, <3>1, <3>2
  <2>9. StepsTo(it[k + 1], batch, k + 1)
    BY <2>2, <2>6, <2>8 DEF StepsTo
  <2> QED
    BY <2>9 DEF T
<1>5. Len(batch) \in T
  <2> HIDE DEF T
  <2>1. \A k \in 0..Len(batch) : k \in T
    BY <1>1, <1>3, <1>4, UpTo
  <2> QED
    BY <1>1, <2>1
<1>6. FoldEvents(s, batch) = it[Len(batch)]
  BY <1>2 DEF EventsTrace
<1> QED
  BY <1>5, <1>6

LEMMA BatchInStep ==
  ASSUME log \in Seq(Events), cursor \in Nat, OrderlyLog, StoreInStep, NEW batch, InSequence(batch)
  PROVE  StepsTo(FoldBatch(batch), batch, Len(batch))
<1> DEFINE n == Len(batch) + 1
           q == [i \in 1..n |-> i]
<1>1. Len(batch) \in Nat /\ n \in Nat /\ DOMAIN q = 1..n
  BY DEF InSequence
<1>2. FoldBatch(batch) = FoldPasses(batch, Unstaged, q)
  BY DEF FoldBatch, FoldPasses, FoldEvents
<1>3. StepsTo(Unstaged, batch, 0)
  <2>1. PICK h \in 0..Len(log) : /\ dedupe = 1..h /\ cursor <= h
                                 /\ doc = Reference(log, h).content /\ link = Reference(log, h).link
    BY DEF StoreInStep
  <2>2. Reference(log, h) \in References
    BY <2>1, ReferenceFacts
  <2>3. /\ doc \in [Docs -> Seq(Nat)]
        /\ NoTargets \in [Links -> Subscribers] /\ \A l \in Links : NoTargets[l] = NoDoc
    BY <2>1, <2>2 DEF References, NoTargets, Subscribers
  <2>4. /\ Unstaged \in StagedBatches /\ Unstaged.content = doc /\ Unstaged.fresh = {}
        /\ Unstaged.adds = NoTargets /\ Unstaged.removes = NoTargets
    BY <2>3 DEF Unstaged, StagedBatches
  <2>5. LinksAgree(Unstaged, Reference(log, h).link)
    BY <2>1, <2>3, <2>4 DEF LinksAgree, Effective
  <2>6. Agrees(Unstaged, Reference(log, h))
    BY <2>1, <2>2, <2>4, <2>5 DEF Agrees
  <2>7. Unstaged.fresh \cup dedupe = 1..h
    BY <2>1, <2>4
  <2>8. InStep(Unstaged, h)
    BY <2>1, <2>6, <2>7 DEF InStep
  <2> QED
    BY <2>8 DEF StepsTo
<1> HIDE DEF q
<1>4. PICK it : PassesTrace(it, batch, Unstaged, n, q)
  BY <1>1, PassesFold
<1> HIDE DEF n
<1> DEFINE T == {k \in Nat : StepsTo(it[k], batch, 0) /\ (k # 0 => StepsTo(it[k], batch, Len(batch)))}
<1>5. 0 \in T
  BY <1>3, <1>4 DEF PassesTrace
<1>6. ASSUME NEW k \in Nat, k < n, k \in T PROVE k + 1 \in T
  <2>1. k + 1 \in 1..n /\ (k + 1) - 1 = k
    BY <1>1, <1>6
  <2>2. it[k + 1] = FoldEvents(it[k], batch)
    BY <1>4, <2>1 DEF PassesTrace
  <2>3. StepsTo(it[k], batch, 0)
    BY <1>6
  <2> HIDE DEF T
  <2>4. StepsTo(it[k + 1], batch, Len(batch))
    BY <2>2, <2>3, EventsInStep
  <2>5. StepsTo(it[k + 1], batch, 0)
    BY <2>4 DEF StepsTo
  <2> QED
    BY <2>1, <2>4, <2>5 DEF T
<1>7. n \in T /\ n # 0
  <2> HIDE DEF T
  <2>1. \A k \in 0..n : k \in T
    BY <1>1, <1>5, <1>6, UpTo
  <2> QED
    BY <1>1, <2>1 DEF n
<1>8. FoldBatch(batch) = it[n]
  BY <1>2, <1>4 DEF PassesTrace
<1> QED
  BY <1>7, <1>8

-----------------------------------------------------------------------------
(* With the in-memory store, an orderly log leaves what the reference does.  *)

LEMMA OrderlyIsLog == log \in Seq(Events) => (Orderly <=> OrderlyLog)
  BY OneByOneIsReference DEF Orderly, OrderlyLog, OrderlyAt

SequentialInv == StoreKind = "memory" /\ OrderlyLog => StoreInStep

LEMMA MemoryCommit ==
  ASSUME DaemonInv, StoreKind = "memory", OrderlyLog, StoreInStep, Commit
  PROVE  StoreInStep'
<1> DEFINE b == daemon.batch
           s == FoldBatch(b)
<1>1. /\ log \in Seq(Events) /\ cursor \in Nat /\ b # <<>> /\ InSequence(b) /\ Len(log) \in Nat
      /\ link \in [Links -> Subscribers]
  BY DEF DaemonInv, DaemonTypeOK, BatchInHand, Commit
<1>2. StepsTo(s, b, Len(b))
  BY <1>1, BatchInStep
<1>3. /\ doc' = s.content /\ dedupe' = dedupe \cup s.fresh /\ cursor' = Last(b) /\ log' = log
      /\ link' = MemoryLinks(s)
  BY DEF Commit
<1> HIDE DEF s
<1>4. PICK h : InStep(s, h) /\ \A j \in 1..Len(b) : b[j] <= h
  BY <1>2 DEF StepsTo
<1>5. cursor' <= h
  <2> HIDE DEF b
  <2>1. b \in Seq(1..Len(log))
    BY <1>1 DEF InSequence
  <2>2. Len(b) \in 1..Len(b) /\ Last(b) = b[Len(b)]
    BY <1>1, <2>1 DEF Last
  <2> QED
    BY <1>3, <1>4, <2>2
<1>6. /\ h \in 0..Len(log) /\ dedupe' = 1..h /\ Agrees(s, Reference(log, h))
      /\ doc' = Reference(log, h).content
  BY <1>3, <1>4 DEF InStep, Agrees
<1>7. link' = Reference(log, h).link
  <2> DEFINE f == Reference(log, h).link
  <2>1. f \in [Links -> Subscribers] /\ LinksAgree(s, f)
    BY <1>6 DEF Agrees, References
  <2>2. \A l \in Links : s.adds[l] \in Subscribers /\ s.removes[l] \in Subscribers
    BY <1>6 DEF Agrees, StagedBatches
  <2> HIDE DEF f
  <2>3. ASSUME NEW l \in Links PROVE MemoryLinks(s)[l] = f[l]
    BY <1>1, <2>1, <2>2 DEF MemoryLinks, LinksAgree, Effective
  <2>4. MemoryLinks(s) \in [Links -> Subscribers]
    BY <1>1, <2>2 DEF MemoryLinks, Subscribers
  <2>5. MemoryLinks(s) = f
    BY <2>1, <2>3, <2>4
  <2> QED
    BY <1>3, <2>5 DEF f
<1> QED
  BY <1>3, <1>5, <1>6, <1>7 DEF StoreInStep

\* A longer log is orderly only if it was before, and its reference goes on.
LEMMA SequentialGrows ==
  ASSUME DaemonInv, SequentialInv, NEW e \in Events, Appended(e)
  PROVE  SequentialInv'
<1>1. /\ log \in Seq(Events) /\ log' = Append(log, e)
      /\ doc' = doc /\ link' = link /\ dedupe' = dedupe /\ cursor' = cursor
  BY DEF Appended, DaemonInv, DaemonTypeOK, store
<1>2. /\ Len(log') = Len(log) + 1 /\ Len(log) \in Nat
      /\ \A n \in 1..Len(log) : log'[n] = log[n] /\ n \in 1..Len(log') /\ n - 1 \in 0..Len(log)
      /\ \A n \in 0..Len(log) : n \in 0..Len(log')
  BY <1>1
<1>3. \A k \in 0..Len(log) : Reference(log', k) = Reference(log, k)
  BY <1>2, ReferenceOfPrefix
<1>4. SUFFICES ASSUME StoreKind = "memory", OrderlyLog' PROVE StoreInStep'
  BY DEF SequentialInv
<1>5. OrderlyLog
  <2> SUFFICES ASSUME NEW n \in 1..Len(log) PROVE OrderlyAt(log, n)
    BY DEF OrderlyLog
  <2>0. n \in 1..Len(log')
    BY <1>2
  <2>1. OrderlyAt(log', n)
    BY <1>4, <2>0 DEF OrderlyLog
  <2>2. /\ log'[n] = log[n] /\ Reference(log', n - 1) = Reference(log, n - 1)
        /\ \A m \in 1..(n - 1) : log'[m] = log[m] /\ Reference(log', m - 1) = Reference(log, m - 1)
    <3>1. \A m \in 1..(n - 1) : m \in 1..Len(log)
      BY <1>2
    <3> QED
      BY <1>2, <1>3, <3>1
  <2> QED
    BY <2>1, <2>2 DEF OrderlyAt
<1>6. PICK h \in 0..Len(log) : /\ dedupe = 1..h /\ cursor <= h
                               /\ doc = Reference(log, h).content /\ link = Reference(log, h).link
  BY <1>4, <1>5 DEF SequentialInv, StoreInStep
<1> QED
  BY <1>1, <1>2, <1>3, <1>6 DEF StoreInStep

LEMMA SequentialInit == Init => SequentialInv
<1> SUFFICES ASSUME Init PROVE StoreInStep
  BY DEF SequentialInv
<1>1. /\ Len(log) = 0 /\ dedupe = {} /\ cursor = 0
      /\ doc = [d \in Docs |-> <<>>] /\ link = NoTargets
  BY DEF Init
<1>2. Reference(log, 0) = EmptyReference /\ 1..0 = {} /\ 0 \in 0..Len(log) /\ cursor <= 0
  BY <1>1, ReferenceSteps
<1>3. EmptyReference.content = [d \in Docs |-> <<>>] /\ EmptyReference.link = NoTargets
  BY DEF EmptyReference
<1> QED
  BY <1>1, <1>2, <1>3 DEF StoreInStep

LEMMA SequentialStep == DaemonInv /\ SequentialInv /\ [Next]_vars => SequentialInv'
<1> SUFFICES ASSUME DaemonInv, SequentialInv, [Next]_vars PROVE SequentialInv'
  OBVIOUS
<1>1. ASSUME log' = log, doc' = doc, link' = link, dedupe' = dedupe, cursor' = cursor
      PROVE  SequentialInv'
  BY <1>1 DEF SequentialInv, OrderlyLog, StoreInStep
<1>2. CASE \E e \in Events : Appended(e)
  BY <1>2, SequentialGrows
<1>3. CASE Commit
  <2>1. log' = log
    BY <1>3 DEF Commit
  <2>2. OrderlyLog' => OrderlyLog
    BY <2>1 DEF OrderlyLog
  <2> QED
    BY <1>3, <2>2, MemoryCommit DEF SequentialInv
<1>4. CASE Start \/ Stops \/ PollReady
  BY <1>1, <1>4 DEF Start, Stops, PollReady, ToPersist, store
<1>5. CASE PollCatchUp
  BY <1>1, <1>5 DEF PollCatchUp, ToPersist, Polled, store
<1>6. CASE PollLive
  BY <1>1, <1>6 DEF PollLive, Polled, store
<1>7. CASE PersistMode
  BY <1>1, <1>7 DEF PersistMode
<1>8. CASE UNCHANGED vars
  BY <1>1, <1>8 DEF vars, store
<1> QED
  BY <1>2, <1>3, <1>4, <1>5, <1>6, <1>7, <1>8 DEF Next

LEMMA StepsAreSequential ==
  ASSUME DaemonInv, SequentialInv, StoreKind = "memory"
  PROVE  SequentialFold
<1>1. log \in Seq(Events)
  BY DEF DaemonInv, DaemonTypeOK
<1> SUFFICES ASSUME Orderly
             PROVE  LET r == OneByOne(Cardinality(dedupe)) IN doc = r.content /\ link = r.link
  BY DEF SequentialFold
<1>2. PICK h \in 0..Len(log) : /\ dedupe = 1..h
                               /\ doc = Reference(log, h).content /\ link = Reference(log, h).link
  BY <1>1, OrderlyIsLog DEF SequentialInv, StoreInStep
<1>3. Cardinality(dedupe) = h
  <2>1. h \in Nat
    BY <1>2
  <2>2. Cardinality(1..h) = IF 1 > h THEN 0 ELSE h - 1 + 1
    BY <2>1, FS_Interval
  <2> QED
    BY <1>2, <2>1, <2>2
<1> QED
  BY <1>2, <1>3, OneByOneIsReference

\* With the in-memory store, across overlap, redelivery, cutover and restarts,
\* every event is folded once, in order and without a gap, and an orderly log
\* leaves the documents and links its events leave one at a time, however it
\* was cut into batches.
THEOREM FoldsFollowAnyLog ==
  ASSUME StoreKind = "memory"
  PROVE  Spec => []FoldsFollowTheLog
<1>1. Init => DaemonInv /\ SequentialInv
  BY DaemonInit, SequentialInit
<1>2. DaemonInv /\ SequentialInv /\ [Next]_vars => (DaemonInv /\ SequentialInv)'
  BY DaemonStep, SequentialStep
<1>3. DaemonInv /\ SequentialInv => FoldsFollowTheLog
  BY KeptIsFoldedOnce, StepsAreSequential DEF FoldsFollowTheLog
<1> QED
  BY <1>1, <1>2, <1>3, PTL DEF Spec
=============================================================================
