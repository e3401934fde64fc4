-------------------------- MODULE ProjectionProofs ---------------------------
(***************************************************************************)
(* Proofs about ProjectionRouter, for any routes, aggregates and targets,    *)
(* about AtomicMany, for any batches, writes and documents, about            *)
(* WorkerCore, for any feed, targets, batch modes, cache and polls, and      *)
(* about LegacyProjection, for any feed, documents and batch size.           *)
(***************************************************************************)
EXTENDS ProjectionRouter, AtomicMany, WorkerCore, LegacyProjection, FiniteSetTheorems, SequenceTheorems,
        WellFoundedInduction, TLAPS

-----------------------------------------------------------------------------
(* The inductive invariant.                                                *)

Mutation == [op : {"add", "remove"}, source : LinkSources, target : LinkTargets]

Targets == SUBSET LinkTargets
Call == [phase : {"new", "mutating", "checking", "done"}, todo : Seq(Mutation),
         targets : Seq(LinkTargets), kept : Seq(LinkTargets), missing : Targets,
         unlinked : Nat, always : Targets, ever : Targets, present : Targets, seen : Targets]

RouterTypeOK ==
  /\ linkTable \in [LinkSources -> Targets]
  /\ existing \in Targets
  /\ mutated \in Seq(Mutation)
  /\ routing \in [Routes -> Call]

\* The link store holds what the mutations say, and finitely many links.
LinksHold == \A s \in LinkSources :
  linkTable[s] = LinkedBy(mutated, s) /\ IsFiniteSet(linkTable[s])

InHand(c) == c.phase \in {"mutating", "checking"}
Answers(r) == RouteOf[r].own \/ RouteOf[r].joins
LinksOf(r, links) == IF RouteOf[r].joins THEN links ELSE {}
Checked(c) == Len(c.kept) + Cardinality(c.missing)

\* What a call has watched, against the links and the targets there are.
WatchHolds(c, linkedTo, there) ==
  InHand(c) => /\ c.always \subseteq linkedTo /\ linkedTo \subseteq c.ever
               /\ c.present \subseteq there /\ there \subseteq c.seen

Untried(c) == c.phase \in {"new", "mutating"} => c.kept = <<>> /\ c.missing = {}

\* A call that has its targets has each of them once, no more of them than
\* were named or linked and no fewer, and has checked them in turn.
Resolved(r, c) ==
  /\ \A i, j \in 1..Len(c.targets) : c.targets[i] = c.targets[j] => i = j
  /\ RouteOf[r].named \cup LinksOf(r, c.always) \subseteq ToSet(c.targets)
  /\ ToSet(c.targets) \subseteq RouteOf[r].named \cup LinksOf(r, c.ever)

InTurn(c) ==
  /\ IsFiniteSet(c.missing)
  /\ c.phase = "checking" => Checked(c) < Len(c.targets)
  /\ c.phase = "done" => Checked(c) = Len(c.targets)
  /\ \A t : t \in ToSet(c.kept) \cup c.missing <=> \E i \in 1..Checked(c) : t = c.targets[i]

Sorted(c) == ToSet(c.kept) \subseteq c.seen /\ c.missing \cap c.present = {}

CallHolds(r, c) ==
  /\ c \in Call /\ Untried(c) /\ (InHand(c) => Answers(r))
  /\ c.phase \in {"checking", "done"} /\ Answers(r) => Resolved(r, c) /\ InTurn(c) /\ Sorted(c)

RouterIInv ==
  /\ RouterTypeOK /\ LinksHold
  /\ \A r \in Routes :
       /\ CallHolds(r, routing[r])
       /\ WatchHolds(routing[r], LinkedBy(mutated, RouteOf[r].source), existing)

-----------------------------------------------------------------------------
(* The operators.                                                          *)

(* A finite set put in a sequence is there as a whole, each element once.   *)
LEMMA SetAsSequence ==
  ASSUME NEW S, IsFiniteSet(S)
  PROVE  /\ SetToSeq(S) \in Seq(S) /\ Len(SetToSeq(S)) = Cardinality(S)
         /\ \A i, j \in 1..Len(SetToSeq(S)) : SetToSeq(S)[i] = SetToSeq(S)[j] => i = j
         /\ ToSet(SetToSeq(S)) = S
<1> DEFINE n == Cardinality(S)
           q == SetToSeq(S)
<1>1. n \in Nat /\ ExistsBijection(1..n, S)
  BY FS_CardinalityType
<1>2. \E f \in [1..n -> S] : IsInjective(f)
  BY <1>1 DEF ExistsBijection, Bijection, Injection
<1>3. q \in [1..n -> S] /\ IsInjective(q)
  BY <1>2 DEF SetToSeq
<1>4. IsFiniteSet(1..n) /\ Cardinality(1..n) = n
  BY <1>1, FS_Interval
<1> HIDE DEF q, n
<1>5. q \in Surjection(1..n, S)
  <2>1. q \in Injection(1..n, S)
    BY <1>3 DEF Injection
  <2> QED
    BY <2>1, <1>4, FS_Injection DEF n
<1>6. q \in Seq(S) /\ Len(q) = n
  BY <1>1, <1>3
<1>7. \A i, j \in 1..Len(q) : q[i] = q[j] => i = j
  BY <1>3, <1>6 DEF IsInjective
<1>8. ToSet(q) = S
  BY <1>3, <1>5 DEF ToSet, Surjection
<1> QED
  BY <1>6, <1>7, <1>8 DEF q, n

(* One more mutation changes the links of its own aggregate and target.      *)
LEMMA MutationAppended ==
  ASSUME NEW mu \in Seq(Mutation), NEW m \in Mutation, NEW s \in LinkSources
  PROVE  LinkedBy(Append(mu, m), s) =
           IF m.source # s THEN LinkedBy(mu, s)
           ELSE IF m.op = "add" THEN LinkedBy(mu, s) \cup {m.target}
                ELSE LinkedBy(mu, s) \ {m.target}
<1> DEFINE more == Append(mu, m)
           add(t) == [op |-> "add", source |-> s, target |-> t]
           remove(t) == [op |-> "remove", source |-> s, target |-> t]
           linkedTo(l, t) == \E i \in 1..Len(l) : l[i] = add(t) /\ \A j \in i..Len(l) : l[j] # remove(t)
<1>1. /\ more \in Seq(Mutation) /\ Len(more) = Len(mu) + 1 /\ Len(mu) \in Nat
      /\ \A i \in 1..Len(mu) : more[i] = mu[i]
      /\ more[Len(mu) + 1] = m
  OBVIOUS
<1>2. /\ LinkedBy(more, s) = {t \in LinkTargets : linkedTo(more, t)}
      /\ LinkedBy(mu, s) = {t \in LinkTargets : linkedTo(mu, t)}
  BY <1>1 DEF LinkedBy
<1>3. \A t \in LinkTargets : add(t) # remove(t)
  OBVIOUS
<1>4. ASSUME NEW t \in LinkTargets
      PROVE  /\ m = add(t) <=> m.op = "add" /\ m.source = s /\ m.target = t
             /\ m = remove(t) <=> m.op = "remove" /\ m.source = s /\ m.target = t
  <2>1. m \in [op : {"add", "remove"}, source : LinkSources, target : LinkTargets]
    BY DEF Mutation
  <2> QED
    BY <2>1
<1> HIDE DEF more, add, remove
<1>5. ASSUME NEW t \in LinkTargets
      PROVE  linkedTo(more, t) <=> m = add(t) \/ (linkedTo(mu, t) /\ m # remove(t))
  <2>1. ASSUME m = add(t) PROVE linkedTo(more, t)
    <3>1. Len(mu) + 1 \in 1..Len(more) /\ more[Len(mu) + 1] = add(t)
      BY <2>1, <1>1
    <3>2. \A j \in Len(mu) + 1 .. Len(more) : more[j] # remove(t)
      <4>1. \A j \in Len(mu) + 1 .. Len(more) : j = Len(mu) + 1
        BY <1>1
      <4> QED
        BY <4>1, <3>1, <1>3
    <3> QED
      BY <3>1, <3>2
  <2>2. ASSUME linkedTo(mu, t), m # remove(t) PROVE linkedTo(more, t)
    <3>1. PICK i \in 1..Len(mu) : mu[i] = add(t) /\ \A j \in i..Len(mu) : mu[j] # remove(t)
      BY <2>2
    <3>2. i \in 1..Len(more) /\ more[i] = add(t)
      BY <3>1, <1>1
    <3>3. ASSUME NEW j \in i..Len(more) PROVE more[j] # remove(t)
      <4>1. CASE j = Len(mu) + 1
        BY <4>1, <1>1, <2>2
      <4>2. CASE j # Len(mu) + 1
        BY <4>2, <3>1, <1>1
      <4> QED
        BY <4>1, <4>2
    <3> QED
      BY <3>2, <3>3
  <2>3. ASSUME linkedTo(more, t), m # add(t) PROVE linkedTo(mu, t) /\ m # remove(t)
    <3>1. PICK i \in 1..Len(more) : more[i] = add(t) /\ \A j \in i..Len(more) : more[j] # remove(t)
      BY <2>3
    <3>2. i \in 1..Len(mu)
      BY <3>1, <2>3, <1>1
    <3>3. mu[i] = add(t) /\ \A j \in i..Len(mu) : mu[j] # remove(t)
      BY <3>1, <3>2, <1>1
    <3>4. m # remove(t)
      BY <3>1, <3>2, <1>1
    <3> QED
      BY <3>2, <3>3, <3>4
  <2> QED
    BY <2>1, <2>2, <2>3
<1> HIDE DEF linkedTo
<1>6. m.op \in {"add", "remove"} /\ m.target \in LinkTargets
  BY DEF Mutation
<1>7. CASE m.source # s
  BY <1>2, <1>4, <1>5, <1>7 DEF more
<1>8. CASE m.source = s /\ m.op = "add"
  <2>1. \A t \in LinkTargets : linkedTo(more, t) <=> t = m.target \/ linkedTo(mu, t)
    BY <1>4, <1>5, <1>8
  <2> QED
    BY <2>1, <1>2, <1>6, <1>8 DEF more
<1>9. CASE m.source = s /\ m.op = "remove"
  <2>1. \A t \in LinkTargets : linkedTo(more, t) <=> t # m.target /\ linkedTo(mu, t)
    BY <1>4, <1>5, <1>9
  <2> QED
    BY <2>1, <1>2, <1>6, <1>9 DEF more
<1> QED
  BY <1>6, <1>7, <1>8, <1>9

-----------------------------------------------------------------------------
(* The steps.                                                              *)

WatchedCall(c, linkedTo, there) ==
  IF c.phase \in {"new", "done"} THEN c
  ELSE [c EXCEPT !.always = @ \cap linkedTo, !.ever = @ \cup linkedTo,
                 !.present = @ \cap there, !.seen = @ \cup there]

(* Whatever a call has watched, it goes on watching, and what it has resolved *)
(* and checked stays so.                                                      *)
LEMMA CallWatches ==
  ASSUME NEW r \in Routes, NEW c, CallHolds(r, c), NEW linkedTo \in Targets, NEW there \in Targets
  PROVE  LET w == WatchedCall(c, linkedTo, there)
         IN CallHolds(r, w) /\ WatchHolds(w, linkedTo, there)
<1> DEFINE w == WatchedCall(c, linkedTo, there)
<1>1. CASE c.phase \in {"new", "done"}
  BY <1>1 DEF WatchedCall, WatchHolds, InHand
<1>2. CASE c.phase \notin {"new", "done"}
  <2>0. c \in Call /\ c.phase \in {"mutating", "checking"}
    BY <1>2 DEF CallHolds, Call
  <2>1. w = [c EXCEPT !.always = @ \cap linkedTo, !.ever = @ \cup linkedTo,
                      !.present = @ \cap there, !.seen = @ \cup there]
    BY <1>2 DEF WatchedCall
  <2>2. w \in Call
    BY ZenonT(60), <2>0, <2>1 DEF Call, Targets
  <2>3. /\ w.phase = c.phase /\ w.targets = c.targets /\ w.kept = c.kept /\ w.missing = c.missing
        /\ w.always = c.always \cap linkedTo /\ w.ever = c.ever \cup linkedTo
        /\ w.present = c.present \cap there /\ w.seen = c.seen \cup there
    BY <2>0, <2>1 DEF Call
  <2> HIDE DEF w
  <2>4. WatchHolds(w, linkedTo, there)
    BY <2>3 DEF WatchHolds
  <2>5. Untried(w)
    BY <2>3 DEF CallHolds, Untried
  <2>7. InHand(w) => Answers(r)
    BY <2>3 DEF CallHolds, InHand
  <2>6. ASSUME w.phase \in {"checking", "done"}, Answers(r)
        PROVE  Resolved(r, w) /\ InTurn(w) /\ Sorted(w)
    <3>1. Resolved(r, c) /\ InTurn(c) /\ Sorted(c)
      BY <2>3, <2>6 DEF CallHolds
    <3>2. Resolved(r, w)
      BY <2>3, <3>1 DEF Resolved, LinksOf
    <3>3. InTurn(w)
      BY <2>3, <3>1 DEF InTurn, Checked
    <3>4. Sorted(w)
      BY <2>3, <3>1 DEF Sorted
    <3> QED
      BY <3>2, <3>3, <3>4
  <2>8. CallHolds(r, w)
    BY <2>2, <2>5, <2>6, <2>7 DEF CallHolds
  <2> QED
    BY <2>4, <2>8 DEF w
<1> QED
  BY <1>1, <1>2

(* A call moves on, and every call watches.                                  *)
LEMMA RouteMoves ==
  ASSUME RouterIInv, NEW calls, calls \in [Routes -> Call], \A r \in Routes : CallHolds(r, calls[r]),
         routing' = Watched(calls), existing' \in Targets, mutated' \in Seq(Mutation),
         linkTable' \in [LinkSources -> Targets], LinksHold'
  PROVE  RouterIInv'
<1> PICK mu \in Seq(Mutation) : mu = mutated'
  OBVIOUS
<1> PICK ex \in Targets : ex = existing'
  OBVIOUS
<1> DEFINE linkedTo(r) == LinkedBy(mu, RouteOf[r].source)
<1>1. \A r \in Routes : linkedTo(r) \in Targets
  BY DEF LinkedBy, Targets
<1>2. \A r \in Routes : routing'[r] = WatchedCall(calls[r], linkedTo(r), ex)
  BY DEF Watched, WatchedCall
<1>3. routing' = [r \in Routes |-> routing'[r]]
  BY DEF Watched
<1> HIDE DEF linkedTo
<1>4. ASSUME NEW r \in Routes
      PROVE  CallHolds(r, routing'[r]) /\ WatchHolds(routing'[r], linkedTo(r), ex)
  BY <1>1, <1>2, CallWatches
<1>5. routing' \in [Routes -> Call]
  BY <1>3, <1>4 DEF CallHolds
<1>6. RouterTypeOK'
  BY <1>5 DEF RouterTypeOK
<1> QED
  BY <1>4, <1>6 DEF RouterIInv, linkedTo

LEMMA CallMoves ==
  ASSUME RouterIInv, NEW r \in Routes, NEW c, CallHolds(r, c), Moves(r, c),
         existing' \in Targets, mutated' \in Seq(Mutation),
         linkTable' \in [LinkSources -> Targets], LinksHold'
  PROVE  RouterIInv'
<1> DEFINE calls == [routing EXCEPT ![r] = c]
<1>1. routing \in [Routes -> Call] /\ c \in Call /\ \A q \in Routes : CallHolds(q, routing[q])
  BY DEF RouterIInv, RouterTypeOK, CallHolds
<1>2. calls \in [Routes -> Call] /\ \A q \in Routes : CallHolds(q, calls[q])
  BY <1>1
<1>3. routing' = Watched(calls)
  BY DEF Moves
<1> HIDE DEF calls
<1> QED
  BY <1>2, <1>3, RouteMoves

(* A call that watches anew is a call as before.                             *)
LEMMA AnewIsACall ==
  ASSUME NEW c \in Call
  PROVE  /\ WatchesAnew(c) \in Call /\ WatchesAnew(c).phase = c.phase
         /\ WatchesAnew(c).kept = c.kept /\ WatchesAnew(c).missing = c.missing
BY DEF WatchesAnew, Call, Targets

LEMMA BeginsKeeps ==
  ASSUME RouterIInv, NEW r \in Routes, RouteBegins(r) PROVE RouterIInv'
<1> USE RouterAssumption
<1> DEFINE c == routing[r]
           begun == [WatchesAnew(c) EXCEPT !.phase = "mutating", !.todo = RouteOf[r].mutations]
           ended == [c EXCEPT !.phase = "done"]
<1>1. c \in Call /\ c.phase = "new" /\ Untried(c)
  BY DEF RouterIInv, RouterTypeOK, RouteBegins, CallHolds
<1>2. /\ existing' \in Targets /\ mutated' \in Seq(Mutation)
      /\ linkTable' \in [LinkSources -> Targets] /\ LinksHold'
  BY DEF RouterIInv, RouterTypeOK, RouteBegins, LinksHold
<1>3. CASE Answers(r)
  <2>1. Moves(r, begun)
    BY <1>3 DEF RouteBegins, Answers
  <2>2. begun \in Call /\ begun.phase = "mutating" /\ begun.kept = <<>> /\ begun.missing = {}
    <3>1. RouteOf[r].mutations \in Seq(Mutation)
      BY DEF Mutation
    <3>2. WatchesAnew(c) \in Call /\ WatchesAnew(c).kept = <<>> /\ WatchesAnew(c).missing = {}
      BY <1>1, AnewIsACall DEF Untried
    <3> QED
      BY <3>1, <3>2 DEF Call
  <2> HIDE DEF begun
  <2>3. CallHolds(r, begun)
    BY <1>3, <2>2 DEF CallHolds, Untried
  <2> QED
    BY <1>2, <2>1, <2>3, CallMoves
<1>4. CASE ~Answers(r)
  <2>1. Moves(r, ended)
    BY <1>4 DEF RouteBegins, Answers
  <2>2. ended \in Call /\ ended.phase = "done"
    BY <1>1 DEF Call
  <2> HIDE DEF ended
  <2>3. CallHolds(r, ended)
    BY <1>4, <2>2 DEF CallHolds, Untried, InHand
  <2> QED
    BY <1>2, <2>1, <2>3, CallMoves
<1> QED
  BY <1>3, <1>4

LEMMA MutateKeeps ==
  ASSUME RouterIInv, NEW r \in Routes, Mutate(r) PROVE RouterIInv'
<1> DEFINE c == routing[r]
           m == Head(c.todo)
           after == [WatchesAnew(c) EXCEPT !.todo = Tail(@)]
           counted == [after EXCEPT !.unlinked = @ + 1]
<1>1. /\ c \in Call /\ c.phase = "mutating" /\ Untried(c) /\ Answers(r)
      /\ c.todo \in Seq(Mutation) /\ c.todo # <<>>
  BY DEF RouterIInv, RouterTypeOK, Mutate, CallHolds, InHand, Call
<1>2. m \in Mutation /\ Tail(c.todo) \in Seq(Mutation)
  BY <1>1
<1>3. after \in Call /\ counted \in Call
  <2>1. WatchesAnew(c) \in Call /\ WatchesAnew(c).todo = c.todo
    BY <1>1, AnewIsACall DEF WatchesAnew, Call
  <2>2. after = [WatchesAnew(c) EXCEPT !.todo = Tail(c.todo)]
    BY <2>1
  <2>3. after \in Call
    BY <1>2, <2>1, <2>2 DEF Call
  <2> HIDE DEF after
  <2> QED
    BY SMTT(60), <2>3 DEF Call
<1>4. \A x \in {after, counted} : x.phase = "mutating" /\ x.kept = <<>> /\ x.missing = {}
  <2>1. /\ WatchesAnew(c) \in Call /\ WatchesAnew(c).phase = "mutating"
        /\ WatchesAnew(c).kept = <<>> /\ WatchesAnew(c).missing = {}
    BY <1>1, AnewIsACall DEF Untried
  <2>2. after.phase = "mutating" /\ after.kept = <<>> /\ after.missing = {}
    BY <2>1 DEF Call
  <2> HIDE DEF after
  <2> QED
    BY <1>3, <2>2 DEF Call
<1>5. PICK x \in {after, counted} : Moves(r, x)
  BY DEF Mutate
<1> HIDE DEF after, counted
<1>6. CallHolds(r, x)
  BY <1>1, <1>3, <1>4 DEF CallHolds, Untried, InHand
<1>7. /\ linkTable \in [LinkSources -> Targets] /\ mutated \in Seq(Mutation)
      /\ mutated' = Append(mutated, m) /\ existing' \in Targets
      /\ linkTable' = IF m.op = "add" THEN AddLink(linkTable, m) ELSE RemoveLink(linkTable, m)
  BY DEF RouterIInv, RouterTypeOK, Mutate
<1>8. m.op \in {"add", "remove"} /\ m.source \in LinkSources /\ m.target \in LinkTargets
  BY <1>2 DEF Mutation
<1>9. mutated' \in Seq(Mutation)
  BY <1>2, <1>7
<1> HIDE DEF m
<1>10. \A s \in LinkSources : linkTable'[s] =
         IF m.source # s THEN linkTable[s]
         ELSE IF m.op = "add" THEN linkTable[s] \cup {m.target} ELSE linkTable[s] \ {m.target}
  BY <1>7, <1>8 DEF AddLink, RemoveLink
<1>11. linkTable' \in [LinkSources -> Targets]
  BY <1>7, <1>8 DEF AddLink, RemoveLink, Targets
<1>12. \A s \in LinkSources : LinkedBy(mutated', s) =
         IF m.source # s THEN LinkedBy(mutated, s)
         ELSE IF m.op = "add" THEN LinkedBy(mutated, s) \cup {m.target}
              ELSE LinkedBy(mutated, s) \ {m.target}
  BY ZenonT(60), <1>2, <1>7, MutationAppended DEF m
<1>13. ASSUME NEW s \in LinkSources PROVE linkTable'[s] = LinkedBy(mutated', s) /\ IsFiniteSet(linkTable'[s])
  <2>1. linkTable[s] = LinkedBy(mutated, s) /\ IsFiniteSet(linkTable[s])
    BY DEF RouterIInv, LinksHold
  <2>2. IsFiniteSet(linkTable[s] \cup {m.target}) /\ IsFiniteSet(linkTable[s] \ {m.target})
    BY <2>1, FS_AddElement, FS_RemoveElement
  <2> QED
    BY <2>1, <2>2, <1>10, <1>12
<1>14. LinksHold'
  BY <1>13 DEF LinksHold
<1> QED
  BY <1>5, <1>6, <1>7, <1>9, <1>11, <1>14, CallMoves

LEMMA ResolveKeeps ==
  ASSUME RouterIInv, NEW r \in Routes, ResolveRoute(r) PROVE RouterIInv'
<1> DEFINE c == routing[r]
           links == IF RouteOf[r].joins THEN linkTable[RouteOf[r].source] ELSE {}
           wanted == RouteOf[r].named \cup links
           fanout == SetToSeq(wanted)
           x == [c EXCEPT !.phase = IF fanout = <<>> THEN "done" ELSE "checking", !.targets = fanout]
<1>1. /\ c \in Call /\ c.phase = "mutating" /\ c.kept = <<>> /\ c.missing = {} /\ Answers(r)
      /\ WatchHolds(c, LinkedBy(mutated, RouteOf[r].source), existing)
  BY DEF RouterIInv, RouterTypeOK, ResolveRoute, CallHolds, InHand, Untried
<1>2. /\ existing' \in Targets /\ mutated' \in Seq(Mutation)
      /\ linkTable' \in [LinkSources -> Targets] /\ LinksHold' /\ Moves(r, x)
  BY DEF RouterIInv, RouterTypeOK, ResolveRoute, LinksHold
<1>3. links \in Targets /\ IsFiniteSet(links) /\ LinksOf(r, c.always) \subseteq links
      /\ links \subseteq LinksOf(r, c.ever)
  <2>1. CASE RouteOf[r].joins
    <3>1. RouteOf[r].source \in LinkSources
      BY <2>1, RouterAssumption
    <3>2. /\ links = LinkedBy(mutated, RouteOf[r].source) /\ IsFiniteSet(links)
          /\ links \in Targets
      BY <2>1, <3>1 DEF RouterIInv, RouterTypeOK, LinksHold
    <3> QED
      BY <1>1, <2>1, <3>2 DEF WatchHolds, InHand, LinksOf
  <2>2. CASE ~RouteOf[r].joins
    BY <2>2, FS_EmptySet DEF LinksOf, Targets
  <2> QED
    BY <2>1, <2>2
<1> HIDE DEF links
<1>4. wanted \in Targets /\ IsFiniteSet(wanted)
  BY <1>3, RouterAssumption, FS_Union DEF Targets
<1> HIDE DEF wanted
<1>5. /\ fanout \in Seq(wanted) /\ ToSet(fanout) = wanted
      /\ \A i, j \in 1..Len(fanout) : fanout[i] = fanout[j] => i = j
  BY <1>4, SetAsSequence
<1> HIDE DEF fanout
<1>6. fanout \in Seq(LinkTargets)
  BY <1>4, <1>5 DEF Targets
<1>7. x \in Call
  BY <1>1, <1>6 DEF Call
<1>8. /\ x.phase = IF fanout = <<>> THEN "done" ELSE "checking"
      /\ x.targets = fanout /\ x.kept = <<>> /\ x.missing = {}
      /\ x.always = c.always /\ x.ever = c.ever
  BY <1>1 DEF Call
<1> HIDE DEF x, c
<1>9. Resolved(r, x)
  BY <1>3, <1>5, <1>8 DEF Resolved, wanted
<1>10. InTurn(x)
  <2>1. IsFiniteSet(x.missing) /\ Cardinality(x.missing) = 0 /\ Len(x.kept) = 0
    BY <1>8, FS_EmptySet
  <2>2. Checked(x) = 0
    BY <2>1 DEF Checked
  <2>3. Len(fanout) \in Nat /\ (fanout # <<>> => Len(fanout) > 0) /\ (fanout = <<>> => Len(fanout) = 0)
    BY <1>6
  <2>4. ToSet(x.kept) \cup x.missing = {}
    BY <1>8 DEF ToSet
  <2> QED
    BY <1>8, <2>1, <2>2, <2>3, <2>4 DEF InTurn
<1>11. Sorted(x)
  BY <1>8 DEF Sorted, ToSet
<1>12. CallHolds(r, x)
  BY <1>1, <1>7, <1>8, <1>9, <1>10, <1>11 DEF CallHolds, Untried
<1> QED
  BY <1>2, <1>12, CallMoves

LEMMA CheckKeeps ==
  ASSUME RouterIInv, NEW r \in Routes, CheckTarget(r) PROVE RouterIInv'
<1> DEFINE c == routing[r]
           checked == Checked(c)
           target == c.targets[checked + 1]
           after == [c EXCEPT !.phase = IF checked + 1 = Len(c.targets) THEN "done" ELSE @]
           keeps == [after EXCEPT !.kept = Append(@, target)]
           misses == [after EXCEPT !.missing = @ \cup {target}]
<1>1. /\ c \in Call /\ c.phase = "checking" /\ Answers(r)
      /\ Resolved(r, c) /\ InTurn(c) /\ Sorted(c)
      /\ WatchHolds(c, LinkedBy(mutated, RouteOf[r].source), existing)
  BY DEF RouterIInv, RouterTypeOK, CheckTarget, CallHolds, InHand
<1>2. /\ existing' \in Targets /\ mutated' \in Seq(Mutation)
      /\ linkTable' \in [LinkSources -> Targets] /\ LinksHold'
  BY DEF RouterIInv, RouterTypeOK, CheckTarget, LinksHold
<1>3. Moves(r, IF target \in existing THEN keeps ELSE misses)
  BY DEF CheckTarget, Checked
<1>4. /\ c.targets \in Seq(LinkTargets) /\ c.kept \in Seq(LinkTargets) /\ c.missing \in Targets
      /\ IsFiniteSet(c.missing) /\ Len(c.kept) \in Nat /\ Cardinality(c.missing) \in Nat
  BY <1>1, FS_CardinalityType DEF Call, InTurn
<1>5. checked \in Nat /\ checked < Len(c.targets) /\ Len(c.targets) \in Nat
  BY <1>1, <1>4 DEF Checked, InTurn
<1>6. checked + 1 \in 1..Len(c.targets) /\ target \in LinkTargets
  BY <1>4, <1>5
<1>7. target \notin c.missing /\ target \notin ToSet(c.kept)
  <2>1. ASSUME target \in ToSet(c.kept) \cup c.missing PROVE FALSE
    <3>1. PICK i \in 1..checked : target = c.targets[i]
      BY <2>1, <1>1 DEF InTurn
    <3>2. i \in 1..Len(c.targets) /\ i # checked + 1
      BY <1>5
    <3> QED
      BY <3>1, <3>2, <1>1, <1>6 DEF Resolved
  <2> QED
    BY <2>1
<1>8. after \in Call
  BY <1>1 DEF Call
<1>9. /\ after.phase = IF checked + 1 = Len(c.targets) THEN "done" ELSE "checking"
      /\ after.targets = c.targets /\ after.kept = c.kept /\ after.missing = c.missing
      /\ after.always = c.always /\ after.ever = c.ever
      /\ after.present = c.present /\ after.seen = c.seen
  BY <1>1 DEF Call
<1> HIDE DEF after, checked, target
<1>10. keeps \in Call /\ misses \in Call
  <2>1. Append(after.kept, target) \in Seq(LinkTargets) /\ after.missing \cup {target} \in Targets
    BY <1>4, <1>6, <1>9 DEF Targets
  <2>2. keeps \in Call
    BY <2>1, <1>8 DEF Call
  <2>3. misses \in Call
    BY <2>1, <1>8 DEF Call
  <2> QED
    BY <2>2, <2>3
<1>11. /\ \A x \in {keeps, misses} :
            /\ x.phase = after.phase /\ x.targets = c.targets
            /\ x.always = c.always /\ x.ever = c.ever
            /\ x.present = c.present /\ x.seen = c.seen
       /\ keeps.kept = Append(c.kept, target) /\ keeps.missing = c.missing
       /\ misses.kept = c.kept /\ misses.missing = c.missing \cup {target}
  BY <1>8, <1>9 DEF Call
<1> HIDE DEF keeps, misses, c
<1>12. /\ ToSet(keeps.kept) = ToSet(c.kept) \cup {target} /\ ToSet(misses.kept) = ToSet(c.kept)
       /\ Len(keeps.kept) = Len(c.kept) + 1
  <2>1. \A s \in Seq(LinkTargets), t \in LinkTargets :
          Len(Append(s, t)) = Len(s) + 1 /\ ToSet(Append(s, t)) = ToSet(s) \cup {t}
    <3> TAKE s \in Seq(LinkTargets), t \in LinkTargets
    <3> DEFINE l == Append(s, t)
    <3>1. /\ l \in Seq(LinkTargets) /\ Len(l) = Len(s) + 1 /\ Len(s) \in Nat
          /\ \A i \in 1..Len(s) : l[i] = s[i]
          /\ l[Len(s) + 1] = t
      OBVIOUS
    <3> HIDE DEF l
    <3>2. \A i \in 1..Len(l) : i \in 1..Len(s) \/ i = Len(s) + 1
      BY <3>1
    <3>3. \A i \in 1..Len(s) : i \in 1..Len(l)
      BY <3>1
    <3>4. Len(s) + 1 \in 1..Len(l)
      BY <3>1
    <3>5. DOMAIN l = 1..Len(l) /\ DOMAIN s = 1..Len(s)
      BY <3>1
    <3>6. ToSet(l) = ToSet(s) \cup {t}
      BY <3>1, <3>2, <3>3, <3>4, <3>5 DEF ToSet
    <3> QED
      BY <3>1, <3>6 DEF l
  <2> QED
    BY <2>1, <1>4, <1>6, <1>11
<1>13. Cardinality(misses.missing) = Cardinality(c.missing) + 1 /\ IsFiniteSet(misses.missing)
  <2>1. /\ IsFiniteSet(c.missing \cup {target})
        /\ Cardinality(c.missing \cup {target}) = Cardinality(c.missing) + 1
    BY <1>4, <1>7, FS_AddElement
  <2> QED
    BY <2>1, <1>11
<1>14. ASSUME NEW x \in {keeps, misses} PROVE Resolved(r, x)
  BY <1>1, <1>11 DEF Resolved
<1>15. ASSUME NEW x \in {keeps, misses} PROVE InTurn(x)
  <2>1. IsFiniteSet(x.missing) /\ Checked(x) = checked + 1
    <3>0. Len(c.kept) \in Nat /\ Cardinality(c.missing) \in Nat
      BY <1>4, FS_CardinalityType
    <3>1. CASE x = keeps
      BY <3>0, <3>1, <1>4, <1>11, <1>12 DEF Checked, checked
    <3>2. CASE x = misses
      <4>1. Len(x.kept) = Len(c.kept) /\ Cardinality(x.missing) = Cardinality(c.missing) + 1
            /\ IsFiniteSet(x.missing)
        BY <3>2, <1>11, <1>13
      <4> QED
        BY <3>0, <4>1 DEF Checked, checked
    <3> QED
      BY <3>1, <3>2
  <2>2. ToSet(x.kept) \cup x.missing = (ToSet(c.kept) \cup c.missing) \cup {target}
    BY <1>11, <1>12
  <2>3. \A i : i \in 1..(checked + 1) <=> i \in 1..checked \/ i = checked + 1
    BY <1>5
  <2>4. \A t : t \in ToSet(c.kept) \cup c.missing <=> \E i \in 1..checked : t = c.targets[i]
    BY <1>1 DEF InTurn, checked
  <2>5. \A t : t \in ToSet(x.kept) \cup x.missing <=> \E i \in 1..(checked + 1) : t = x.targets[i]
    BY <2>2, <2>3, <2>4, <1>11 DEF target
  <2>6. (x.phase = "checking" => Checked(x) < Len(x.targets)) /\ (x.phase = "done" => Checked(x) = Len(x.targets))
    BY <2>1, <1>5, <1>9, <1>11
  <2> QED
    BY <2>1, <2>5, <2>6 DEF InTurn
<1>16. CASE target \in existing
  <2>1. Sorted(keeps)
    BY <1>1, <1>11, <1>12, <1>16 DEF Sorted, WatchHolds, InHand
  <2>2. CallHolds(r, keeps)
    BY <1>1, <1>9, <1>10, <1>11, <1>14, <1>15, <2>1 DEF CallHolds, Untried
  <2> QED
    BY <1>2, <1>3, <1>16, <2>2, CallMoves
<1>17. CASE target \notin existing
  <2>1. Sorted(misses)
    BY <1>1, <1>11, <1>12, <1>17 DEF Sorted, WatchHolds, InHand
  <2>2. CallHolds(r, misses)
    BY <1>1, <1>9, <1>10, <1>11, <1>14, <1>15, <2>1 DEF CallHolds, Untried
  <2> QED
    BY <1>2, <1>3, <1>17, <2>2, CallMoves
<1> QED
  BY <1>16, <1>17

LEMMA TargetKeeps ==
  ASSUME RouterIInv, NEW t \in Fleeting, TargetChanges(t) PROVE RouterIInv'
<1>1. /\ existing' \in Targets /\ mutated' \in Seq(Mutation)
      /\ linkTable' \in [LinkSources -> Targets]
  BY RouterAssumption DEF RouterIInv, RouterTypeOK, TargetChanges, Targets
<1>2. LinksHold'
  BY DEF RouterIInv, LinksHold, TargetChanges
<1>3. routing' = Watched(routing)
  BY DEF TargetChanges
<1>4. routing \in [Routes -> Call] /\ \A r \in Routes : CallHolds(r, routing[r])
  BY DEF RouterIInv, RouterTypeOK
<1> QED
  BY <1>1, <1>2, <1>3, <1>4, RouteMoves

LEMMA InitRouterIInv == RouterInit => RouterIInv
<1> SUFFICES ASSUME RouterInit PROVE RouterIInv
  OBVIOUS
<1>1. RouterTypeOK
  BY DEF RouterInit, RouterTypeOK, Call, Targets, Mutation
<1>2. LinksHold
  <2>1. \A s \in LinkSources : linkTable[s] = {} /\ mutated = <<>>
    BY DEF RouterInit
  <2>2. DOMAIN mutated = {}
    BY DEF RouterInit
  <2>3. \A s \in LinkSources : LinkedBy(mutated, s) = {}
    BY <2>2 DEF LinkedBy
  <2> QED
    BY <2>1, <2>3, FS_EmptySet DEF LinksHold
<1>3. ASSUME NEW r \in Routes
      PROVE  /\ CallHolds(r, routing[r])
             /\ WatchHolds(routing[r], LinkedBy(mutated, RouteOf[r].source), existing)
  <2>1. routing[r].phase = "new" /\ routing[r].kept = <<>> /\ routing[r].missing = {}
    BY DEF RouterInit
  <2> QED
    BY <1>1, <2>1 DEF RouterTypeOK, CallHolds, WatchHolds, Untried, InHand
<1> QED
  BY <1>1, <1>2, <1>3 DEF RouterIInv

LEMMA NextRouterIInv == RouterIInv /\ [RouterNext]_routerVars => RouterIInv'
<1> SUFFICES ASSUME RouterIInv, [RouterNext]_routerVars PROVE RouterIInv'
  OBVIOUS
<1>1. ASSUME NEW r \in Routes, RouteBegins(r) PROVE RouterIInv'
  BY <1>1, BeginsKeeps
<1>2. ASSUME NEW r \in Routes, Mutate(r) PROVE RouterIInv'
  BY <1>2, MutateKeeps
<1>3. ASSUME NEW r \in Routes, ResolveRoute(r) PROVE RouterIInv'
  BY <1>3, ResolveKeeps
<1>4. ASSUME NEW r \in Routes, CheckTarget(r) PROVE RouterIInv'
  BY <1>4, CheckKeeps
<1>5. ASSUME NEW t \in Fleeting, TargetChanges(t) PROVE RouterIInv'
  BY <1>5, TargetKeeps
<1>6. CASE UNCHANGED routerVars
  BY <1>6 DEF routerVars, RouterIInv, RouterTypeOK, LinksHold
<1> QED
  BY <1>1, <1>2, <1>3, <1>4, <1>5, <1>6 DEF RouterNext

-----------------------------------------------------------------------------
(* A route that ended has checked every target it resolved, so all that were *)
(* linked throughout and there are kept, and what is kept was linked or      *)
(* named.                                                                    *)
LEMMA RouterIInvReaches == RouterIInv => RoutesReachTheLinked
<1> SUFFICES ASSUME RouterIInv, NEW r \in Routes, routing[r].phase = "done",
                    RouteOf[r].own \/ RouteOf[r].joins
    PROVE LET c == routing[r]
              named == RouteOf[r].named
              linkedAll == IF RouteOf[r].joins THEN c.always ELSE {}
              linkedEver == IF RouteOf[r].joins THEN c.ever ELSE {}
          IN /\ (named \cup linkedAll) \cap c.present \subseteq ToSet(c.kept)
             /\ ToSet(c.kept) \subseteq (named \cup linkedEver) \cap c.seen
             /\ (named \cup linkedAll) \subseteq ToSet(c.kept) \cup c.missing
  BY DEF RoutesReachTheLinked
<1> DEFINE c == routing[r]
<1>1. /\ c \in Call /\ Resolved(r, c) /\ InTurn(c) /\ Sorted(c)
  BY DEF RouterIInv, RouterTypeOK, CallHolds, Answers
<1>2. ToSet(c.kept) \cup c.missing = ToSet(c.targets)
  <2>1. c.targets \in Seq(LinkTargets) /\ Checked(c) = Len(c.targets)
    BY <1>1 DEF Call, InTurn
  <2>2. DOMAIN c.targets = 1..Checked(c)
    BY <2>1
  <2>3. \A t : t \in ToSet(c.kept) \cup c.missing <=> \E i \in 1..Checked(c) : t = c.targets[i]
    BY <1>1 DEF InTurn
  <2> HIDE DEF c
  <2> QED
    BY <2>2, <2>3 DEF ToSet
<1> QED
  BY <1>1, <1>2 DEF Resolved, Sorted, LinksOf

(* However routes overlap and targets come and go, for any routes, aggregates *)
(* and targets, a decision holds the targets that were linked and there       *)
(* throughout, and none that never was (projection-router-core/src/index.ts). *)
THEOREM RoutesReach == RouterSpec => []RoutesReachTheLinked
<1>1. RouterInit => RouterIInv
  BY InitRouterIInv
<1>2. RouterIInv /\ [RouterNext]_routerVars => RouterIInv'
  BY NextRouterIInv
<1>3. RouterIInv => RoutesReachTheLinked
  BY RouterIInvReaches
<1> QED
  BY <1>1, <1>2, <1>3, PTL DEF RouterSpec

-----------------------------------------------------------------------------
(* Batches written by commitAtomicMany: the inductive invariant.           *)

Document == [revision : Nat, calls : Seq(BatchCalls)]
Documents == [BatchDocs -> Document]
BatchStore == [docs : Documents, dedupe : SUBSET (BatchCalls \X Nat)]
BatchCall == [phase : {"new", "reading", "ready", "open", "done"}, tries : Nat, read : Documents,
              index : Nat, base : BatchStore, view : BatchStore,
              result : {"none", "committed", "duplicate", "conflict", "terminal", "transient"}]

AtomicTypeOK ==
  /\ adapter \in {"mongo", "memory"}
  /\ batchStore \in BatchStore
  /\ batchCall \in [BatchCalls -> BatchCall]
  /\ batchFaults \in Nat

\* The revision of a document that the first n of the calls have written.
RevisionAt(calls, n) == IF n = 0 THEN 0 ELSE SequenceOf[calls[n]]

\* A document: no call twice, and the revision of its last one.
DocumentHolds(x) == IsInjective(x.calls) /\ x.revision = RevisionAt(x.calls, Len(x.calls))

Grows(q, r) == Len(q) <= Len(r) /\ \A i \in 1..Len(q) : q[i] = r[i]

\* The revision of x is one that y has had.
SeenIn(x, y) == \E n \in 0..Len(y.calls) : x.revision = RevisionAt(y.calls, n)

IsStored(c, st) == KeysOf(c) \cap st.dedupe # {}

\* A call's keys are stored all or none, and with them its documents.
WholeHolds(c, st) ==
  /\ IsStored(c, st) => KeysOf(c) \subseteq st.dedupe
  /\ \A d \in BatchDocs : c \in ToSet(st.docs[d].calls) <=> IsStored(c, st) /\ d \in DocsOf(c)

StoreHolds(st) ==
  /\ \A d \in BatchDocs : DocumentHolds(st.docs[d])
  /\ \A c \in BatchCalls : WholeHolds(c, st)

\* The documents of the writes before the n-th, and a document with a call.
WrittenBefore(c, n) == UNION {ToSet(WritesOf[c][i]) : i \in 1..(n - 1)}
FoldedBy(c, x) == [revision |-> SequenceOf[c], calls |-> Append(x.calls, c)]

\* An open transaction sees its snapshot with its own writes, and what it has
\* written nobody has written since.
OpenHolds(c, call, st) ==
  /\ adapter = "mongo" /\ ~Invalid(c) /\ call.index \in 1..(Len(WritesOf[c]) + 1)
  /\ \A d \in BatchDocs :
       /\ DocumentHolds(call.base.docs[d])
       /\ Grows(call.read[d].calls, call.base.docs[d].calls)
       /\ call.view.docs[d] = IF d \in WrittenBefore(c, call.index)
                              THEN FoldedBy(c, call.base.docs[d]) ELSE call.base.docs[d]
       /\ d \in WrittenBefore(c, call.index) => call.base.docs[d] = st.docs[d]

\* What a call has answered is true; what it has read is a past of the store,
\* with a revision no later than the content.
BatchHolds(c, call, st) ==
  /\ call.phase # "done" <=> call.result = "none"
  /\ call.phase \in {"reading", "ready", "open"} => ~IsStored(c, st)
  /\ call.result \in {"conflict", "terminal"} => ~IsStored(c, st)
  /\ call.result \in {"committed", "duplicate"} => IsStored(c, st)
  /\ call.phase = "reading" => \A d \in BatchDocs : SeenIn(call.read[d], st.docs[d])
  /\ call.phase \in {"ready", "open"} => \A d \in BatchDocs :
       SeenIn(call.read[d], call.read[d]) /\ Grows(call.read[d].calls, st.docs[d].calls)
  /\ call.phase = "open" => OpenHolds(c, call, st)

InTransaction(call) == call.phase = "open"
WrittenApart(b, c, first, second) ==
  InTransaction(first) /\ InTransaction(second) =>
    WrittenBefore(b, first.index) \cap WrittenBefore(c, second.index) = {}

AtomicIInv ==
  /\ AtomicTypeOK /\ StoreHolds(batchStore)
  /\ \A c \in BatchCalls : BatchHolds(c, batchCall[c], batchStore)
  /\ \A b, c \in BatchCalls : b # c => WrittenApart(b, c, batchCall[b], batchCall[c])

-----------------------------------------------------------------------------
(* Batches: the operators.                                                 *)

(* A document whose revision is the one that was read with a past of its      *)
(* content has the content that was read: no call comes twice.                *)
LEMMA RevisionNamesContent ==
  ASSUME NEW x \in Document, NEW y \in Document, DocumentHolds(y),
         Grows(x.calls, y.calls), SeenIn(x, x), x.revision = y.revision
  PROVE  x.calls = y.calls
<1> USE AtomicAssumption
<1>1. /\ x.calls \in Seq(BatchCalls) /\ y.calls \in Seq(BatchCalls)
      /\ Len(x.calls) \in Nat /\ Len(y.calls) \in Nat /\ Len(x.calls) <= Len(y.calls)
      /\ \A i \in 1..Len(x.calls) : x.calls[i] = y.calls[i]
  BY SMTT(60) DEF Document, Grows
<1>2. PICK n \in 0..Len(x.calls) : y.revision = RevisionAt(x.calls, n)
  BY DEF SeenIn
<1>3. y.revision = RevisionAt(y.calls, Len(y.calls)) /\ IsInjective(y.calls)
  BY DEF DocumentHolds
<1>4. \A i \in 1..Len(y.calls) : y.calls[i] \in BatchCalls /\ SequenceOf[y.calls[i]] \in Nat \ {0}
  BY <1>1
<1>5. CASE n = 0
  <2>1. RevisionAt(y.calls, Len(y.calls)) = 0
    BY <1>2, <1>3, <1>5 DEF RevisionAt
  <2>2. Len(y.calls) = 0
    BY <1>1, <1>4, <2>1 DEF RevisionAt
  <2> QED
    BY <1>1, <2>2
<1>6. CASE n # 0
  <2> DEFINE l == Len(x.calls)
             m == Len(y.calls)
  <2>0. l \in Nat /\ m \in Nat /\ l <= m /\ n \in 0..l /\ n # 0
    BY <1>1, <1>6
  <2>1. n \in 1..l /\ n \in 1..m /\ m \in 1..m /\ m # 0
    <3> HIDE DEF l, m
    <3> QED
      BY <2>0
  <2>2. SequenceOf[y.calls[n]] = SequenceOf[y.calls[Len(y.calls)]]
    <3>1. RevisionAt(x.calls, n) = SequenceOf[x.calls[n]] /\ x.calls[n] = y.calls[n]
      BY <1>1, <1>6, <2>1 DEF RevisionAt
    <3>2. RevisionAt(y.calls, Len(y.calls)) = SequenceOf[y.calls[Len(y.calls)]]
      BY <2>1 DEF RevisionAt
    <3> QED
      BY <1>2, <1>3, <3>1, <3>2
  <2>3. y.calls[n] = y.calls[Len(y.calls)]
    BY <1>4, <2>1, <2>2
  <2>4. n = m
    <3>1. DOMAIN y.calls = 1..m
      BY <1>1
    <3> QED
      BY <1>3, <2>1, <2>3, <3>1 DEF IsInjective
  <2>5. l = m
    <3> HIDE DEF l, m
    <3> QED
      BY <2>0, <2>4
  <2>6. /\ x.calls = [i \in 1..l |-> x.calls[i]] /\ y.calls = [i \in 1..m |-> y.calls[i]]
        /\ \A i \in 1..l : x.calls[i] = y.calls[i]
    BY <1>1
  <2> HIDE DEF l, m
  <2> QED
    BY <2>5, <2>6
<1> QED
  BY <1>5, <1>6

(* A call folded into a document that does not hold it.                      *)
LEMMA FoldedIn ==
  ASSUME NEW c \in BatchCalls, NEW x \in Document
  PROVE  LET y == FoldedBy(c, x)
         IN /\ y \in Document /\ y # x
            /\ Grows(x.calls, y.calls)
            /\ \A b : b \in ToSet(y.calls) <=> b = c \/ b \in ToSet(x.calls)
            /\ DocumentHolds(x) /\ c \notin ToSet(x.calls) => DocumentHolds(y)
<1> USE AtomicAssumption
<1> DEFINE y == FoldedBy(c, x)
           n == Len(x.calls)
<1>1. /\ x.calls \in Seq(BatchCalls) /\ n \in Nat
      /\ y.calls = Append(x.calls, c) /\ y.revision = SequenceOf[c]
      /\ y \in Document
  BY DEF Document, FoldedBy
<1>2. /\ Len(y.calls) = n + 1 /\ y.calls[n + 1] = c /\ DOMAIN y.calls = 1..(n + 1)
      /\ \A i \in 1..n : y.calls[i] = x.calls[i]
      /\ DOMAIN x.calls = 1..n
  BY <1>1
<1> HIDE DEF y, n
<1>3. y # x
  BY <1>1, <1>2 DEF n
<1>4. Grows(x.calls, y.calls)
  BY <1>1, <1>2 DEF Grows, n
<1>5. ASSUME NEW b PROVE b \in ToSet(y.calls) <=> b = c \/ b \in ToSet(x.calls)
  <2>1. \A i : i \in 1..(n + 1) <=> i \in 1..n \/ i = n + 1
    BY <1>1
  <2> QED
    BY ZenonT(60), <1>2, <2>1 DEF ToSet
<1>6. ASSUME DocumentHolds(x), c \notin ToSet(x.calls) PROVE DocumentHolds(y)
  <2>1. y.revision = RevisionAt(y.calls, Len(y.calls))
    BY <1>1, <1>2 DEF RevisionAt
  <2>2. ASSUME NEW i \in 1..(n + 1), NEW j \in 1..(n + 1), y.calls[i] = y.calls[j] PROVE i = j
    <3>1. \A k \in 1..n : x.calls[k] # c
      BY <1>2, <1>6 DEF ToSet
    <3>2. \A k, l \in 1..n : x.calls[k] = x.calls[l] => k = l
      BY <1>2, <1>6 DEF DocumentHolds, IsInjective
    <3>3. (i \in 1..n \/ i = n + 1) /\ (j \in 1..n \/ j = n + 1)
      BY <1>1
    <3> QED
      BY <1>2, <2>2, <3>1, <3>2, <3>3
  <2>3. IsInjective(y.calls)
    BY <1>2, <2>2 DEF IsInjective
  <2> QED
    BY <2>1, <2>3 DEF DocumentHolds
<1> QED
  BY <1>1, <1>3, <1>4, <1>5, <1>6 DEF y

LEMMA GrowsOn ==
  ASSUME NEW p \in Seq(BatchCalls), NEW q \in Seq(BatchCalls), NEW r \in Seq(BatchCalls),
         Grows(p, q), Grows(q, r)
  PROVE  Grows(p, r)
<1>1. Len(p) \in Nat /\ Len(q) \in Nat /\ Len(r) \in Nat
  OBVIOUS
<1>2. \A i \in 1..Len(p) : i \in 1..Len(q)
  BY <1>1 DEF Grows
<1> QED
  BY <1>1, <1>2 DEF Grows

(* What a document has had it has still had when it has grown.               *)
LEMMA SeenOn ==
  ASSUME NEW x, NEW y \in Document, NEW z \in Document, SeenIn(x, y), Grows(y.calls, z.calls)
  PROVE  SeenIn(x, z)
<1>1. Len(y.calls) \in Nat /\ Len(z.calls) \in Nat /\ Len(y.calls) <= Len(z.calls)
  BY DEF Document, Grows
<1>2. PICK n \in 0..Len(y.calls) : x.revision = RevisionAt(y.calls, n)
  BY DEF SeenIn
<1>3. n \in 0..Len(z.calls) /\ (n # 0 => n \in 1..Len(y.calls))
  BY <1>1
<1>4. RevisionAt(y.calls, n) = RevisionAt(z.calls, n)
  BY <1>3 DEF RevisionAt, Grows
<1> QED
  BY <1>2, <1>3, <1>4 DEF SeenIn

LEMMA GrowsItself == ASSUME NEW q \in Seq(BatchCalls) PROVE Grows(q, q)
BY DEF Grows

(* The documents of a call, and of its writes so far.                        *)
LEMMA WritesOfACall ==
  ASSUME NEW c \in BatchCalls
  PROVE  /\ Len(WritesOf[c]) \in Nat /\ Writes(c) = 1..Len(WritesOf[c])
         /\ DocsOf(c) \subseteq BatchDocs
         /\ \A i \in Writes(c) : ToSet(WritesOf[c][i]) \subseteq BatchDocs
         /\ WrittenBefore(c, 1) = {}
         /\ WrittenBefore(c, Len(WritesOf[c]) + 1) = DocsOf(c)
         /\ \A i \in Writes(c) :
              WrittenBefore(c, i + 1) = WrittenBefore(c, i) \cup ToSet(WritesOf[c][i])
         /\ ~Invalid(c) => \A i \in Writes(c) :
              WrittenBefore(c, i) \cap ToSet(WritesOf[c][i]) = {}
         /\ ~Invalid(c) => KeysOf(c) # {}
         /\ KeysOf(c) \subseteq BatchCalls \X Nat
<1> USE AtomicAssumption
<1>1. /\ WritesOf[c] \in Seq(Seq(BatchDocs)) /\ Len(WritesOf[c]) \in Nat
      /\ Writes(c) = 1..Len(WritesOf[c])
  BY DEF Writes
<1>2. \A i \in Writes(c) : ToSet(WritesOf[c][i]) \subseteq BatchDocs
  <2>1. \A i \in Writes(c) : WritesOf[c][i] \in Seq(BatchDocs)
    BY <1>1
  <2> QED
    BY <2>1 DEF ToSet
<1>3. WrittenBefore(c, 1) = {}
  <2>1. 1..(1 - 1) = {}
    OBVIOUS
  <2> QED
    BY <2>1 DEF WrittenBefore
<1>4. WrittenBefore(c, Len(WritesOf[c]) + 1) = DocsOf(c)
  <2>1. 1..((Len(WritesOf[c]) + 1) - 1) = Writes(c)
    BY <1>1
  <2> QED
    BY <2>1 DEF WrittenBefore, DocsOf
<1>5. ASSUME NEW i \in Writes(c)
      PROVE  WrittenBefore(c, i + 1) = WrittenBefore(c, i) \cup ToSet(WritesOf[c][i])
  <2>1. i \in Nat \ {0}
    BY <1>1
  <2>2. 1..((i + 1) - 1) = (1..(i - 1)) \cup {i}
    BY <2>1
  <2> QED
    BY <2>2 DEF WrittenBefore
<1>6. ASSUME ~Invalid(c), NEW i \in Writes(c) PROVE WrittenBefore(c, i) \cap ToSet(WritesOf[c][i]) = {}
  <2>1. \A j \in 1..(i - 1) : j \in Writes(c) /\ j # i
    BY <1>1
  <2>2. \A j \in 1..(i - 1) : ToSet(WritesOf[c][j]) \cap ToSet(WritesOf[c][i]) = {}
    BY <1>6, <2>1 DEF Invalid, Duplicates
  <2> QED
    BY <2>2 DEF WrittenBefore
<1>7. ~Invalid(c) => KeysOf(c) # {}
  <2>1. ASSUME ~Invalid(c) PROVE KeysOf(c) # {}
    <3>1. PICK i \in Writes(c) : TRUE
      BY <2>1 DEF Invalid
    <3>2. <<c, i>> \in KeysOf(c)
      BY <3>1 DEF KeysOf
    <3> QED
      BY <3>2
  <2> QED
    BY <2>1
<1>8. KeysOf(c) \subseteq BatchCalls \X Nat
  BY <1>1 DEF KeysOf
<1>9. DocsOf(c) \subseteq BatchDocs
  BY <1>2 DEF DocsOf
<1> QED
  BY <1>1, <1>2, <1>3, <1>4, <1>5, <1>6, <1>7, <1>8, <1>9

-----------------------------------------------------------------------------
(* Batches: a call moves.                                                  *)

LEMMA NewCallTyped ==
  /\ NoDocument \in Document /\ EmptyStore \in BatchStore /\ NewCall \in BatchCall
  /\ DocumentHolds(NoDocument)
<1> USE AtomicAssumption
<1>1. NoDocument \in Document
  BY DEF NoDocument, Document
<1>2. EmptyStore \in BatchStore
  BY <1>1 DEF EmptyStore, BatchStore, Documents
<1>3. EmptyStore.docs \in Documents
  BY <1>2 DEF BatchStore
<1>4. NewCall \in BatchCall
  BY <1>2, <1>3 DEF NewCall, BatchCall
<1>5. DocumentHolds(NoDocument)
  BY DEF DocumentHolds, NoDocument, RevisionAt, IsInjective
<1> QED
  BY <1>1, <1>2, <1>4, <1>5

(* A step of one call that leaves the store.                                 *)
LEMMA CallStep ==
  ASSUME AtomicIInv, NEW c \in BatchCalls, NEW call \in BatchCall, Becomes(c, call),
         BatchHolds(c, call, batchStore),
         \A b \in BatchCalls \ {c} : WrittenApart(b, c, batchCall[b], call),
         UNCHANGED <<adapter, batchStore>>, batchFaults' \in Nat
  PROVE  AtomicIInv'
<1>1. /\ batchCall \in [BatchCalls -> BatchCall]
      /\ batchCall' = [batchCall EXCEPT ![c] = call]
      /\ adapter' = adapter /\ batchStore' = batchStore
  BY DEF AtomicIInv, AtomicTypeOK, Becomes
<1>2. AtomicTypeOK'
  BY <1>1 DEF AtomicIInv, AtomicTypeOK
<1>3. StoreHolds(batchStore)'
  BY <1>1 DEF AtomicIInv, StoreHolds, WholeHolds, IsStored
<1>4. PICK calls : calls = batchCall'
  OBVIOUS
<1>5. \A b \in BatchCalls : calls[b] = IF b = c THEN call ELSE batchCall[b]
  BY <1>1, <1>4
<1>6. ASSUME NEW b \in BatchCalls PROVE BatchHolds(b, batchCall[b], batchStore)'
  <2>1. BatchHolds(b, calls[b], batchStore)
    BY <1>5 DEF AtomicIInv
  <2> QED
    BY <1>1, <1>4, <2>1 DEF BatchHolds, OpenHolds
<1>7. ASSUME NEW a \in BatchCalls, NEW b \in BatchCalls, a # b
      PROVE  WrittenApart(a, b, batchCall[a], batchCall[b])'
  <2>1. WrittenApart(a, b, calls[a], calls[b])
    <3>1. CASE a = c
      <4>1. WrittenApart(b, c, batchCall[b], call)
        BY <1>7, <3>1
      <4> QED
        BY <1>5, <1>7, <3>1, <4>1 DEF WrittenApart
    <3>2. CASE a # c
      BY <1>5, <1>7, <3>2 DEF AtomicIInv
    <3> QED
      BY <3>1, <3>2
  <2> QED
    BY <1>4, <2>1 DEF WrittenApart
<1> QED
  BY <1>2, <1>3, <1>6, <1>7 DEF AtomicIInv

(* What the invariant says of a call.                                        *)
LEMMA CallTyped ==
  ASSUME AtomicIInv, NEW c \in BatchCalls
  PROVE  /\ batchCall[c] \in BatchCall /\ BatchHolds(c, batchCall[c], batchStore)
         /\ batchStore \in BatchStore /\ batchStore.docs \in Documents
         /\ \A d \in BatchDocs : batchStore.docs[d] \in Document /\ DocumentHolds(batchStore.docs[d])
         /\ batchFaults \in Nat
BY DEF AtomicIInv, AtomicTypeOK, BatchStore, Documents, StoreHolds

(* A call outside of a transaction has nothing written.                      *)
LEMMA NotWriting ==
  ASSUME NEW c, NEW b, NEW call, NEW other, ~InTransaction(call)
  PROVE  WrittenApart(b, c, other, call)
BY DEF WrittenApart

LEMMA InitAtomicIInv == AtomicInit => AtomicIInv
<1> SUFFICES ASSUME AtomicInit PROVE AtomicIInv
  OBVIOUS
<1> USE AtomicAssumption
<1>1. AtomicTypeOK
  BY NewCallTyped DEF AtomicInit, AtomicTypeOK
<1>2. /\ \A d \in BatchDocs : batchStore.docs[d] = NoDocument
      /\ batchStore.dedupe = {}
      /\ \A c \in BatchCalls : batchCall[c] = NewCall
  BY DEF AtomicInit, EmptyStore
<1>3. \A c \in BatchCalls : ~IsStored(c, batchStore)
  BY <1>2 DEF IsStored
<1>4. \A c \in BatchCalls, d \in BatchDocs : c \notin ToSet(batchStore.docs[d].calls)
  BY <1>2 DEF NoDocument, ToSet
<1>5. StoreHolds(batchStore)
  BY <1>2, <1>3, <1>4, NewCallTyped DEF StoreHolds, WholeHolds
<1>6. NewCall.phase = "new" /\ NewCall.result = "none"
  BY DEF NewCall
<1>7. \A c \in BatchCalls : BatchHolds(c, batchCall[c], batchStore)
  BY <1>2, <1>6 DEF BatchHolds
<1>8. \A b, c \in BatchCalls : WrittenApart(b, c, batchCall[b], batchCall[c])
  BY <1>2, <1>6 DEF WrittenApart, InTransaction
<1> QED
  BY <1>1, <1>5, <1>7, <1>8 DEF AtomicIInv

LEMMA HostReadsRevisionsStep ==
  ASSUME AtomicIInv, NEW c \in BatchCalls, HostReadsRevisions(c) PROVE AtomicIInv'
<1> DEFINE call == batchCall[c]
           done == [call EXCEPT !.phase = "done", !.result = "duplicate"]
           reads == [call EXCEPT !.phase = "reading", !.read = batchStore.docs]
<1>1. /\ call \in BatchCall /\ call.phase = "new" /\ BatchHolds(c, call, batchStore)
      /\ batchStore.docs \in Documents
      /\ UNCHANGED <<adapter, batchStore>> /\ batchFaults' \in Nat
  BY CallTyped DEF HostReadsRevisions
<1>2. call.result = "none"
  BY <1>1 DEF BatchHolds
<1>3. CASE KeysOf(c) # {} /\ KeysOf(c) \subseteq batchStore.dedupe
  <2>1. Becomes(c, done)
    BY <1>3 DEF HostReadsRevisions
  <2>2. done \in BatchCall /\ done.phase = "done" /\ done.result = "duplicate"
    BY <1>1 DEF BatchCall
  <2>3. IsStored(c, batchStore)
    BY <1>3 DEF IsStored
  <2> HIDE DEF done
  <2>4. BatchHolds(c, done, batchStore)
    BY <2>2, <2>3 DEF BatchHolds
  <2> QED
    BY <1>1, <2>1, <2>2, <2>4, NotWriting, CallStep DEF InTransaction
<1>4. CASE ~(KeysOf(c) # {} /\ KeysOf(c) \subseteq batchStore.dedupe)
  <2>1. Becomes(c, reads)
    BY <1>4 DEF HostReadsRevisions
  <2>2. /\ reads \in BatchCall /\ reads.phase = "reading" /\ reads.result = "none"
        /\ reads.read = batchStore.docs
    BY <1>1, <1>2 DEF BatchCall
  <2>3. ~IsStored(c, batchStore)
    BY <1>4 DEF AtomicIInv, StoreHolds, WholeHolds, IsStored
  <2>4. ASSUME NEW d \in BatchDocs PROVE SeenIn(batchStore.docs[d], batchStore.docs[d])
    <3>1. batchStore.docs[d] \in Document /\ DocumentHolds(batchStore.docs[d])
      BY CallTyped
    <3>2. Len(batchStore.docs[d].calls) \in 0..Len(batchStore.docs[d].calls)
      BY <3>1 DEF Document
    <3> QED
      BY <3>1, <3>2 DEF SeenIn, DocumentHolds
  <2> HIDE DEF reads
  <2>5. BatchHolds(c, reads, batchStore)
    BY <2>2, <2>3, <2>4 DEF BatchHolds
  <2> QED
    BY <1>1, <2>1, <2>2, <2>5, NotWriting, CallStep DEF InTransaction
<1> QED
  BY <1>3, <1>4

LEMMA HostReadsDocumentsStep ==
  ASSUME AtomicIInv, NEW c \in BatchCalls, HostReadsDocuments(c) PROVE AtomicIInv'
<1> DEFINE call == batchCall[c]
           read == [d \in BatchDocs |-> [call.read[d] EXCEPT !.calls = batchStore.docs[d].calls]]
           ready == [call EXCEPT !.phase = "ready", !.read = read]
<1>1. /\ call \in BatchCall /\ call.phase = "reading" /\ BatchHolds(c, call, batchStore)
      /\ UNCHANGED <<adapter, batchStore>> /\ batchFaults' \in Nat
      /\ call.read \in [BatchDocs -> Document]
      /\ \A d \in BatchDocs : batchStore.docs[d] \in Document
  BY CallTyped DEF HostReadsDocuments, BatchCall, Documents
<1>2. Becomes(c, ready)
  BY DEF HostReadsDocuments
<1>3. /\ read \in Documents
      /\ \A d \in BatchDocs : /\ read[d].calls = batchStore.docs[d].calls
                              /\ read[d].revision = call.read[d].revision
  BY <1>1 DEF Document, Documents
<1>4. call.result = "none" /\ ~IsStored(c, batchStore)
  BY <1>1 DEF BatchHolds
<1> HIDE DEF read
<1>5. /\ ready \in BatchCall /\ ready.phase = "ready" /\ ready.result = "none"
      /\ ready.read = read
  BY <1>1, <1>3, <1>4 DEF BatchCall
<1>6. ASSUME NEW d \in BatchDocs
      PROVE  SeenIn(read[d], read[d]) /\ Grows(read[d].calls, batchStore.docs[d].calls)
  <2>1. SeenIn(call.read[d], batchStore.docs[d])
    BY <1>1 DEF BatchHolds
  <2>2. batchStore.docs[d].calls \in Seq(BatchCalls)
    BY <1>1 DEF Document
  <2> QED
    BY <1>3, <2>1, <2>2, GrowsItself DEF SeenIn
<1> HIDE DEF ready
<1>7. BatchHolds(c, ready, batchStore)
  BY <1>4, <1>5, <1>6 DEF BatchHolds
<1> QED
  BY <1>1, <1>2, <1>5, <1>7, NotWriting, CallStep DEF InTransaction

LEMMA HostRetriesStep ==
  ASSUME AtomicIInv, NEW c \in BatchCalls, HostRetries(c) PROVE AtomicIInv'
<1> DEFINE again == [NewCall EXCEPT !.tries = batchCall[c].tries + 1]
<1>1. /\ Becomes(c, again) /\ batchCall[c] \in BatchCall
      /\ UNCHANGED <<adapter, batchStore>> /\ batchFaults' \in Nat
  BY CallTyped DEF HostRetries
<1>2. again \in BatchCall /\ again.phase = "new" /\ again.result = "none"
  BY <1>1, NewCallTyped DEF BatchCall, NewCall
<1> HIDE DEF again
<1>3. BatchHolds(c, again, batchStore)
  BY <1>2 DEF BatchHolds
<1> QED
  BY <1>1, <1>2, <1>3, NotWriting, CallStep DEF InTransaction

(* A call that ends, without a change of the store, with what is true.       *)
LEMMA AnswerStep ==
  ASSUME AtomicIInv, NEW c \in BatchCalls, NEW result \in {"conflict", "terminal", "transient"},
         batchCall[c].phase \in {"ready", "open"}, Becomes(c, Answered(c, result)),
         UNCHANGED <<adapter, batchStore>>, batchFaults' \in Nat
  PROVE  AtomicIInv'
<1> DEFINE call == Answered(c, result)
<1>1. /\ batchCall[c] \in BatchCall /\ ~IsStored(c, batchStore)
  BY CallTyped DEF BatchHolds
<1>2. call \in BatchCall /\ call.phase = "done" /\ call.result = result
  BY <1>1, NewCallTyped DEF Answered, BatchCall
<1> HIDE DEF call
<1>3. BatchHolds(c, call, batchStore)
  BY <1>1, <1>2 DEF BatchHolds
<1> QED
  BY <1>2, <1>3, NotWriting, CallStep DEF InTransaction, call

LEMMA BegunHolds ==
  ASSUME AtomicIInv, NEW c \in BatchCalls, batchCall[c].phase \in {"ready", "open"},
         adapter = "mongo", ~Invalid(c), Becomes(c, Begun(c)),
         UNCHANGED <<adapter, batchStore>>, batchFaults' \in Nat
  PROVE  AtomicIInv'
<1> DEFINE call == Begun(c)
<1>1. /\ batchCall[c] \in BatchCall /\ batchStore \in BatchStore
      /\ BatchHolds(c, batchCall[c], batchStore)
  BY CallTyped
<1>2. /\ call \in BatchCall /\ call.phase = "open" /\ call.index = 1 /\ call.base = batchStore
      /\ call.view = batchStore /\ call.read = batchCall[c].read
      /\ call.result = batchCall[c].result
  BY <1>1 DEF Begun, BatchCall
<1> HIDE DEF call
<1>3. WrittenBefore(c, 1) = {} /\ Len(WritesOf[c]) \in Nat
  BY WritesOfACall
<1>4. \A d \in BatchDocs : DocumentHolds(batchStore.docs[d])
  BY CallTyped
<1>5. OpenHolds(c, call, batchStore)
  <2>1. \A d \in BatchDocs : Grows(batchCall[c].read[d].calls, batchStore.docs[d].calls)
    BY <1>1 DEF BatchHolds
  <2>2. call.index \in 1..(Len(WritesOf[c]) + 1)
    BY <1>2, <1>3
  <2> QED
    BY <1>2, <1>3, <1>4, <2>1, <2>2 DEF OpenHolds
<1>6. BatchHolds(c, call, batchStore)
  BY <1>1, <1>2, <1>5 DEF BatchHolds
<1>7. \A b \in BatchCalls : WrittenApart(b, c, batchCall[b], call)
  BY <1>2, <1>3 DEF WrittenApart
<1> QED
  BY <1>2, <1>6, <1>7, CallStep DEF call

(* A transaction has changed exactly what it has written.                    *)
LEMMA StagedIsWritten ==
  ASSUME AtomicIInv, NEW c \in BatchCalls, batchCall[c].phase = "open"
  PROVE  Staged(c) = WrittenBefore(c, batchCall[c].index) \cap BatchDocs
<1> DEFINE call == batchCall[c]
<1>1. call \in BatchCall /\ OpenHolds(c, call, batchStore)
  BY CallTyped DEF BatchHolds
<1>2. ASSUME NEW d \in BatchDocs
      PROVE  call.view.docs[d] # call.base.docs[d] <=> d \in WrittenBefore(c, call.index)
  <2>1. call.base.docs[d] \in Document
    BY <1>1 DEF BatchCall, BatchStore, Documents
  <2>2. FoldedBy(c, call.base.docs[d]) # call.base.docs[d]
    BY <2>1, FoldedIn
  <2>3. call.view.docs[d] = IF d \in WrittenBefore(c, call.index)
                            THEN FoldedBy(c, call.base.docs[d]) ELSE call.base.docs[d]
    BY <1>1 DEF OpenHolds
  <2> QED
    BY <2>2, <2>3
<1> QED
  BY <1>2 DEF Staged

LEMMA ApplyWriteStep ==
  ASSUME AtomicIInv, NEW c \in BatchCalls, ApplyWrite(c) PROVE AtomicIInv'
<1> USE AtomicAssumption
<1> DEFINE call == batchCall[c]
           i == call.index
           w == ToSet(WritesOf[c][i])
           applied == [call EXCEPT !.view = Applied(c, call.view, i), !.index = i + 1]
<1>1. /\ call \in BatchCall /\ call.phase = "open" /\ i \in Writes(c)
      /\ BatchHolds(c, call, batchStore) /\ OpenHolds(c, call, batchStore)
      /\ UNCHANGED <<adapter, batchStore>> /\ batchFaults' \in Nat
      /\ adapter = "mongo" /\ ~Invalid(c)
  BY CallTyped DEF ApplyWrite, BatchHolds, OpenHolds
<1>2. CASE Refused(c, call.view, i)
  <2>1. Becomes(c, Answered(c, "conflict"))
    BY <1>2 DEF ApplyWrite
  <2> QED
    BY <1>1, <2>1, AnswerStep
<1>3. CASE ~Refused(c, call.view, i) /\ WriteConflict(c, i)
  <2>1. Becomes(c, Begun(c))
    BY <1>3 DEF ApplyWrite
  <2> QED
    BY <1>1, <2>1, BegunHolds
<1>4. CASE ~Refused(c, call.view, i) /\ ~WriteConflict(c, i)
  <2>1. Becomes(c, applied)
    BY <1>4 DEF ApplyWrite
  <2>2. /\ call.read \in Documents /\ call.base.docs \in Documents /\ call.view.docs \in Documents
        /\ call.view.dedupe \in SUBSET (BatchCalls \X Nat) /\ i \in Nat
        /\ \A d \in BatchDocs : call.read[d] \in Document /\ call.base.docs[d] \in Document
                                /\ call.view.docs[d] \in Document
    BY <1>1 DEF BatchCall, BatchStore, Documents
  <2>3. /\ WrittenBefore(c, i + 1) = WrittenBefore(c, i) \cup w
        /\ WrittenBefore(c, i) \cap w = {} /\ w \subseteq BatchDocs
        /\ i + 1 \in 1..(Len(WritesOf[c]) + 1)
    <3>1. Len(WritesOf[c]) \in Nat /\ i \in 1..Len(WritesOf[c])
      BY <1>1, WritesOfACall
    <3>2. i + 1 \in 1..(Len(WritesOf[c]) + 1)
      BY <3>1
    <3> QED
      BY <1>1, <3>2, WritesOfACall
  <2>4. ASSUME NEW d \in w
        PROVE  /\ call.read[d].calls = call.base.docs[d].calls
               /\ call.base.docs[d] = batchStore.docs[d]
               /\ \A b \in BatchCalls \ {c} : d \notin Staged(b)
    <3>1. d \in BatchDocs /\ d \notin WrittenBefore(c, i)
      BY <2>3
    <3>2. call.view.docs[d] = call.base.docs[d] /\ DocumentHolds(call.base.docs[d])
          /\ Grows(call.read[d].calls, call.base.docs[d].calls)
      BY <1>1, <3>1 DEF OpenHolds
    <3>3. SeenIn(call.read[d], call.read[d])
      BY <1>1, <3>1 DEF BatchHolds
    <3>4. call.view.docs[d].revision = call.read[d].revision
      BY <1>4 DEF Refused, AsRead
    <3>5. call.read[d].calls = call.base.docs[d].calls
      BY <2>2, <3>1, <3>2, <3>3, <3>4, RevisionNamesContent
    <3> QED
      BY <1>4, <3>5 DEF WriteConflict
  <2>5. Applied(c, call.view, i).docs =
          [d \in BatchDocs |-> IF d \in w THEN [revision |-> SequenceOf[c], calls |-> Append(call.read[d].calls, c)]
                               ELSE call.view.docs[d]]
        /\ Applied(c, call.view, i).dedupe = call.view.dedupe \cup {<<c, i>>}
        /\ Applied(c, call.view, i) = [docs |-> Applied(c, call.view, i).docs,
                                       dedupe |-> Applied(c, call.view, i).dedupe]
    BY DEF Applied
  <2>6. \A d \in BatchDocs : Applied(c, call.view, i).docs[d] =
          IF d \in w THEN FoldedBy(c, call.base.docs[d]) ELSE call.view.docs[d]
    BY ZenonT(60), <2>4, <2>5 DEF FoldedBy
  <2>7. Applied(c, call.view, i) \in BatchStore
    <3>1. \A d \in BatchDocs : Applied(c, call.view, i).docs[d] \in Document
      BY ZenonT(60), <2>2, <2>6, FoldedIn
    <3>2. Applied(c, call.view, i).docs \in Documents
      BY <2>5, <3>1 DEF Documents
    <3>3. Applied(c, call.view, i).dedupe \in SUBSET (BatchCalls \X Nat)
      BY <2>2, <2>5
    <3> QED
      BY <2>5, <3>2, <3>3 DEF BatchStore
  <2> DEFINE view == Applied(c, call.view, i)
  <2>8. /\ applied \in BatchCall /\ applied.phase = "open" /\ applied.index = i + 1
        /\ applied.view = view /\ applied.base = call.base /\ applied.read = call.read
        /\ applied.result = call.result
    <3>1. i + 1 \in Nat
      BY <2>2
    <3> HIDE DEF view
    <3> QED
      BY <1>1, <2>7, <3>1 DEF BatchCall, view
  <2> HIDE DEF applied
  <2>9. ASSUME NEW d \in BatchDocs
        PROVE  /\ view.docs[d] = IF d \in WrittenBefore(c, i + 1)
                                 THEN FoldedBy(c, call.base.docs[d]) ELSE call.base.docs[d]
               /\ d \in WrittenBefore(c, i + 1) => call.base.docs[d] = batchStore.docs[d]
    BY <1>1, <2>3, <2>4, <2>6 DEF OpenHolds
  <2>10. OpenHolds(c, applied, batchStore)
    BY <1>1, <2>3, <2>8, <2>9 DEF OpenHolds
  <2>11. BatchHolds(c, applied, batchStore)
    BY <1>1, <2>8, <2>10 DEF BatchHolds
  <2>12. ASSUME NEW b \in BatchCalls \ {c} PROVE WrittenApart(b, c, batchCall[b], applied)
    <3>1. SUFFICES ASSUME InTransaction(batchCall[b])
                   PROVE  WrittenBefore(b, batchCall[b].index) \cap WrittenBefore(c, i + 1) = {}
      BY <2>8 DEF WrittenApart
    <3>2. WrittenBefore(b, batchCall[b].index) \cap WrittenBefore(c, i) = {}
      BY <1>1, <3>1 DEF AtomicIInv, WrittenApart, InTransaction
    <3>3. Staged(b) = WrittenBefore(b, batchCall[b].index) \cap BatchDocs
      BY <3>1, StagedIsWritten DEF InTransaction
    <3> QED
      BY <2>3, <2>4, <3>2, <3>3
  <2> QED
    BY <1>1, <2>1, <2>8, <2>11, <2>12, CallStep
<1> QED
  BY SMTT(60), <1>2, <1>3, <1>4

-----------------------------------------------------------------------------
(* Batches: a batch is stored.                                             *)

StoreWith(c, st) ==
  [docs |-> [d \in BatchDocs |-> IF d \in DocsOf(c) THEN FoldedBy(c, st.docs[d]) ELSE st.docs[d]],
   dedupe |-> st.dedupe \cup KeysOf(c)]

LEMMA StoredOnce ==
  ASSUME NEW c \in BatchCalls, NEW st \in BatchStore, StoreHolds(st), ~IsStored(c, st), ~Invalid(c)
  PROVE  LET after == StoreWith(c, st)
         IN /\ after \in BatchStore /\ StoreHolds(after) /\ IsStored(c, after)
            /\ \A d \in BatchDocs : Grows(st.docs[d].calls, after.docs[d].calls)
            /\ \A d \in BatchDocs \ DocsOf(c) : after.docs[d] = st.docs[d]
            /\ \A b \in BatchCalls \ {c} : IsStored(b, after) <=> IsStored(b, st)
<1> DEFINE after == StoreWith(c, st)
<1>1. /\ DocsOf(c) \subseteq BatchDocs /\ KeysOf(c) # {} /\ KeysOf(c) \subseteq BatchCalls \X Nat
  BY WritesOfACall
<1>2. /\ \A d \in BatchDocs : st.docs[d] \in Document /\ DocumentHolds(st.docs[d])
      /\ st.dedupe \in SUBSET (BatchCalls \X Nat)
  BY DEF BatchStore, Documents, StoreHolds
<1>3. /\ after.dedupe = st.dedupe \cup KeysOf(c)
      /\ \A d \in BatchDocs : after.docs[d] = IF d \in DocsOf(c) THEN FoldedBy(c, st.docs[d]) ELSE st.docs[d]
      /\ after.docs = [d \in BatchDocs |-> after.docs[d]]
      /\ after = [docs |-> after.docs, dedupe |-> after.dedupe]
  BY DEF StoreWith
<1> HIDE DEF after
<1>4. ASSUME NEW d \in BatchDocs
      PROVE  /\ after.docs[d] \in Document /\ DocumentHolds(after.docs[d])
             /\ Grows(st.docs[d].calls, after.docs[d].calls)
             /\ \A b : b \in ToSet(after.docs[d].calls) <=>
                         b \in ToSet(st.docs[d].calls) \/ (b = c /\ d \in DocsOf(c))
  <2>1. c \notin ToSet(st.docs[d].calls)
    BY DEF StoreHolds, WholeHolds
  <2>2. st.docs[d].calls \in Seq(BatchCalls)
    BY <1>2 DEF Document
  <2>3. CASE d \in DocsOf(c)
    BY <1>2, <1>3, <2>1, <2>3, FoldedIn
  <2>4. CASE d \notin DocsOf(c)
    BY <1>2, <1>3, <2>2, <2>4, GrowsItself
  <2> QED
    BY <2>3, <2>4
<1>5. after \in BatchStore
  <2>1. after.docs \in Documents
    BY <1>3, <1>4 DEF Documents
  <2>2. after.dedupe \in SUBSET (BatchCalls \X Nat)
    BY <1>1, <1>2, <1>3
  <2> QED
    BY <1>3, <2>1, <2>2 DEF BatchStore
<1>6. IsStored(c, after) /\ KeysOf(c) \subseteq after.dedupe
  BY <1>1, <1>3 DEF IsStored
<1>7. \A b \in BatchCalls \ {c} : KeysOf(b) \cap after.dedupe = KeysOf(b) \cap st.dedupe
  <2>1. \A b \in BatchCalls \ {c} : KeysOf(b) \cap KeysOf(c) = {}
    BY DEF KeysOf
  <2> QED
    BY <1>3, <2>1
<1>8. \A b \in BatchCalls \ {c} : IsStored(b, after) <=> IsStored(b, st)
  BY <1>7 DEF IsStored
<1>9. ASSUME NEW b \in BatchCalls PROVE WholeHolds(b, after)
  <2>1. CASE b = c
    BY <1>4, <1>6, <2>1 DEF WholeHolds, StoreHolds
  <2>2. CASE b # c
    <3>1. WholeHolds(b, st) /\ (IsStored(b, after) <=> IsStored(b, st)) /\ st.dedupe \subseteq after.dedupe
      BY <1>3, <1>8, <2>2 DEF StoreHolds
    <3> QED
      BY <1>4, <2>2, <3>1 DEF WholeHolds
  <2> QED
    BY <2>1, <2>2
<1>10. StoreHolds(after)
  BY <1>4, <1>9 DEF StoreHolds
<1> QED
  BY <1>3, <1>4, <1>5, <1>6, <1>8, <1>10 DEF after

LEMMA StoredStep ==
  ASSUME AtomicIInv, NEW c \in BatchCalls, NEW result \in {"committed", "transient"},
         ~Invalid(c), batchCall[c].phase \in {"ready", "open"},
         \A b \in BatchCalls \ {c} : InTransaction(batchCall[b]) =>
           WrittenBefore(b, batchCall[b].index) \cap DocsOf(c) = {},
         batchStore' = StoreWith(c, batchStore), Becomes(c, Answered(c, result)),
         adapter' = adapter, batchFaults' \in Nat
  PROVE  AtomicIInv'
<1> DEFINE call == Answered(c, result)
           st == batchStore
           after == StoreWith(c, st)
<1>1. /\ batchCall[c] \in BatchCall /\ ~IsStored(c, st) /\ st \in BatchStore /\ StoreHolds(st)
      /\ \A d \in BatchDocs : st.docs[d] \in Document
  BY CallTyped DEF BatchHolds, AtomicIInv
<1>2. call \in BatchCall /\ call.phase = "done" /\ call.result = result
  BY <1>1, NewCallTyped DEF Answered, BatchCall
<1>3. /\ after \in BatchStore /\ StoreHolds(after) /\ IsStored(c, after)
      /\ \A d \in BatchDocs : Grows(st.docs[d].calls, after.docs[d].calls)
      /\ \A d \in BatchDocs \ DocsOf(c) : after.docs[d] = st.docs[d]
      /\ \A b \in BatchCalls \ {c} : IsStored(b, after) <=> IsStored(b, st)
  BY <1>1, StoredOnce
<1>4. \A d \in BatchDocs : after.docs[d] \in Document
  BY <1>3 DEF BatchStore, Documents
<1>5. PICK calls : calls = batchCall'
  OBVIOUS
<1>6. /\ batchCall \in [BatchCalls -> BatchCall] /\ calls \in [BatchCalls -> BatchCall]
      /\ \A b \in BatchCalls : calls[b] = IF b = c THEN call ELSE batchCall[b]
  BY <1>2, <1>5 DEF AtomicIInv, AtomicTypeOK, Becomes
<1> HIDE DEF call, after
<1>7. BatchHolds(c, call, after)
  BY <1>2, <1>3 DEF BatchHolds
<1>8. ASSUME NEW b \in BatchCalls \ {c} PROVE BatchHolds(b, batchCall[b], after)
  <2> DEFINE other == batchCall[b]
  <2>1. other \in BatchCall /\ BatchHolds(b, other, st)
    BY CallTyped
  <2>2. \A d \in BatchDocs : other.read[d] \in Document
    BY <2>1 DEF BatchCall, Documents
  <2>3. IsStored(b, after) <=> IsStored(b, st)
    BY <1>3
  <2>4. ASSUME other.phase = "reading", NEW d \in BatchDocs PROVE SeenIn(other.read[d], after.docs[d])
    <3>1. SeenIn(other.read[d], st.docs[d])
      BY <2>1, <2>4 DEF BatchHolds
    <3> QED
      BY <1>1, <1>3, <1>4, <3>1, SeenOn
  <2>5. ASSUME other.phase \in {"ready", "open"}, NEW d \in BatchDocs
        PROVE  SeenIn(other.read[d], other.read[d]) /\ Grows(other.read[d].calls, after.docs[d].calls)
    <3>1. SeenIn(other.read[d], other.read[d]) /\ Grows(other.read[d].calls, st.docs[d].calls)
      BY <2>1, <2>5 DEF BatchHolds
    <3>2. /\ other.read[d].calls \in Seq(BatchCalls) /\ st.docs[d].calls \in Seq(BatchCalls)
          /\ after.docs[d].calls \in Seq(BatchCalls)
      BY <1>1, <1>4, <2>2 DEF Document
    <3>3. Grows(st.docs[d].calls, after.docs[d].calls)
      BY <1>3
    <3> QED
      BY <3>1, <3>2, <3>3, GrowsOn
  <2>6. ASSUME other.phase = "open" PROVE OpenHolds(b, other, after)
    <3>1. OpenHolds(b, other, st)
      BY <2>1, <2>6 DEF BatchHolds
    <3>2. \A d \in BatchDocs : d \in WrittenBefore(b, other.index) => after.docs[d] = st.docs[d]
      BY <1>3, <2>6 DEF InTransaction
    <3> QED
      BY <3>1, <3>2 DEF OpenHolds
  <2> HIDE DEF other
  <2>7. BatchHolds(b, other, after)
    BY <2>1, <2>3, <2>4, <2>5, <2>6 DEF BatchHolds
  <2> QED
    BY <2>7 DEF other
<1>9. PICK s : s = batchStore'
  OBVIOUS
<1>10. s = after
  BY <1>9 DEF after
<1>11. AtomicTypeOK'
  BY <1>3, <1>5, <1>6, <1>9, <1>10 DEF AtomicTypeOK, AtomicIInv
<1>12. StoreHolds(batchStore)'
  <2>1. StoreHolds(s)
    BY <1>3, <1>10
  <2> QED
    BY <2>1, <1>9 DEF StoreHolds, WholeHolds, IsStored
<1>13. ASSUME NEW b \in BatchCalls PROVE BatchHolds(b, batchCall[b], batchStore)'
  <2>1. BatchHolds(b, calls[b], s)
    BY <1>6, <1>7, <1>8, <1>10
  <2> QED
    BY <2>1, <1>5, <1>9 DEF BatchHolds, OpenHolds, IsStored
<1>14. ASSUME NEW a \in BatchCalls, NEW b \in BatchCalls, a # b
       PROVE  WrittenApart(a, b, batchCall[a], batchCall[b])'
  <2>1. WrittenApart(a, b, calls[a], calls[b])
    BY <1>2, <1>6, <1>14 DEF WrittenApart, InTransaction, AtomicIInv
  <2> QED
    BY <2>1, <1>5 DEF WrittenApart
<1> QED
  BY <1>11, <1>12, <1>13, <1>14 DEF AtomicIInv

(* The end of a transaction, whether its answer arrives or not.              *)
LEMMA CommittedStep ==
  ASSUME AtomicIInv, NEW c \in BatchCalls, NEW result \in {"committed", "transient"},
         batchCall[c].phase = "open", batchCall[c].index \notin Writes(c),
         batchStore' = WithBatch(c), Becomes(c, Answered(c, result)),
         adapter' = adapter, batchFaults' \in Nat
  PROVE  AtomicIInv'
<1> DEFINE call == batchCall[c]
<1>1. call \in BatchCall /\ OpenHolds(c, call, batchStore)
  BY CallTyped DEF BatchHolds
<1>2. call.index = Len(WritesOf[c]) + 1
  <2>1. /\ Len(WritesOf[c]) \in Nat /\ call.index \in 1..(Len(WritesOf[c]) + 1)
        /\ call.index \notin 1..Len(WritesOf[c])
    BY <1>1, WritesOfACall DEF OpenHolds
  <2> QED
    BY <2>1
<1>3. WrittenBefore(c, call.index) = DocsOf(c) /\ DocsOf(c) \subseteq BatchDocs
  BY <1>2, WritesOfACall
<1>4. Staged(c) = DocsOf(c)
  BY <1>3, StagedIsWritten
<1>5. WithBatch(c) = StoreWith(c, batchStore)
  <2>1. \A d \in DocsOf(c) : call.view.docs[d] = FoldedBy(c, batchStore.docs[d])
    BY <1>1, <1>3 DEF OpenHolds
  <2>2. \A d \in BatchDocs : (IF d \in Staged(c) THEN call.view.docs[d] ELSE batchStore.docs[d])
                           = (IF d \in DocsOf(c) THEN FoldedBy(c, batchStore.docs[d]) ELSE batchStore.docs[d])
    BY <1>4, <2>1
  <2> QED
    BY <2>2 DEF WithBatch, StoreWith
<1>6. \A b \in BatchCalls \ {c} : InTransaction(batchCall[b]) =>
        WrittenBefore(b, batchCall[b].index) \cap DocsOf(c) = {}
  BY <1>3 DEF AtomicIInv, WrittenApart, InTransaction
<1>7. ~Invalid(c)
  BY <1>1 DEF OpenHolds
<1> QED
  BY <1>5, <1>6, <1>7, StoredStep

-----------------------------------------------------------------------------
(* Batches: the in-memory store, whose writes are folded over a copy.      *)

LEMMA LeastNatural ==
  ASSUME NEW T \in SUBSET Nat, T # {}
  PROVE  \E x \in T : \A y \in T : x <= y
<1>1. \E x \in T : \A y \in T : ~ (<<y, x>> \in OpToRel(<, Nat))
  BY NatLessThanWellFounded, WFMin
<1>2. ASSUME NEW x \in T, NEW y \in T, ~ (<<y, x>> \in OpToRel(<, Nat)) PROVE x <= y
  <2>1. x \in Nat /\ y \in Nat
    OBVIOUS
  <2>2. ~ (y < x)
    BY <1>2, <2>1 DEF OpToRel
  <2> QED
    BY <2>1, <2>2
<1> QED
  BY <1>1, <1>2

(* A set of naturals that holds 0 and, up to n, the successors of its        *)
(* members, holds all of them up to n.                                       *)
LEMMA UpTo ==
  ASSUME NEW n \in Nat, NEW T, 0 \in T, \A k \in Nat : k < n /\ k \in T => k + 1 \in T
  PROVE  \A k \in 0..n : k \in T
<1> DEFINE missing == {k \in 0..n : k \notin T}
<1>1. SUFFICES ASSUME missing # {} PROVE FALSE
  OBVIOUS
<1>2. PICK k \in missing : \A j \in missing : k <= j
  <2>1. missing \in SUBSET Nat
    OBVIOUS
  <2> HIDE DEF missing
  <2> QED
    BY <1>1, <2>1, LeastNatural
<1>3. k \in Nat /\ k # 0 /\ k <= n /\ k \notin T
  OBVIOUS
<1>4. k - 1 \in Nat /\ k - 1 < n /\ k - 1 \in 0..n /\ ~ (k <= k - 1) /\ (k - 1) + 1 = k
  BY <1>3
<1>5. k - 1 \in T
  BY <1>2, <1>4
<1> QED
  BY <1>3, <1>4, <1>5

LEMMA MaxOfPrefix ==
  ASSUME NEW m \in Nat, NEW x \in SUBSET (1..(m + 1)), m + 1 \in x
  PROVE  Max(x) = m + 1 /\ x \ {m + 1} \in SUBSET (1..m)
<1>1. \A y \in x : y \in Nat /\ y <= m + 1
  OBVIOUS
<1>2. \A y \in x : (\A z \in x : y >= z) => y = m + 1
  BY <1>1
<1>3. \A z \in x : m + 1 >= z
  BY <1>1
<1>4. Max(x) = m + 1
  BY <1>2, <1>3 DEF Max
<1> QED
  BY <1>1, <1>4

(* The fold of CommitInMemory, as a whole and write by write.                *)
Stage(c, staged, i) ==
  [view |-> Applied(c, staged.view, i), refused |-> staged.refused \/ Refused(c, staged.view, i)]
StagedAll(c, base, q) ==
  FoldLeft(LAMBDA staged, i : Stage(c, staged, i), base, q)

StagesTrace(it, c, base, n) ==
  /\ it[0] = base
  /\ \A k \in 1..n : it[k] = Stage(c, it[k - 1], k)
  /\ StagedAll(c, base, [i \in 1..n |-> i]) = it[n]

LEMMA StagesFold ==
  ASSUME NEW c, NEW base, NEW n \in Nat
  PROVE  \E it : StagesTrace(it, c, base, n)
<1> DEFINE q == [i \in 1..n |-> i]
           Step(r, k) == Stage(c, r, q[k])
           Unfolds(f, m) == f = [x \in SUBSET (1..m) |->
                                 IF x = {} THEN base ELSE Step(f[x \ {Max(x)}], Max(x))]
           T == {m \in Nat : \E f : Unfolds(f, m)}
<1>1. 0 \in T
  <2>1. Unfolds([x \in SUBSET (1..0) |-> base], 0)
    OBVIOUS
  <2> QED
    BY <2>1
<1>2. ASSUME NEW m \in Nat, m \in T PROVE m + 1 \in T
  <2>1. PICK f : Unfolds(f, m)
    BY <1>2
  <2> HIDE DEF Step
  <2>2. \A x \in SUBSET (1..m) : f[x] = IF x = {} THEN base ELSE Step(f[x \ {Max(x)}], Max(x))
    BY <2>1
  <2> DEFINE g == [x \in SUBSET (1..(m + 1)) |->
                     IF m + 1 \in x THEN Step(f[x \ {m + 1}], m + 1) ELSE f[x]]
  <2>3. ASSUME NEW x \in SUBSET (1..(m + 1))
        PROVE  g[x] = IF x = {} THEN base ELSE Step(g[x \ {Max(x)}], Max(x))
    <3>1. CASE m + 1 \in x
      <4>1. Max(x) = m + 1 /\ x \ {m + 1} \in SUBSET (1..m) /\ m + 1 \notin x \ {m + 1}
        BY <3>1, MaxOfPrefix
      <4>2. x \ {m + 1} \in SUBSET (1..(m + 1))
        OBVIOUS
      <4> QED
        BY <3>1, <4>1, <4>2
    <3>2. CASE m + 1 \notin x
      <4>0. \A y \in 1..(m + 1) : y # m + 1 => y \in 1..m
        OBVIOUS
      <4>1. x \in SUBSET (1..m) /\ x \ {Max(x)} \in SUBSET (1..(m + 1)) /\ m + 1 \notin x \ {Max(x)}
        BY <3>2, <4>0
      <4> QED
        BY <3>2, <4>1, <2>2
    <3> QED
      BY <3>1, <3>2
  <2>4. Unfolds(g, m + 1)
    BY <2>3
  <2> HIDE DEF Folds, g
  <2>5. \E h : Unfolds(h, m + 1)
    BY <2>4
  <2> QED
    BY <2>5
<1> HIDE DEF T
<1>3. n \in T
  <2>1. \A k \in 0..n : k \in T
    BY <1>1, <1>2, UpTo
  <2> QED
    BY <2>1
<1> DEFINE f == CHOOSE f : Unfolds(f, n)
<1>4. Unfolds(f, n)
  BY <1>3 DEF T
<1>5. StagedAll(c, base, q) = f[1..n]
  BY DEF StagedAll, FoldLeft, MapThenFoldSet
<1> HIDE DEF f, Step
<1>6. \A x \in SUBSET (1..n) : f[x] = IF x = {} THEN base ELSE Step(f[x \ {Max(x)}], Max(x))
  BY <1>4
<1> DEFINE it == [k \in 0..n |-> f[1..k]]
<1>7. it[0] = base
  <2>1. 1..0 = {} /\ 1..0 \in SUBSET (1..n)
    OBVIOUS
  <2>2. f[1..0] = base
    BY <2>1, <1>6
  <2> QED
    BY <2>2
<1>8. ASSUME NEW k \in 1..n PROVE it[k] = Step(it[k - 1], k)
  <2>1. k - 1 \in Nat /\ (k - 1) + 1 = k
    OBVIOUS
  <2>2. 1..k \in SUBSET (1..((k - 1) + 1)) /\ (k - 1) + 1 \in 1..k
    BY <2>1
  <2>3. Max(1..k) = k
    BY <2>1, <2>2, MaxOfPrefix
  <2>4. (1..k) \ {k} = 1..(k - 1) /\ 1..k \in SUBSET (1..n) /\ 1..k # {} /\ k - 1 \in 0..n
    <3>1. k \in Nat /\ k <= n /\ 1 <= k
      BY <2>1
    <3>2. (1..k) \ {k} = 1..(k - 1) /\ k \in 1..k
      BY <3>1
    <3>3. \A j \in 1..k : j \in 1..n
      BY <3>1
    <3>4. k - 1 \in 0..n
      BY <3>1
    <3> QED
      BY <3>2, <3>3, <3>4
  <2>5. f[1..k] = Step(f[1..(k - 1)], k)
    BY <2>3, <2>4, <1>6
  <2>6. it[k] = f[1..k] /\ it[k - 1] = f[1..(k - 1)]
    BY <2>4
  <2> QED
    BY <2>5, <2>6
<1>9. it[n] = f[1..n]
  OBVIOUS
<1> HIDE DEF it
<1>10. \A k \in 1..n : it[k] = Stage(c, it[k - 1], k)
  BY <1>8 DEF Step
<1>11. StagedAll(c, base, q) = it[n]
  BY <1>5, <1>9
<1> QED
  BY <1>7, <1>10, <1>11 DEF StagesTrace

(* What the first k writes of a batch leave, unless one is refused.          *)
StagedSoFar(c, st, staged, k) ==
  ~staged.refused =>
    /\ \A d \in BatchDocs : staged.view.docs[d] =
         IF d \in WrittenBefore(c, k + 1) THEN FoldedBy(c, st.docs[d]) ELSE st.docs[d]
    /\ staged.view.docs = [d \in BatchDocs |-> staged.view.docs[d]]
    /\ staged.view.dedupe = st.dedupe \cup {<<c, i>> : i \in 1..k}
    /\ staged.view = [docs |-> staged.view.docs, dedupe |-> staged.view.dedupe]

LEMMA StagedWhole ==
  ASSUME AtomicIInv, NEW c \in BatchCalls, batchCall[c].phase = "ready", ~Invalid(c),
         ~StagedAll(c, [view |-> batchStore, refused |-> FALSE], [i \in Writes(c) |-> i]).refused
  PROVE  StagedAll(c, [view |-> batchStore, refused |-> FALSE], [i \in Writes(c) |-> i]).view
           = StoreWith(c, batchStore)
<1> DEFINE call == batchCall[c]
           st == batchStore
           n == Len(WritesOf[c])
           base == [view |-> st, refused |-> FALSE]
<1>1. /\ call \in BatchCall /\ BatchHolds(c, call, st) /\ st \in BatchStore
      /\ \A d \in BatchDocs : st.docs[d] \in Document /\ DocumentHolds(st.docs[d])
      /\ \A d \in BatchDocs : call.read[d] \in Document
  BY CallTyped DEF BatchCall, Documents
<1>2. /\ n \in Nat /\ Writes(c) = 1..n /\ WrittenBefore(c, 1) = {}
      /\ WrittenBefore(c, n + 1) = DocsOf(c) /\ DocsOf(c) \subseteq BatchDocs
  BY WritesOfACall
<1>3. PICK it : /\ it[0] = base
                /\ \A k \in 1..n : it[k] = Stage(c, it[k - 1], k)
                /\ StagedAll(c, base, [i \in 1..n |-> i]) = it[n]
  <2>1. PICK it : StagesTrace(it, c, base, n)
    BY <1>2, StagesFold
  <2> QED
    BY <2>1 DEF StagesTrace
<1> HIDE DEF call
<1> DEFINE T == {k \in 0..n : StagedSoFar(c, st, it[k], k)}
<1>4. 0 \in T
  <2>1. it[0].view = st /\ 1..0 = {} /\ 0 \in 0..n
    BY <1>2, <1>3
  <2>2. {<<c, i>> : i \in 1..0} = {}
    BY <2>1
  <2>3. st.docs = [d \in BatchDocs |-> st.docs[d]] /\ st = [docs |-> st.docs, dedupe |-> st.dedupe]
    BY <1>1 DEF BatchStore, Documents
  <2>4. StagedSoFar(c, st, it[0], 0)
    BY <1>2, <2>1, <2>2, <2>3 DEF StagedSoFar
  <2> QED
    BY <2>1, <2>4
<1>5. ASSUME NEW k \in Nat, k < n, k \in T PROVE k + 1 \in T
  <2> DEFINE i == k + 1
             w == ToSet(WritesOf[c][i])
  <2>1. i \in 1..n /\ i - 1 = k /\ i \in 0..n /\ i \in Nat
    BY <1>2, <1>5
  <2>2. it[i] = Stage(c, it[k], i)
    BY <1>3, <2>1
  <2>3. /\ it[i].view = Applied(c, it[k].view, i)
        /\ it[i].refused <=> it[k].refused \/ Refused(c, it[k].view, i)
    <3> DEFINE before == it[k]
               view == Applied(c, before.view, i)
               refused == before.refused \/ Refused(c, before.view, i)
    <3>1. it[i] = [view |-> view, refused |-> refused]
      BY <2>2 DEF Stage
    <3> HIDE DEF view, refused
    <3>2. it[i].view = view /\ it[i].refused = refused
      BY <3>1
    <3> QED
      BY <3>2 DEF view, refused
  <2>4. StagedSoFar(c, st, it[k], k)
    BY <1>5
  <2>5. /\ WrittenBefore(c, i + 1) = WrittenBefore(c, i) \cup w
        /\ WrittenBefore(c, i) \cap w = {} /\ w \subseteq BatchDocs
    BY <1>2, <2>1, WritesOfACall
  <2>6. SUFFICES ASSUME ~it[k].refused, ~Refused(c, it[k].view, i)
                 PROVE  StagedSoFar(c, st, it[i], i)
    BY <2>1, <2>3 DEF StagedSoFar
  <2> HIDE DEF i, T
  <2>7. /\ \A d \in BatchDocs : it[k].view.docs[d] =
             IF d \in WrittenBefore(c, i) THEN FoldedBy(c, st.docs[d]) ELSE st.docs[d]
        /\ it[k].view.dedupe = st.dedupe \cup {<<c, j>> : j \in 1..k}
    BY <2>4, <2>6 DEF StagedSoFar, i
  <2>8. ASSUME NEW d \in w PROVE call.read[d].calls = st.docs[d].calls
    <3>1. d \in BatchDocs /\ it[k].view.docs[d] = st.docs[d]
      BY <2>5, <2>7
    <3>2. SeenIn(call.read[d], call.read[d]) /\ Grows(call.read[d].calls, st.docs[d].calls)
      BY <1>1, <3>1 DEF BatchHolds, call
    <3>3. st.docs[d].revision = call.read[d].revision
      BY <2>6, <3>1 DEF Refused, AsRead, call
    <3> QED
      BY <1>1, <3>1, <3>2, <3>3, RevisionNamesContent
  <2>9. /\ it[i].view.docs =
             [d \in BatchDocs |-> IF d \in w THEN [revision |-> SequenceOf[c], calls |-> Append(call.read[d].calls, c)]
                                  ELSE it[k].view.docs[d]]
        /\ it[i].view.dedupe = it[k].view.dedupe \cup {<<c, i>>}
        /\ it[i].view = [docs |-> it[i].view.docs, dedupe |-> it[i].view.dedupe]
    BY <2>3 DEF Applied, call
  <2>10. \A d \in BatchDocs : it[i].view.docs[d] =
           IF d \in WrittenBefore(c, i + 1) THEN FoldedBy(c, st.docs[d]) ELSE st.docs[d]
    BY <2>5, <2>7, <2>8, <2>9 DEF FoldedBy
  <2>11. it[i].view.dedupe = st.dedupe \cup {<<c, j>> : j \in 1..i}
    <3>1. \A j : j \in 1..i <=> j \in 1..k \/ j = i
      BY <1>5 DEF i
    <3>2. {<<c, j>> : j \in 1..i} = {<<c, j>> : j \in 1..k} \cup {<<c, i>>}
      BY <3>1
    <3> QED
      BY <2>7, <2>9, <3>2
  <2>12. it[i].view.docs = [d \in BatchDocs |-> it[i].view.docs[d]]
    BY <2>9
  <2> QED
    BY <2>9, <2>10, <2>11, <2>12 DEF StagedSoFar
<1>6. n \in T
  <2> HIDE DEF T
  <2>1. \A k \in 0..n : k \in T
    BY <1>2, <1>4, <1>5, UpTo
  <2> QED
    BY <1>2, <2>1
<1>7. StagedSoFar(c, st, it[n], n) /\ ~it[n].refused
  BY <1>2, <1>3, <1>6
<1>8. /\ it[n].view.docs = [d \in BatchDocs |-> IF d \in DocsOf(c) THEN FoldedBy(c, st.docs[d]) ELSE st.docs[d]]
      /\ it[n].view.dedupe = st.dedupe \cup KeysOf(c)
      /\ it[n].view = [docs |-> it[n].view.docs, dedupe |-> it[n].view.dedupe]
  BY <1>2, <1>7 DEF StagedSoFar, KeysOf
<1> QED
  BY <1>2, <1>3, <1>8 DEF StoreWith

LEMMA CommitInMemoryStep ==
  ASSUME AtomicIInv, NEW c \in BatchCalls, CommitInMemory(c) PROVE AtomicIInv'
<1> DEFINE staged == StagedAll(c, [view |-> batchStore, refused |-> FALSE], [i \in Writes(c) |-> i])
<1>1. /\ adapter = "memory" /\ batchCall[c].phase = "ready" /\ ~Invalid(c)
      /\ UNCHANGED <<adapter, batchFaults>>
      /\ IF staged.refused
         THEN Becomes(c, Answered(c, "conflict")) /\ UNCHANGED batchStore
         ELSE Becomes(c, Answered(c, "committed")) /\ batchStore' = staged.view
  BY DEF CommitInMemory, StagedAll, Stage
<1>2. batchFaults' \in Nat
  BY <1>1, CallTyped
<1> HIDE DEF staged
<1>3. CASE staged.refused
  BY <1>1, <1>2, <1>3, AnswerStep
<1>4. CASE ~staged.refused
  <2>1. batchStore' = StoreWith(c, batchStore)
    BY <1>1, <1>4, StagedWhole DEF staged
  <2>2. \A b \in BatchCalls : ~InTransaction(batchCall[b])
    BY <1>1 DEF AtomicIInv, BatchHolds, OpenHolds, InTransaction
  <2> QED
    BY <1>1, <1>2, <1>4, <2>1, <2>2, StoredStep
<1> QED
  BY <1>3, <1>4

LEMMA NextAtomicIInv == AtomicIInv /\ [AtomicNext]_atomicVars => AtomicIInv'
<1> SUFFICES ASSUME AtomicIInv, [AtomicNext]_atomicVars PROVE AtomicIInv'
  OBVIOUS
<1> USE AtomicAssumption
<1>1. CASE UNCHANGED atomicVars
  BY ZenonT(60), <1>1 DEF atomicVars, AtomicIInv, AtomicTypeOK, StoreHolds, WholeHolds, IsStored, BatchHolds,
              OpenHolds, WrittenApart
<1>2. ASSUME NEW c \in BatchCalls, CommitInvalid(c) PROVE AtomicIInv'
  BY <1>2, CallTyped, AnswerStep DEF CommitInvalid
<1>3. ASSUME NEW c \in BatchCalls, BeginTransaction(c) PROVE AtomicIInv'
  BY <1>3, CallTyped, BegunHolds DEF BeginTransaction
<1>4. ASSUME NEW c \in BatchCalls, CommitTransaction(c) PROVE AtomicIInv'
  BY <1>4, CallTyped, CommittedStep DEF CommitTransaction
<1>5. ASSUME NEW c \in BatchCalls, CommitUnknown(c) PROVE AtomicIInv'
  <2>1. batchFaults' \in Nat
    BY <1>5, CallTyped DEF CommitUnknown, BatchFault
  <2> QED
    BY <1>5, <2>1, CommittedStep DEF CommitUnknown
<1>6. ASSUME NEW c \in BatchCalls, TransactionFails(c) PROVE AtomicIInv'
  BY <1>6, CallTyped, AnswerStep DEF TransactionFails, BatchFault
<1> QED
  BY <1>1, <1>2, <1>3, <1>4, <1>5, <1>6, HostReadsRevisionsStep, HostReadsDocumentsStep,
     HostRetriesStep, CommitInMemoryStep, ApplyWriteStep DEF AtomicNext

LEMMA AtomicIInvIsWhole == AtomicIInv => BatchesAreWhole
<1> SUFFICES ASSUME AtomicIInv, NEW c \in BatchCalls
             PROVE  /\ IsStored(c, batchStore) => KeysOf(c) \subseteq batchStore.dedupe
                    /\ \A d \in DocsOf(c) :
                         Cardinality({n \in DOMAIN batchStore.docs[d].calls : batchStore.docs[d].calls[n] = c})
                           = IF IsStored(c, batchStore) THEN 1 ELSE 0
                    /\ batchCall[c].result \in {"committed", "duplicate"} => IsStored(c, batchStore)
                    /\ batchCall[c].result \in {"conflict", "terminal"} => ~IsStored(c, batchStore)
  BY DEF BatchesAreWhole, IsStored
<1>1. BatchHolds(c, batchCall[c], batchStore) /\ WholeHolds(c, batchStore)
  BY DEF AtomicIInv, StoreHolds
<1>2. ASSUME NEW d \in DocsOf(c)
      PROVE  Cardinality({n \in DOMAIN batchStore.docs[d].calls : batchStore.docs[d].calls[n] = c})
               = IF IsStored(c, batchStore) THEN 1 ELSE 0
  <2> DEFINE calls == batchStore.docs[d].calls
             at == {n \in DOMAIN calls : calls[n] = c}
  <2>1. d \in BatchDocs /\ IsInjective(calls)
    BY WritesOfACall, CallTyped DEF DocumentHolds
  <2>2. c \in ToSet(calls) <=> IsStored(c, batchStore)
    BY <1>1, <2>1 DEF WholeHolds
  <2> HIDE DEF calls
  <2>3. CASE IsStored(c, batchStore)
    <3>1. PICK n \in DOMAIN calls : calls[n] = c
      BY <2>2, <2>3 DEF ToSet
    <3>2. at = {n}
      BY <2>1, <3>1 DEF IsInjective
    <3>3. Cardinality({n}) = 1
      BY FS_Singleton
    <3> QED
      BY <2>3, <3>2, <3>3 DEF calls
  <2>4. CASE ~IsStored(c, batchStore)
    <3>1. at = {}
      BY <2>2, <2>4 DEF ToSet
    <3>2. Cardinality({}) = 0
      BY FS_EmptySet
    <3> QED
      BY <2>4, <3>1, <3>2 DEF calls
  <2> QED
    BY <2>3, <2>4
<1> QED
  BY <1>1, <1>2 DEF BatchHolds, WholeHolds

(* For any calls, writes and documents, however attempts overlap, conflict or *)
(* end without an answer: a batch of commitAtomicMany is stored whole or not   *)
(* at all, none is lost or folded twice, and what it answers is true.          *)
THEOREM BatchesAreStoredWhole == AtomicSpec => []BatchesAreWhole
<1>1. AtomicInit => AtomicIInv
  BY InitAtomicIInv
<1>2. AtomicIInv /\ [AtomicNext]_atomicVars => AtomicIInv'
  BY NextAtomicIInv
<1>3. AtomicIInv => BatchesAreWhole
  BY AtomicIInvIsWhole
<1> QED
  BY <1>1, <1>2, <1>3, PTL DEF AtomicSpec

-----------------------------------------------------------------------------
(* The worker core and its replay: the inductive invariant.                *)

Contents == [ReplayTargets -> Seq(Nat)]
CacheEntry == [target : ReplayTargets, value : Seq(Nat)]
Run == [poll : ReplayPolls, events : Seq(ReplayEvents), phase : {"queued", "storing", "settled"},
        held : Contents, decision : {"none", "ack", "nack", "thrown"}]
Poll == [phase : {"new", "polling", "pushing", "done"}, start : Nat, next : Nat,
         events : Seq(ReplayEvents)]

WorkerTypeOK ==
  /\ documents \in Contents
  /\ stateCache \in Seq(CacheEntry)
  /\ runs \in Seq(Run)
  /\ poll \in [ReplayPolls -> Poll]
  /\ replay \in [cursor : 0..Len(ReplayFeed), seen : SUBSET ReplayEvents]
  /\ foreign \in Nat /\ workerFaults \in Nat
  /\ stale \in SUBSET ReplayTargets /\ straight \in BOOLEAN

Folded(e, docs) == \A t \in TargetsOf[e] : e \in ToSet(docs[t])

\* A run is settled with a decision, and holds no event twice; one that is
\* acknowledged is folded.
RunHolds(r, docs) ==
  /\ r.phase = "settled" <=> r.decision # "none"
  /\ IsInjective(r.events)
  /\ r.decision = "ack" => \A e \in ToSet(r.events) : Folded(e, docs)

\* Of two runs that share a lane the later one waits; the runs of a poll have
\* no event in common.
RunsApart(q) == \A i, j \in DOMAIN q :
  /\ i < j /\ q[i].phase # "settled" /\ q[j].phase = "storing" => ~ShareLane(q[i], q[j])
  /\ i # j /\ q[i].poll = q[j].poll => ToSet(q[i].events) \cap ToSet(q[j].events) = {}

\* An event of a poll is folded already or in one of its runs.
PollHolds(p, call, q, docs) ==
  /\ call.start <= Len(ReplayFeed) /\ call.next <= Len(ReplayFeed)
  /\ call.phase \in {"polling", "pushing"} => \A k \in 1..call.start : Folded(ReplayFeed[k], docs)
  /\ call.phase = "pushing" => \A k \in (call.start + 1)..call.next :
       \/ Folded(ReplayFeed[k], docs)
       \/ \E i \in DOMAIN q : q[i].poll = p /\ ReplayFeed[k] \in ToSet(q[i].events)
  /\ \A i \in DOMAIN q : q[i].poll = p => call.phase \in {"pushing", "done"}

\* What is known as acknowledged is folded, and so is what the cursor passed.
ReplayHolds(rep, docs) ==
  /\ \A e \in rep.seen : Folded(e, docs)
  /\ \A k \in 1..rep.cursor : Folded(ReplayFeed[k], docs)

EntryHolds(entry, q, docs, st) ==
  \/ entry.target \in st
  \/ \E j \in DOMAIN q : q[j].phase = "storing" /\ entry.target \in TargetsIn(q[j])
  \/ entry.value = docs[entry.target]

\* An entry is a document, unless it is excused, or what a run is storing.
CacheHolds(cache, q, docs, st) == \A entry \in ToSet(cache) :
  /\ EntryHolds(entry, q, docs, st)
  /\ \A j \in DOMAIN q : q[j].phase = "storing" /\ entry.target \in TargetsIn(q[j]) =>
       entry.value = q[j].held[entry.target] \o Folds(q[j], entry.target)

OnceIn(seq) == \A i, j \in DOMAIN seq : seq[i] = seq[j] /\ i # j => seq[i] = 0

\* While polls take turns, an event is folded by an acknowledged run alone.
StraightHolds(calls, q, rep, docs) ==
  /\ \A p, r \in ReplayPolls : p # r => calls[p].phase \in {"new", "done"} \/ calls[r].phase \in {"new", "done"}
  /\ \A i \in DOMAIN q :
       /\ q[i].decision # "thrown"
       /\ q[i].phase # "settled" => /\ calls[q[i].poll].phase = "pushing"
                                    /\ \A e \in ToSet(q[i].events), t \in ReplayTargets : e \notin ToSet(docs[t])
       /\ q[i].decision = "ack" /\ calls[q[i].poll].phase = "done" => ToSet(q[i].events) \subseteq rep.seen
  /\ \A t \in ReplayTargets :
       /\ OnceIn(docs[t])
       /\ \A e \in ToSet(docs[t]) : e # 0 => \E i \in DOMAIN q : q[i].decision = "ack" /\ e \in ToSet(q[i].events)

WorkerIInv ==
  /\ WorkerTypeOK
  /\ \A i \in DOMAIN runs : RunHolds(runs[i], documents)
  /\ RunsApart(runs)
  /\ \A p \in ReplayPolls : PollHolds(p, poll[p], runs, documents)
  /\ ReplayHolds(replay, documents)
  /\ CacheHolds(stateCache, runs, documents, stale)
  /\ straight => StraightHolds(poll, runs, replay, documents)

-----------------------------------------------------------------------------
(* The elements of a sequence that are in a set.                           *)

AmongTrace(it, seq, set, base, n) ==
  /\ it[0] = base
  /\ \A k \in 1..n : it[k] = IF seq[k] \in set THEN Append(it[k - 1], seq[k]) ELSE it[k - 1]
  /\ Among(seq, set) = it[n]

LEMMA AmongFold ==
  ASSUME NEW seq, NEW set, NEW n \in Nat, DOMAIN seq = 1..n, NEW base, base = <<>>
  PROVE  \E it : AmongTrace(it, seq, set, base, n)
<1> DEFINE Step(r, k) == IF seq[k] \in set THEN Append(r, seq[k]) ELSE r
           Unfolds(f, m) == f = [x \in SUBSET (1..m) |->
                                 IF x = {} THEN base ELSE Step(f[x \ {Max(x)}], Max(x))]
           T == {m \in Nat : \E f : Unfolds(f, m)}
<1>1. 0 \in T
  <2>1. Unfolds([x \in SUBSET (1..0) |-> base], 0)
    OBVIOUS
  <2> QED
    BY <2>1
<1>2. ASSUME NEW m \in Nat, m \in T PROVE m + 1 \in T
  <2>1. PICK f : Unfolds(f, m)
    BY <1>2
  <2> HIDE DEF Step
  <2>2. \A x \in SUBSET (1..m) : f[x] = IF x = {} THEN base ELSE Step(f[x \ {Max(x)}], Max(x))
    BY <2>1
  <2> DEFINE g == [x \in SUBSET (1..(m + 1)) |->
                     IF m + 1 \in x THEN Step(f[x \ {m + 1}], m + 1) ELSE f[x]]
  <2>3. ASSUME NEW x \in SUBSET (1..(m + 1))
        PROVE  g[x] = IF x = {} THEN base ELSE Step(g[x \ {Max(x)}], Max(x))
    <3>1. CASE m + 1 \in x
      <4>1. Max(x) = m + 1 /\ x \ {m + 1} \in SUBSET (1..m) /\ m + 1 \notin x \ {m + 1}
        BY <3>1, MaxOfPrefix
      <4>2. x \ {m + 1} \in SUBSET (1..(m + 1))
        OBVIOUS
      <4> QED
        BY <3>1, <4>1, <4>2
    <3>2. CASE m + 1 \notin x
      <4>0. \A y \in 1..(m + 1) : y # m + 1 => y \in 1..m
        OBVIOUS
      <4>1. x \in SUBSET (1..m) /\ x \ {Max(x)} \in SUBSET (1..(m + 1)) /\ m + 1 \notin x \ {Max(x)}
        BY <3>2, <4>0
      <4> QED
        BY <3>2, <4>1, <2>2
    <3> QED
      BY <3>1, <3>2
  <2>4. Unfolds(g, m + 1)
    BY <2>3
  <2> HIDE DEF Unfolds, g
  <2>5. \E h : Unfolds(h, m + 1)
    BY <2>4
  <2> QED
    BY <2>5
<1> HIDE DEF T
<1>3. n \in T
  <2>1. \A k \in 0..n : k \in T
    BY <1>1, <1>2, UpTo
  <2> QED
    BY <2>1
<1> DEFINE f == CHOOSE f : Unfolds(f, n)
<1>4. Unfolds(f, n)
  BY <1>3 DEF T
<1>5. Among(seq, set) = f[1..n]
  BY DEF Among, FoldLeft, MapThenFoldSet
<1> HIDE DEF f, Step
<1>6. \A x \in SUBSET (1..n) : f[x] = IF x = {} THEN base ELSE Step(f[x \ {Max(x)}], Max(x))
  BY <1>4
<1> DEFINE it == [k \in 0..n |-> f[1..k]]
<1>7. it[0] = base
  <2>1. 1..0 = {} /\ 1..0 \in SUBSET (1..n)
    OBVIOUS
  <2>2. f[1..0] = base
    BY <2>1, <1>6
  <2> QED
    BY <2>2
<1>8. ASSUME NEW k \in 1..n PROVE it[k] = Step(it[k - 1], k)
  <2>1. k - 1 \in Nat /\ (k - 1) + 1 = k
    OBVIOUS
  <2>2. 1..k \in SUBSET (1..((k - 1) + 1)) /\ (k - 1) + 1 \in 1..k
    BY <2>1
  <2>3. Max(1..k) = k
    BY <2>1, <2>2, MaxOfPrefix
  <2>4. (1..k) \ {k} = 1..(k - 1) /\ 1..k \in SUBSET (1..n) /\ 1..k # {} /\ k - 1 \in 0..n
    <3>1. k \in Nat /\ k <= n /\ 1 <= k
      BY <2>1
    <3>2. (1..k) \ {k} = 1..(k - 1) /\ k \in 1..k
      BY <3>1
    <3>3. \A j \in 1..k : j \in 1..n
      BY <3>1
    <3>4. k - 1 \in 0..n
      BY <3>1
    <3> QED
      BY <3>2, <3>3, <3>4
  <2>5. f[1..k] = Step(f[1..(k - 1)], k)
    BY <2>3, <2>4, <1>6
  <2>6. it[k] = f[1..k] /\ it[k - 1] = f[1..(k - 1)]
    BY <2>4
  <2> QED
    BY <2>5, <2>6
<1>9. it[n] = f[1..n]
  OBVIOUS
<1> HIDE DEF it
<1>10. \A k \in 1..n : it[k] = IF seq[k] \in set THEN Append(it[k - 1], seq[k]) ELSE it[k - 1]
  BY <1>8 DEF Step
<1>11. Among(seq, set) = it[n]
  BY <1>5, <1>9
<1> QED
  BY <1>7, <1>10, <1>11 DEF AmongTrace

(* The order is that of the sequence; what is proved is the elements.        *)
LEMMA AmongIs ==
  ASSUME NEW S, NEW seq \in Seq(S), NEW set
  PROVE  /\ Among(seq, set) \in Seq(S)
         /\ \A x : x \in ToSet(Among(seq, set)) <=> x \in ToSet(seq) /\ x \in set
         /\ IsInjective(seq) => IsInjective(Among(seq, set))
<1> DEFINE n == Len(seq)
<1>1. n \in Nat /\ DOMAIN seq = 1..n /\ \A k \in 1..n : seq[k] \in S
  OBVIOUS
<1>2. PICK it : AmongTrace(it, seq, set, <<>>, n)
  BY <1>1, AmongFold
<1>3. /\ it[0] = <<>> /\ Among(seq, set) = it[n]
      /\ \A k \in 1..n : it[k] = IF seq[k] \in set THEN Append(it[k - 1], seq[k]) ELSE it[k - 1]
  BY <1>2 DEF AmongTrace
<1> HIDE DEF n
<1> DEFINE Good(k) == /\ it[k] \in Seq(S)
                      /\ \A x : x \in ToSet(it[k]) <=> \E j \in 1..k : x = seq[j] /\ x \in set
                      /\ IsInjective(seq) => IsInjective(it[k])
           T == {k \in 0..n : Good(k)}
<1>4. 0 \in T
  <2>1. ToSet(<<>>) = {} /\ IsInjective(<<>>) /\ 1..0 = {} /\ <<>> \in Seq(S)
    BY DEF ToSet, IsInjective
  <2>2. Good(0)
    BY <1>3, <2>1
  <2> QED
    BY <1>1, <2>2
<1>5. ASSUME NEW k \in Nat, k < n, k \in T PROVE k + 1 \in T
  <2>1. /\ k + 1 \in 1..n /\ (k + 1) - 1 = k /\ k + 1 \in 0..n
        /\ \A j : j \in 1..(k + 1) <=> j \in 1..k \/ j = k + 1
    BY <1>1, <1>5
  <2>2. Good(k)
    BY <1>5
  <2> DEFINE y == seq[k + 1]
             before == it[k]
             after == it[k + 1]
  <2>3. after = IF y \in set THEN Append(before, y) ELSE before
    BY <1>3, <2>1
  <2>4. y \in S
    BY <1>1, <2>1
  <2>5. CASE y \notin set
    <3>1. after = before
      BY <2>3, <2>5
    <3>2. Good(k + 1)
      BY <2>1, <2>2, <2>5, <3>1
    <3> QED
      BY <2>1, <3>2
  <2>6. CASE y \in set
    <3>1. after = Append(before, y)
      BY <2>3, <2>6
    <3> DEFINE m == Len(before)
    <3>2. /\ m \in Nat /\ after \in Seq(S) /\ DOMAIN before = 1..m /\ DOMAIN after = 1..(m + 1)
          /\ after[m + 1] = y /\ \A j \in 1..m : after[j] = before[j]
      BY <2>2, <2>4, <3>1
    <3> HIDE DEF m, after, before
    <3>3. \A j : j \in 1..(m + 1) <=> j \in 1..m \/ j = m + 1
      BY <3>2
    <3>4. \A x : x \in ToSet(after) <=> x \in ToSet(before) \/ x = y
      BY <3>2, <3>3 DEF ToSet
    <3>5. \A x : x \in ToSet(after) <=> \E j \in 1..(k + 1) : x = seq[j] /\ x \in set
      BY <2>1, <2>2, <2>6, <3>4 DEF before
    <3>6. ASSUME IsInjective(seq) PROVE IsInjective(after)
      <4>1. y \notin ToSet(before)
        <5>1. \A j \in 1..k : seq[j] # y
          <6>1. \A j \in 1..k : j \in 1..n /\ j # k + 1
            BY <1>5, <1>1
          <6> QED
            BY <1>1, <2>1, <3>6, <6>1 DEF IsInjective
        <5> QED
          BY <2>2, <5>1 DEF before
      <4>2. \A j \in 1..m : before[j] # y
        BY <3>2, <4>1 DEF ToSet
      <4>3. IsInjective(before)
        BY <2>2, <3>6 DEF before
      <4> QED
        BY <3>2, <3>3, <4>2, <4>3 DEF IsInjective
    <3>7. Good(k + 1)
      BY <3>2, <3>5, <3>6 DEF after
    <3> QED
      BY <2>1, <3>7
  <2> QED
    BY <2>5, <2>6
<1>6. n \in T
  <2> HIDE DEF T
  <2>1. \A k \in 0..n : k \in T
    BY <1>1, <1>4, <1>5, UpTo
  <2> QED
    BY <1>1, <2>1
<1>7. Good(n)
  BY <1>6
<1>8. \A x : x \in ToSet(seq) <=> \E j \in 1..n : x = seq[j]
  BY <1>1 DEF ToSet
<1> QED
  BY <1>3, <1>7, <1>8

-----------------------------------------------------------------------------
(* The states a run reads: the fold of LoadStates.                         *)

ReadState(r, acc, t, docs) ==
  LET found == Cached(acc.cache, t)
      value == IF found # <<>> THEN Head(found).value ELSE docs[t]
  IN [cache |-> Put(acc.cache, t, value \o Folds(r, t)),
      held |-> [acc.held EXCEPT ![t] = value]]
StatesRead(r, base, docs, q) == FoldLeft(LAMBDA acc, t : ReadState(r, acc, t, docs), base, q)

StatesTrace(it, r, base, docs, n, q) ==
  /\ it[0] = base
  /\ \A k \in 1..n : it[k] = ReadState(r, it[k - 1], q[k], docs)
  /\ StatesRead(r, base, docs, q) = it[n]

LEMMA StatesFold ==
  ASSUME NEW r, NEW base, NEW docs, NEW n \in Nat, NEW q, DOMAIN q = 1..n
  PROVE  \E it : StatesTrace(it, r, base, docs, n, q)
<1> DEFINE Step(x, k) == ReadState(r, x, q[k], docs)
           Unfolds(f, m) == f = [x \in SUBSET (1..m) |->
                                 IF x = {} THEN base ELSE Step(f[x \ {Max(x)}], Max(x))]
           T == {m \in Nat : \E f : Unfolds(f, m)}
<1>1. 0 \in T
  <2>1. Unfolds([x \in SUBSET (1..0) |-> base], 0)
    OBVIOUS
  <2> QED
    BY <2>1
<1>2. ASSUME NEW m \in Nat, m \in T PROVE m + 1 \in T
  <2>1. PICK f : Unfolds(f, m)
    BY <1>2
  <2> HIDE DEF Step
  <2>2. \A x \in SUBSET (1..m) : f[x] = IF x = {} THEN base ELSE Step(f[x \ {Max(x)}], Max(x))
    BY <2>1
  <2> DEFINE g == [x \in SUBSET (1..(m + 1)) |->
                     IF m + 1 \in x THEN Step(f[x \ {m + 1}], m + 1) ELSE f[x]]
  <2>3. ASSUME NEW x \in SUBSET (1..(m + 1))
        PROVE  g[x] = IF x = {} THEN base ELSE Step(g[x \ {Max(x)}], Max(x))
    <3>1. CASE m + 1 \in x
      <4>1. Max(x) = m + 1 /\ x \ {m + 1} \in SUBSET (1..m) /\ m + 1 \notin x \ {m + 1}
        BY <3>1, MaxOfPrefix
      <4>2. x \ {m + 1} \in SUBSET (1..(m + 1))
        OBVIOUS
      <4> QED
        BY <3>1, <4>1, <4>2
    <3>2. CASE m + 1 \notin x
      <4>0. \A y \in 1..(m + 1) : y # m + 1 => y \in 1..m
        OBVIOUS
      <4>1. x \in SUBSET (1..m) /\ x \ {Max(x)} \in SUBSET (1..(m + 1)) /\ m + 1 \notin x \ {Max(x)}
        BY <3>2, <4>0
      <4> QED
        BY <3>2, <4>1, <2>2
    <3> QED
      BY <3>1, <3>2
  <2>4. Unfolds(g, m + 1)
    BY <2>3
  <2> HIDE DEF Unfolds, g
  <2>5. \E h : Unfolds(h, m + 1)
    BY <2>4
  <2> QED
    BY <2>5
<1> HIDE DEF T
<1>3. n \in T
  <2>1. \A k \in 0..n : k \in T
    BY <1>1, <1>2, UpTo
  <2> QED
    BY <2>1
<1> DEFINE f == CHOOSE f : Unfolds(f, n)
<1>4. Unfolds(f, n)
  BY <1>3 DEF T
<1>5. StatesRead(r, base, docs, q) = f[1..n]
  BY DEF StatesRead, FoldLeft, MapThenFoldSet
<1> HIDE DEF f, Step
<1>6. \A x \in SUBSET (1..n) : f[x] = IF x = {} THEN base ELSE Step(f[x \ {Max(x)}], Max(x))
  BY <1>4
<1> DEFINE it == [k \in 0..n |-> f[1..k]]
<1>7. it[0] = base
  <2>1. 1..0 = {} /\ 1..0 \in SUBSET (1..n)
    OBVIOUS
  <2>2. f[1..0] = base
    BY <2>1, <1>6
  <2> QED
    BY <2>2
<1>8. ASSUME NEW k \in 1..n PROVE it[k] = Step(it[k - 1], k)
  <2>1. k - 1 \in Nat /\ (k - 1) + 1 = k
    OBVIOUS
  <2>2. 1..k \in SUBSET (1..((k - 1) + 1)) /\ (k - 1) + 1 \in 1..k
    BY <2>1
  <2>3. Max(1..k) = k
    BY <2>1, <2>2, MaxOfPrefix
  <2>4. (1..k) \ {k} = 1..(k - 1) /\ 1..k \in SUBSET (1..n) /\ 1..k # {} /\ k - 1 \in 0..n
    <3>1. k \in Nat /\ k <= n /\ 1 <= k
      BY <2>1
    <3>2. (1..k) \ {k} = 1..(k - 1) /\ k \in 1..k
      BY <3>1
    <3>3. \A j \in 1..k : j \in 1..n
      BY <3>1
    <3>4. k - 1 \in 0..n
      BY <3>1
    <3> QED
      BY <3>2, <3>3, <3>4
  <2>5. f[1..k] = Step(f[1..(k - 1)], k)
    BY <2>3, <2>4, <1>6
  <2>6. it[k] = f[1..k] /\ it[k - 1] = f[1..(k - 1)]
    BY <2>4
  <2> QED
    BY <2>5, <2>6
<1>9. it[n] = f[1..n]
  OBVIOUS
<1> HIDE DEF it
<1>10. \A k \in 1..n : it[k] = ReadState(r, it[k - 1], q[k], docs)
  BY <1>8 DEF Step
<1>11. StatesRead(r, base, docs, q) = it[n]
  BY <1>5, <1>9
<1> QED
  BY <1>7, <1>10, <1>11 DEF StatesTrace

LEMMA PutIs ==
  ASSUME NEW cache \in Seq(CacheEntry), NEW t \in ReplayTargets, NEW value \in Seq(Nat)
  PROVE  /\ Put(cache, t, value) \in Seq(CacheEntry)
         /\ \A entry \in ToSet(Put(cache, t, value)) :
              \/ entry.target = t /\ entry.value = value
              \/ entry.target # t /\ entry \in ToSet(cache)
<1> DEFINE rest == Without(cache, {t})
           new == [target |-> t, value |-> value]
           entries == Append(rest, new)
           n == Len(rest)
           a == 1 + (IF n + 1 > CacheEntries THEN (n + 1) - CacheEntries ELSE 0)
           kept == SubSeq(entries, a, n + 1)
<1>1. rest \in Seq(CacheEntry) /\ \A x : x \in ToSet(rest) => x \in ToSet(cache) /\ x.target # t
  BY AmongIs DEF Without
<1>2. new \in CacheEntry
  BY DEF CacheEntry
<1>3. n \in Nat /\ a \in Nat \ {0} /\ CacheEntries \in Nat
  BY <1>1, WorkerAssumption
<1>4. /\ entries \in Seq(CacheEntry) /\ Len(entries) = n + 1 /\ DOMAIN rest = 1..n
      /\ \A i \in 1..n : entries[i] = rest[i]
      /\ entries[n + 1] = new
  BY <1>1, <1>2
<1> HIDE DEF n, rest, new, entries
<1>5. \A i \in 1..(n + 1) : entries[i] \in ToSet(rest) \/ entries[i] = new
  BY <1>3, <1>4 DEF ToSet
<1> HIDE DEF a
<1>6. a <= n + 2
  BY <1>3 DEF a
<1>7. /\ kept \in Seq(CacheEntry)
      /\ \A j \in DOMAIN kept : \E i \in 1..(n + 1) : kept[j] = entries[i]
  <2>1. Len(kept) \in Nat /\ DOMAIN kept = 1..Len(kept) /\ kept = [j \in 1..((n + 1) - a + 1) |-> entries[a + j - 1]]
    BY <1>3, <1>4, <1>6
  <2>2. \A j \in 1..((n + 1) - a + 1) : a + j - 1 \in 1..(n + 1)
    BY <1>3, <1>6
  <2>3. \A i \in 1..(n + 1) : entries[i] \in CacheEntry
    BY <1>4
  <2>4. (n + 1) - a + 1 \in Nat
    BY <1>3, <1>6
  <2> HIDE DEF kept
  <2>5. DOMAIN kept = 1..((n + 1) - a + 1) /\ \A j \in 1..((n + 1) - a + 1) : kept[j] = entries[a + j - 1]
    BY <2>1
  <2>6. kept \in Seq(CacheEntry)
    <3>1. kept \in [1..((n + 1) - a + 1) -> CacheEntry]
      BY <2>1, <2>2, <2>3
    <3> QED
      BY SMTT(60), <2>4, <3>1
  <2> QED
    BY <2>2, <2>5, <2>6
<1>8. Put(cache, t, value) = kept
  BY <1>4 DEF Put, entries, new, rest, n, a, kept
<1> HIDE DEF kept
<1>9. \A x \in ToSet(kept) : x \in ToSet(rest) \/ x = new
  BY <1>5, <1>7 DEF ToSet
<1>10. new.target = t /\ new.value = value
  BY DEF new
<1> QED
  BY <1>1, <1>7, <1>8, <1>9, <1>10

LEMMA StateIsTyped ==
  ASSUME NEW cache \in Seq(CacheEntry), NEW t, Cached(cache, t) # <<>>
  PROVE  Head(Cached(cache, t)).value \in Seq(Nat)
<1>1. Cached(cache, t) \in Seq(CacheEntry)
  BY AmongIs DEF Cached
<1>2. Head(Cached(cache, t)) \in CacheEntry
  BY <1>1
<1> QED
  BY <1>2 DEF CacheEntry

(* An entry of a target the run reads is what the run stores; another one is *)
(* as it was.                                                                *)
StateOf(entry, r, acc, base, q, k) ==
  \/ /\ \E j \in 1..k : q[j] = entry.target
     /\ entry.value = acc.held[entry.target] \o Folds(r, entry.target)
  \/ /\ \A j \in 1..k : q[j] # entry.target
     /\ entry \in ToSet(base.cache)

LEMMA FoldsAre ==
  ASSUME NEW r, r.events \in Seq(ReplayEvents), NEW t
  PROVE  /\ Folds(r, t) \in Seq(ReplayEvents)
         /\ \A e : e \in ToSet(Folds(r, t)) <=> e \in ToSet(r.events) /\ t \in TargetsOf[e]
         /\ IsInjective(r.events) => IsInjective(Folds(r, t))
<1>1. \A e : e \in ToSet(r.events) => e \in ReplayEvents
  BY DEF ToSet
<1> QED
  BY <1>1, AmongIs DEF Folds

LEMMA SeqOfSubset ==
  ASSUME NEW B, NEW A \in SUBSET B, NEW seq \in Seq(A)
  PROVE  seq \in Seq(B)
<1>1. Len(seq) \in Nat /\ seq \in [1..Len(seq) -> A]
  OBVIOUS
<1>2. seq \in [1..Len(seq) -> B]
  BY <1>1
<1> QED
  BY <1>1, <1>2

LEMMA ElementsOf ==
  ASSUME NEW S, NEW seq \in Seq(S)
  PROVE  /\ ToSet(seq) \in SUBSET S
         /\ \A x : x \in ToSet(seq) <=> \E i \in 1..Len(seq) : x = seq[i]
  BY DEF ToSet

LEMMA EventsAreNaturals == ReplayEvents \in SUBSET (Nat \ {0})
  BY WorkerAssumption DEF ReplayEvents, ToSet

LEMMA StatesReadAre ==
  ASSUME NEW r, r.events \in Seq(ReplayEvents),
         NEW base \in [cache : Seq(CacheEntry), held : Contents], NEW docs \in Contents,
         NEW q \in Seq(ReplayTargets), \A i, j \in DOMAIN q : q[i] = q[j] => i = j
  PROVE  LET after == StatesRead(r, base, docs, q)
         IN /\ after.cache \in Seq(CacheEntry) /\ after.held \in Contents
            /\ \A entry \in ToSet(after.cache) : StateOf(entry, r, after, base, q, Len(q))
<1> DEFINE n == Len(q)
           Acc == [cache : Seq(CacheEntry), held : Contents]
<1>1. n \in Nat /\ DOMAIN q = 1..n /\ \A k \in 1..n : q[k] \in ReplayTargets
  OBVIOUS
<1>2. PICK it : StatesTrace(it, r, base, docs, n, q)
  BY <1>1, StatesFold
<1>3. /\ it[0] = base /\ StatesRead(r, base, docs, q) = it[n]
      /\ \A k \in 1..n : it[k] = ReadState(r, it[k - 1], q[k], docs)
  BY <1>2 DEF StatesTrace
<1> HIDE DEF n
<1> DEFINE Good(k) == /\ it[k] \in Acc
                      /\ \A entry \in ToSet(it[k].cache) : StateOf(entry, r, it[k], base, q, k)
           T == {k \in 0..n : Good(k)}
<1>4. 0 \in T
  <2>1. 1..0 = {}
    OBVIOUS
  <2>2. Good(0)
    BY <1>3, <2>1 DEF StateOf
  <2> QED
    BY <1>1, <2>2
<1>5. ASSUME NEW k \in Nat, k < n, k \in T PROVE k + 1 \in T
  <2>1. /\ k + 1 \in 1..n /\ (k + 1) - 1 = k /\ k + 1 \in 0..n
        /\ \A j : j \in 1..(k + 1) <=> j \in 1..k \/ j = k + 1
        /\ \A j \in 1..k : j \in 1..n /\ j # k + 1
    BY <1>1, <1>5
  <2>2. Good(k)
    BY <1>5
  <2> DEFINE t == q[k + 1]
             old == it[k]
             new == it[k + 1]
             value == IF Cached(old.cache, t) # <<>> THEN Head(Cached(old.cache, t)).value ELSE docs[t]
  <2>3. t \in ReplayTargets /\ \A j \in 1..k : q[j] # t
    BY <1>1, <2>1
  <2>4. /\ old.cache \in Seq(CacheEntry) /\ old.held \in Contents
        /\ \A entry \in ToSet(old.cache) : StateOf(entry, r, old, base, q, k)
    BY <2>2
  <2>5. new = [cache |-> Put(old.cache, t, value \o Folds(r, t)), held |-> [old.held EXCEPT ![t] = value]]
    BY <1>3, <2>1 DEF ReadState
  <2> HIDE DEF new, old, t
  <2>6. value \in Seq(Nat)
    <3>1. docs[t] \in Seq(Nat)
      BY <2>3 DEF Contents
    <3> QED
      BY <2>4, <3>1, StateIsTyped
  <2> HIDE DEF value
  <2> DEFINE stored == value \o Folds(r, t)
             put == Put(old.cache, t, stored)
  <2>7. stored \in Seq(Nat)
    <3>1. Folds(r, t) \in Seq(ReplayEvents)
      BY FoldsAre
    <3>2. Folds(r, t) \in Seq(Nat)
      BY <3>1, SeqOfSubset, EventsAreNaturals
    <3> QED
      BY <2>6, <3>2
  <2> HIDE DEF stored
  <2>8. /\ put \in Seq(CacheEntry)
        /\ \A entry \in ToSet(put) : \/ entry.target = t /\ entry.value = stored
                                     \/ entry.target # t /\ entry \in ToSet(old.cache)
    BY <2>3, <2>4, <2>7, PutIs
  <2> HIDE DEF put
  <2>9. new.cache = put /\ new.held = [old.held EXCEPT ![t] = value]
    BY <2>5 DEF put, stored
  <2>10. new.held \in Contents /\ new.held[t] = value /\ \A u \in ReplayTargets : u # t => new.held[u] = old.held[u]
    BY <2>3, <2>4, <2>6, <2>9 DEF Contents
  <2>11. new \in Acc
    BY <2>5, <2>8, <2>9, <2>10
  <2>12. ASSUME NEW entry \in ToSet(put) PROVE StateOf(entry, r, new, base, q, k + 1)
    <3>1. CASE entry.target = t /\ entry.value = stored
      <4>1. \E j \in 1..(k + 1) : q[j] = entry.target
        BY <2>1, <3>1 DEF t
      <4> QED
        BY <2>10, <3>1, <4>1 DEF StateOf, stored
    <3>2. CASE entry.target # t /\ entry \in ToSet(old.cache)
      <4>1. StateOf(entry, r, old, base, q, k)
        BY <2>4, <3>2
      <4>2. entry.target \in ReplayTargets
        <5>1. entry \in CacheEntry
          BY <2>8, <2>12, ElementsOf
        <5> QED
          BY <5>1 DEF CacheEntry
      <4>3. (\E j \in 1..(k + 1) : q[j] = entry.target) <=> \E j \in 1..k : q[j] = entry.target
        BY <2>1, <3>2 DEF t
      <4>4. new.held[entry.target] = old.held[entry.target]
        BY <2>10, <3>2, <4>2
      <4> QED
        BY <4>1, <4>3, <4>4 DEF StateOf
    <3> QED
      BY <2>8, <3>1, <3>2
  <2>13. Good(k + 1)
    BY <2>9, <2>11, <2>12 DEF new
  <2> QED
    BY <2>1, <2>13
<1>6. n \in T
  <2> HIDE DEF T
  <2>1. \A k \in 0..n : k \in T
    BY <1>1, <1>4, <1>5, UpTo
  <2> QED
    BY <1>1, <2>1
<1>7. Good(n)
  BY <1>6
<1>8. it[n].cache \in Seq(CacheEntry) /\ it[n].held \in Contents
  BY <1>7
<1> QED
  BY <1>3, <1>7, <1>8 DEF n

-----------------------------------------------------------------------------
(* What a poll pushes: the first occurrences of what is not yet known as     *)
(* acknowledged, in runs that have no event in common.                       *)

LEMMA FreshIs ==
  ASSUME NEW events \in Seq(ReplayEvents)
  PROVE  /\ Fresh(events) \in Seq(ReplayEvents) /\ IsInjective(Fresh(events))
         /\ \A e \in ToSet(events) : e \in replay.seen \/ e \in ToSet(Fresh(events))
         /\ \A e \in ToSet(Fresh(events)) : e \notin replay.seen
<1> DEFINE n == Len(events)
           IsFirst(i) == events[i] \notin replay.seen /\ \A j \in 1..(i - 1) : events[j] # events[i]
           places == [i \in DOMAIN events |-> i]
           first == {i \in DOMAIN events : IsFirst(i)}
           firsts == Among(places, first)
           fresh == [k \in DOMAIN firsts |-> events[firsts[k]]]
<1>1. n \in Nat /\ DOMAIN events = 1..n /\ \A i \in 1..n : events[i] \in ReplayEvents
  OBVIOUS
<1>2. Fresh(events) = fresh
  BY DEF Fresh
<1> HIDE DEF n, IsFirst
<1>3. places \in Seq(1..n) /\ IsInjective(places) /\ \A i : i \in ToSet(places) <=> i \in 1..n
  BY <1>1 DEF IsInjective, ToSet
<1> HIDE DEF places
<1>4. /\ firsts \in Seq(1..n) /\ IsInjective(firsts)
      /\ \A i : i \in ToSet(firsts) <=> i \in 1..n /\ IsFirst(i)
  <2>1. \A i : i \in first <=> i \in 1..n /\ IsFirst(i)
    BY <1>1
  <2> HIDE DEF first
  <2> QED
    BY <1>3, <2>1, AmongIs
<1> HIDE DEF firsts
<1> DEFINE m == Len(firsts)
<1>5. m \in Nat /\ DOMAIN firsts = 1..m /\ \A k \in 1..m : firsts[k] \in 1..n /\ IsFirst(firsts[k])
  BY <1>4 DEF ToSet
<1> HIDE DEF m
<1>6. fresh \in Seq(ReplayEvents) /\ DOMAIN fresh = 1..m /\ \A k \in 1..m : fresh[k] = events[firsts[k]]
  BY <1>1, <1>5
<1> HIDE DEF fresh
<1>7. ASSUME NEW i \in 1..n, NEW j \in 1..n, IsFirst(i), IsFirst(j), events[i] = events[j] PROVE i = j
  <2>1. ~ (i \in 1..(j - 1)) /\ ~ (j \in 1..(i - 1))
    BY <1>7 DEF IsFirst
  <2> QED
    BY <1>1, <2>1
<1>8. IsInjective(fresh)
  <2>1. ASSUME NEW k \in 1..m, NEW l \in 1..m, fresh[k] = fresh[l] PROVE k = l
    <3>1. firsts[k] = firsts[l]
      BY <1>5, <1>6, <1>7, <2>1
    <3> QED
      BY <1>4, <1>5, <3>1 DEF IsInjective
  <2> QED
    BY <1>6, <2>1 DEF IsInjective
<1>9. ASSUME NEW e \in ToSet(events), e \notin replay.seen PROVE e \in ToSet(fresh)
  <2> DEFINE at == {j \in 1..n : events[j] = e}
  <2>1. at \in SUBSET Nat /\ at # {}
    BY <1>1, <1>9 DEF ToSet
  <2> HIDE DEF at
  <2>2. PICK i \in at : \A j \in at : i <= j
    BY <2>1, LeastNatural
  <2>3. i \in 1..n /\ events[i] = e
    BY <2>2 DEF at
  <2>4. ASSUME NEW j \in 1..(i - 1) PROVE events[j] # e
    <3>1. j \in 1..n /\ ~ (i <= j)
      BY <1>1, <2>3
    <3> QED
      BY <2>2, <3>1 DEF at
  <2>5. IsFirst(i)
    BY <1>9, <2>3, <2>4 DEF IsFirst
  <2>6. i \in ToSet(firsts)
    BY <1>4, <2>3, <2>5
  <2> QED
    BY <1>5, <1>6, <2>3, <2>6 DEF ToSet
<1>10. ASSUME NEW e \in ToSet(fresh) PROVE e \notin replay.seen
  <2>1. PICK k \in 1..m : e = fresh[k]
    BY <1>6, <1>10 DEF ToSet
  <2> QED
    BY <1>5, <1>6, <2>1 DEF IsFirst
<1> QED
  BY <1>2, <1>6, <1>8, <1>9, <1>10

\* A run as a call queues it.
Queued(r, p) ==
  /\ r \in Run /\ r.poll = p /\ r.phase = "queued" /\ r.decision = "none"
  /\ IsInjective(r.events)

LEMMA RunsForIs ==
  ASSUME NEW p \in ReplayPolls, NEW events \in Seq(ReplayEvents), IsInjective(events)
  PROVE  /\ RunsFor(p, events) \in Seq(Run)
         /\ \A i \in DOMAIN RunsFor(p, events) :
              /\ Queued(RunsFor(p, events)[i], p)
              /\ ToSet(RunsFor(p, events)[i].events) \subseteq ToSet(events)
         /\ \A i, j \in DOMAIN RunsFor(p, events) : i # j =>
              ToSet(RunsFor(p, events)[i].events) \cap ToSet(RunsFor(p, events)[j].events) = {}
         /\ \A e \in ToSet(events) : \E i \in DOMAIN RunsFor(p, events) :
              e \in ToSet(RunsFor(p, events)[i].events)
<1> DEFINE lonely == {e \in ReplayEvents : BatchModeOf[e] = "none"}
           grouped == {e \in ReplayEvents : BatchModeOf[e] = "all"}
           alone == Among(events, lonely)
           group == Among(events, grouped)
           New(es) == [poll |-> p, events |-> es, phase |-> "queued",
                       held |-> [t \in ReplayTargets |-> <<>>], decision |-> "none"]
           singles == [i \in DOMAIN alone |-> New(<<alone[i]>>)]
           all == IF group = <<>> THEN <<>> ELSE <<New(group)>>
<1>1. RunsFor(p, events) = singles \o all
  BY DEF RunsFor
<1>2. ToSet(events) \in SUBSET ReplayEvents
  BY ElementsOf
<1>3. \A e \in ToSet(events) : /\ e \in ReplayEvents /\ (e \in lonely \/ e \in grouped)
                               /\ ~ (e \in lonely /\ e \in grouped)
  BY <1>2, WorkerAssumption
<1> HIDE DEF lonely, grouped
<1>4. /\ alone \in Seq(ReplayEvents) /\ IsInjective(alone)
      /\ \A e : e \in ToSet(alone) <=> e \in ToSet(events) /\ e \in lonely
  BY AmongIs
<1>5. /\ group \in Seq(ReplayEvents) /\ IsInjective(group)
      /\ \A e : e \in ToSet(group) <=> e \in ToSet(events) /\ e \in grouped
  BY AmongIs
<1> HIDE DEF alone, group
<1>6. ASSUME NEW es \in Seq(ReplayEvents), IsInjective(es)
      PROVE  Queued(New(es), p) /\ New(es).events = es
  <2>1. [t \in ReplayTargets |-> <<>>] \in Contents
    BY DEF Contents
  <2> QED
    BY <1>6, <2>1 DEF Queued, Run
<1> HIDE DEF New
<1> DEFINE n == Len(alone)
<1>7. n \in Nat /\ DOMAIN alone = 1..n /\ \A i \in 1..n : alone[i] \in ReplayEvents
  BY <1>4
<1> HIDE DEF n
<1>8. ASSUME NEW x \in ReplayEvents PROVE <<x>> \in Seq(ReplayEvents) /\ IsInjective(<<x>>) /\ ToSet(<<x>>) = {x}
  BY DEF IsInjective, ToSet
<1>9. \A i \in 1..n : Queued(New(<<alone[i]>>), p) /\ ToSet(New(<<alone[i]>>).events) = {alone[i]}
  BY <1>6, <1>7, <1>8
<1>10. \A i \in 1..n : New(<<alone[i]>>) \in Run
  BY <1>9 DEF Queued
<1>11. singles \in Seq(Run) /\ Len(singles) = n /\ \A i \in 1..n : singles[i] = New(<<alone[i]>>)
  BY <1>7, <1>10
<1> HIDE DEF singles
<1>12. Queued(New(group), p) /\ New(group).events = group
  BY <1>5, <1>6
<1>13. New(group) \in Run
  BY <1>12 DEF Queued
<1> DEFINE m == IF group = <<>> THEN n ELSE n + 1
           result == singles \o all
<1>14. /\ result \in Seq(Run) /\ DOMAIN result = 1..m
       /\ \A i \in 1..n : result[i] = New(<<alone[i]>>)
       /\ m = n + 1 => result[n + 1] = New(group)
       /\ \A i : i \in 1..m <=> i \in 1..n \/ (i = n + 1 /\ m = n + 1)
  <2>1. CASE group = <<>>
    <3>1. all = <<>> /\ m = n /\ result = singles
      BY <1>11, <2>1
    <3>2. DOMAIN singles = 1..n /\ n # n + 1
      BY <1>7, <1>11
    <3> QED
      BY <1>11, <3>1, <3>2
  <2>2. CASE group # <<>>
    <3>1. all = <<New(group)>> /\ all \in Seq(Run) /\ Len(all) = 1 /\ all[1] = New(group) /\ m = n + 1
      BY <1>13, <2>2
    <3> HIDE DEF all, m
    <3>2. result \in Seq(Run) /\ Len(result) = n + 1
      BY <1>7, <1>11, <3>1
    <3>3. \A i \in 1..n : result[i] = singles[i]
      BY <1>7, <1>11, <3>1
    <3>4. result[n + 1] = all[1]
      BY <1>7, <1>11, <3>1
    <3>5. \A i : i \in 1..(n + 1) <=> i \in 1..n \/ i = n + 1
      BY <1>7
    <3> HIDE DEF result
    <3>6. DOMAIN result = 1..m
      BY <3>1, <3>2
    <3> QED
      BY <1>11, <3>1, <3>2, <3>3, <3>4, <3>5, <3>6
  <2> QED
    BY <2>1, <2>2
<1> HIDE DEF result, all
<1>15. m = n + 1 => group # <<>>
  BY <1>7
<1>16. group # <<>> => m = n + 1
  OBVIOUS
<1> HIDE DEF m
<1>17. \A i \in 1..n : /\ Queued(result[i], p) /\ ToSet(result[i].events) = {alone[i]}
                       /\ alone[i] \in ToSet(alone)
  <2>1. \A i \in 1..n : alone[i] \in ToSet(alone)
    BY <1>7 DEF ToSet
  <2> QED
    BY <1>9, <1>14, <2>1
<1>18. m = n + 1 => Queued(result[n + 1], p) /\ ToSet(result[n + 1].events) = ToSet(group)
  BY <1>12, <1>14
<1>19. \A i \in 1..m : Queued(result[i], p) /\ ToSet(result[i].events) \subseteq ToSet(events)
  BY <1>4, <1>5, <1>14, <1>17, <1>18
<1>20. ASSUME NEW i \in 1..m, NEW j \in 1..m, i # j
       PROVE  ToSet(result[i].events) \cap ToSet(result[j].events) = {}
  <2>1. CASE i \in 1..n /\ j \in 1..n
    <3>1. alone[i] # alone[j]
      BY <1>4, <1>7, <1>20, <2>1 DEF IsInjective
    <3> QED
      BY <1>17, <2>1, <3>1
  <2>2. \A x : ~ (x \in ToSet(alone) /\ x \in ToSet(group))
    BY <1>3, <1>4, <1>5
  <2>3. CASE i \in 1..n /\ j = n + 1 /\ m = n + 1
    BY <1>17, <1>18, <2>2, <2>3
  <2>4. CASE j \in 1..n /\ i = n + 1 /\ m = n + 1
    BY <1>17, <1>18, <2>2, <2>4
  <2> QED
    BY <1>14, <1>20, <2>1, <2>3, <2>4
<1>21. ASSUME NEW e \in ToSet(events) PROVE \E i \in 1..m : e \in ToSet(result[i].events)
  <2>1. CASE e \in lonely
    <3>1. e \in ToSet(alone)
      BY <1>4, <2>1
    <3>2. PICK i \in 1..n : e = alone[i]
      BY <1>7, <3>1 DEF ToSet
    <3> QED
      BY <1>14, <1>17, <3>2
  <2>2. CASE e \in grouped
    <3>1. e \in ToSet(group)
      BY <1>5, <2>2
    <3>2. group # <<>>
      BY <3>1 DEF ToSet
    <3> QED
      BY <1>14, <1>16, <1>18, <3>1, <3>2
  <2> QED
    BY <1>3, <2>1, <2>2
<1>22. RunsFor(p, events) = result
  BY <1>1 DEF result
<1> QED
  BY <1>14, <1>19, <1>20, <1>21, <1>22

-----------------------------------------------------------------------------
(* What a change of the runs and of the documents keeps.                   *)

SameRuns(q, s) ==
  /\ DOMAIN q = DOMAIN s
  /\ \A i \in DOMAIN q : q[i].poll = s[i].poll /\ q[i].events = s[i].events

DocsGrow(d, f) == \A t \in ReplayTargets : ToSet(d[t]) \subseteq ToSet(f[t])

LEMMA TargetsTyped ==
  /\ \A e \in ReplayEvents : TargetsOf[e] \in SUBSET ReplayTargets
  /\ \A k \in 1..Len(ReplayFeed) : ReplayFeed[k] \in ReplayEvents
<1>1. ReplayFeed \in Seq(Nat \ {0})
  BY WorkerAssumption
<1>2. \A k \in 1..Len(ReplayFeed) : ReplayFeed[k] \in ReplayEvents
  BY <1>1, ElementsOf DEF ReplayEvents
<1> QED
  BY <1>2, WorkerAssumption

LEMMA RunTyped ==
  ASSUME NEW r \in Run
  PROVE  /\ r.events \in Seq(ReplayEvents) /\ ToSet(r.events) \in SUBSET ReplayEvents
         /\ TargetsIn(r) \in SUBSET ReplayTargets
         /\ r.held \in Contents /\ r.poll \in ReplayPolls
         /\ r.phase \in {"queued", "storing", "settled"}
         /\ r.decision \in {"none", "ack", "nack", "thrown"}
<1>1. r.events \in Seq(ReplayEvents) /\ r.held \in Contents /\ r.poll \in ReplayPolls
      /\ r.phase \in {"queued", "storing", "settled"}
      /\ r.decision \in {"none", "ack", "nack", "thrown"}
  BY DEF Run
<1>2. ToSet(r.events) \in SUBSET ReplayEvents
  BY <1>1, ElementsOf
<1>3. TargetsIn(r) \in SUBSET ReplayTargets
  BY <1>2, TargetsTyped DEF TargetsIn
<1> QED
  BY <1>1, <1>2, <1>3

LEMMA FoldedGrows ==
  ASSUME NEW d, NEW f, DocsGrow(d, f), NEW e \in ReplayEvents, Folded(e, d)
  PROVE  Folded(e, f)
  BY TargetsTyped DEF DocsGrow, Folded

LEMMA PollKept ==
  ASSUME NEW p \in ReplayPolls, NEW call \in Poll, NEW q, NEW s, NEW d, NEW f,
         SameRuns(q, s), DocsGrow(d, f), PollHolds(p, call, q, d)
  PROVE  PollHolds(p, call, s, f)
<1>1. call.start \in Nat /\ call.next \in Nat
  BY DEF Poll
<1>2. call.start <= Len(ReplayFeed) /\ call.next <= Len(ReplayFeed) /\ Len(ReplayFeed) \in Nat
  BY WorkerAssumption DEF PollHolds
<1>3. \A k \in 1..call.start : k \in 1..Len(ReplayFeed)
  BY <1>1, <1>2
<1>4. \A k \in (call.start + 1)..call.next : k \in 1..Len(ReplayFeed)
  BY <1>1, <1>2
<1>5. \A k \in 1..Len(ReplayFeed) : Folded(ReplayFeed[k], d) => Folded(ReplayFeed[k], f)
  BY FoldedGrows, TargetsTyped
<1> QED
  BY <1>2, <1>3, <1>4, <1>5 DEF PollHolds, SameRuns

LEMMA ReplayKept ==
  ASSUME NEW rep \in [cursor : 0..Len(ReplayFeed), seen : SUBSET ReplayEvents], NEW d, NEW f,
         DocsGrow(d, f), ReplayHolds(rep, d)
  PROVE  ReplayHolds(rep, f)
<1>1. \A k \in 1..rep.cursor : k \in 1..Len(ReplayFeed)
  BY WorkerAssumption
<1>2. \A k \in 1..Len(ReplayFeed) : Folded(ReplayFeed[k], d) => Folded(ReplayFeed[k], f)
  BY FoldedGrows, TargetsTyped
<1>3. \A e \in rep.seen : Folded(e, d) => Folded(e, f)
  BY FoldedGrows
<1> QED
  BY <1>1, <1>2, <1>3 DEF ReplayHolds

LEMMA RunKept ==
  ASSUME NEW r \in Run, NEW d, NEW f, DocsGrow(d, f), RunHolds(r, d)
  PROVE  RunHolds(r, f)
<1>1. \A e \in ToSet(r.events) : Folded(e, d) => Folded(e, f)
  BY RunTyped, FoldedGrows
<1> QED
  BY <1>1 DEF RunHolds

LEMMA LanesKept ==
  ASSUME NEW q \in Seq(Run), NEW s \in Seq(Run), SameRuns(q, s), RunsApart(q),
         \A i \in DOMAIN q : /\ q[i].phase = "settled" => s[i].phase = "settled"
                             /\ s[i].phase = "storing" /\ q[i].phase # "storing" =>
                                  \A j \in 1..(i - 1) : q[j].phase # "settled" => ~ShareLane(q[j], q[i])
  PROVE  RunsApart(s)
<1>1. DOMAIN s = DOMAIN q /\ \A i \in DOMAIN q : s[i].poll = q[i].poll /\ s[i].events = q[i].events
  BY DEF SameRuns
<1>2. \A i, j \in DOMAIN q : ShareLane(s[i], s[j]) <=> ShareLane(q[i], q[j])
  BY <1>1 DEF ShareLane, TargetsIn
<1>3. ASSUME NEW i \in DOMAIN q, NEW j \in DOMAIN q, i < j, s[i].phase # "settled", s[j].phase = "storing"
      PROVE  ~ShareLane(s[i], s[j])
  <2>1. i \in 1..(j - 1)
    <3>1. DOMAIN q = 1..Len(q) /\ Len(q) \in Nat
      OBVIOUS
    <3> QED
      BY <1>3, <3>1
  <2> QED
    BY <1>2, <1>3, <2>1 DEF RunsApart
<1> QED
  BY <1>1, <1>3 DEF RunsApart

(* Two runs that are storing have no target in common.                       *)
LEMMA StoringApart ==
  ASSUME NEW q \in Seq(Run), RunsApart(q), NEW i \in DOMAIN q, NEW j \in DOMAIN q, i # j,
         q[i].phase = "storing", q[j].phase = "storing", NEW t \in TargetsIn(q[i])
  PROVE  t \notin TargetsIn(q[j])
<1>1. i \in Nat /\ j \in Nat
  OBVIOUS
<1>2. i < j \/ j < i
  BY <1>1
<1>3. i < j => ~ShareLane(q[i], q[j])
  BY DEF RunsApart
<1>4. j < i => ~ShareLane(q[j], q[i])
  BY DEF RunsApart
<1> QED
  BY <1>2, <1>3, <1>4 DEF ShareLane

\* What a run that settles leaves: its targets are evicted, excused or stored.
Leaves(T, old, new, d, f, st, su) ==
  /\ ToSet(new) \in SUBSET ToSet(old)
  /\ \A entry \in ToSet(new) : entry.target \in T => entry.target \in su \/ entry.value = f[entry.target]
  /\ \A t \in ReplayTargets : t \notin T => f[t] = d[t] /\ (t \in st => t \in su)

\* One run settles.
OneSettles(q, s, i) ==
  /\ q[i].phase = "storing" /\ s[i].phase = "settled"
  /\ \A j \in DOMAIN q : j # i => s[j] = q[j]

LEMMA CacheSettles ==
  ASSUME NEW q \in Seq(Run), NEW s \in Seq(Run), SameRuns(q, s), RunsApart(q), NEW i \in DOMAIN q,
         OneSettles(q, s, i), NEW old \in Seq(CacheEntry), NEW new \in Seq(CacheEntry),
         NEW d, NEW f, NEW st, NEW su, CacheHolds(old, q, d, st),
         Leaves(TargetsIn(q[i]), old, new, d, f, st, su)
  PROVE  CacheHolds(new, s, f, su)
<1> SUFFICES ASSUME NEW entry \in ToSet(new)
             PROVE  /\ EntryHolds(entry, s, f, su)
                    /\ \A j \in DOMAIN s : s[j].phase = "storing" /\ entry.target \in TargetsIn(s[j]) =>
                         entry.value = s[j].held[entry.target] \o Folds(s[j], entry.target)
  BY DEF CacheHolds
<1>0. /\ q[i].phase = "storing" /\ s[i].phase = "settled" /\ \A j \in DOMAIN q : j # i => s[j] = q[j]
      /\ ToSet(new) \in SUBSET ToSet(old)
      /\ entry.target \in TargetsIn(q[i]) => entry.target \in su \/ entry.value = f[entry.target]
      /\ \A t \in ReplayTargets : t \notin TargetsIn(q[i]) => f[t] = d[t] /\ (t \in st => t \in su)
  BY DEF OneSettles, Leaves
<1>1. entry \in ToSet(old) /\ entry.target \in ReplayTargets
  <2>1. entry \in CacheEntry
    BY ElementsOf
  <2> QED
    BY <1>0, <2>1 DEF CacheEntry
<1>2. /\ EntryHolds(entry, q, d, st)
      /\ \A j \in DOMAIN q : q[j].phase = "storing" /\ entry.target \in TargetsIn(q[j]) =>
           entry.value = q[j].held[entry.target] \o Folds(q[j], entry.target)
  BY <1>1 DEF CacheHolds
<1>3. DOMAIN s = DOMAIN q /\ \A j \in DOMAIN s : s[j].phase = "storing" => j # i /\ s[j] = q[j]
  BY <1>0 DEF SameRuns
<1>4. EntryHolds(entry, s, f, su)
  <2>1. CASE entry.target \in TargetsIn(q[i])
    BY <1>0, <2>1 DEF EntryHolds
  <2>2. CASE entry.target \notin TargetsIn(q[i])
    <3>1. \A j \in DOMAIN q : q[j].phase = "storing" /\ entry.target \in TargetsIn(q[j]) =>
            j \in DOMAIN s /\ s[j].phase = "storing" /\ entry.target \in TargetsIn(s[j])
      BY <1>0, <1>3, <2>2
    <3>2. f[entry.target] = d[entry.target] /\ (entry.target \in st => entry.target \in su)
      BY <1>0, <1>1, <2>2
    <3> QED
      BY <1>2, <3>1, <3>2 DEF EntryHolds
  <2> QED
    BY <2>1, <2>2
<1> QED
  BY <1>2, <1>3, <1>4

LEMMA StraightKept ==
  ASSUME NEW calls, NEW rep, NEW d, NEW q, NEW s, SameRuns(q, s), StraightHolds(calls, q, rep, d),
         \A i \in DOMAIN q : /\ s[i].decision # "thrown"
                             /\ s[i].phase # "settled" => q[i].phase # "settled"
                             /\ s[i].decision = "ack" <=> q[i].decision = "ack"
  PROVE  StraightHolds(calls, s, rep, d)
<1>1. DOMAIN s = DOMAIN q /\ \A i \in DOMAIN q : s[i].poll = q[i].poll /\ s[i].events = q[i].events
  BY DEF SameRuns
<1>2. \A i \in DOMAIN s :
       /\ s[i].decision # "thrown"
       /\ s[i].phase # "settled" => /\ calls[s[i].poll].phase = "pushing"
                                    /\ \A e \in ToSet(s[i].events), t \in ReplayTargets : e \notin ToSet(d[t])
       /\ s[i].decision = "ack" /\ calls[s[i].poll].phase = "done" => ToSet(s[i].events) \subseteq rep.seen
  BY <1>1 DEF StraightHolds
<1>3. \A t \in ReplayTargets : \A e \in ToSet(d[t]) : e # 0 =>
        \E i \in DOMAIN s : s[i].decision = "ack" /\ e \in ToSet(s[i].events)
  BY <1>1 DEF StraightHolds
<1>4. /\ \A p, r \in ReplayPolls : p # r => calls[p].phase \in {"new", "done"} \/ calls[r].phase \in {"new", "done"}
      /\ \A t \in ReplayTargets : OnceIn(d[t])
  BY DEF StraightHolds
<1> QED
  BY <1>2, <1>3, <1>4 DEF StraightHolds

-----------------------------------------------------------------------------
(* The steps.                                                              *)

LEMMA RunsSelf == \A q : SameRuns(q, q)
  BY DEF SameRuns

LEMMA CacheExpiresKeeps ==
  ASSUME WorkerIInv, CacheExpires
  PROVE  WorkerIInv'
<1>1. stateCache \in Seq(CacheEntry) /\ stateCache # <<>> /\ stateCache' = Tail(stateCache)
      /\ CacheHolds(stateCache, runs, documents, stale)
  BY DEF WorkerIInv, WorkerTypeOK, CacheExpires
<1>2. stateCache' \in Seq(CacheEntry) /\ ToSet(stateCache') \in SUBSET ToSet(stateCache)
  <2> PICK c : c = stateCache
    OBVIOUS
  <2>1. c \in Seq(CacheEntry) /\ c # <<>>
    BY <1>1
  <2>2. Tail(c) \in Seq(CacheEntry) /\ \A i \in DOMAIN Tail(c) : i + 1 \in DOMAIN c /\ Tail(c)[i] = c[i + 1]
    BY <2>1
  <2>3. ToSet(Tail(c)) \in SUBSET ToSet(c)
    BY <2>2 DEF ToSet
  <2> QED
    BY <1>1, <2>2, <2>3
<1>3. CacheHolds(stateCache', runs, documents, stale)
  BY <1>1, <1>2 DEF CacheHolds
<1>4. UNCHANGED <<documents, runs, poll, replay, foreign, workerFaults, stale, straight>>
  BY DEF CacheExpires
<1> QED
  BY <1>2, <1>3, <1>4 DEF WorkerIInv, WorkerTypeOK

LEMMA ForeignWriteKeeps ==
  ASSUME WorkerIInv, NEW t \in ReplayTargets, ForeignWrite(t)
  PROVE  WorkerIInv'
<1>1. /\ documents \in Contents /\ runs \in Seq(Run) /\ poll \in [ReplayPolls -> Poll]
      /\ replay \in [cursor : 0..Len(ReplayFeed), seen : SUBSET ReplayEvents]
      /\ stateCache \in Seq(CacheEntry) /\ stale \in SUBSET ReplayTargets /\ foreign \in Nat
  BY DEF WorkerIInv, WorkerTypeOK
<1>2. /\ documents' = [documents EXCEPT ![t] = Append(@, 0)] /\ stale' = stale \cup {t}
      /\ foreign' = foreign + 1 /\ UNCHANGED <<stateCache, runs, poll, replay, workerFaults, straight>>
  BY DEF ForeignWrite
<1> PICK f : f = documents'
  OBVIOUS
<1> PICK d : d = documents
  OBVIOUS
<1>3. d \in Contents /\ f = [d EXCEPT ![t] = Append(@, 0)] /\ d[t] \in Seq(Nat)
  BY <1>1, <1>2 DEF Contents
<1>4. f[t] = Append(d[t], 0) /\ f \in Contents /\ \A u \in ReplayTargets : u # t => f[u] = d[u]
  BY <1>3 DEF Contents
<1>5. /\ \A x : x \in ToSet(f[t]) <=> x \in ToSet(d[t]) \/ x = 0
      /\ OnceIn(d[t]) => OnceIn(f[t])
  <2> PICK old : old = d[t]
    OBVIOUS
  <2> DEFINE n == Len(old)
             new == Append(old, 0)
  <2>1. /\ n \in Nat /\ DOMAIN old = 1..n /\ DOMAIN new = 1..(n + 1) /\ new[n + 1] = 0
        /\ \A i \in 1..n : new[i] = old[i]
    BY <1>3
  <2> HIDE DEF n, new
  <2>2. \A i : i \in 1..(n + 1) <=> i \in 1..n \/ i = n + 1
    BY <2>1
  <2>3. \A x : x \in ToSet(new) <=> x \in ToSet(old) \/ x = 0
    BY <2>1, <2>2 DEF ToSet
  <2>4. OnceIn(old) => OnceIn(new)
    BY <2>1, <2>2 DEF OnceIn
  <2> QED
    BY <1>4, <2>3, <2>4 DEF new
<1>6. DocsGrow(d, f)
  BY <1>4, <1>5 DEF DocsGrow
<1>7. \A i \in DOMAIN runs : RunHolds(runs[i], f)
  <2>1. \A i \in DOMAIN runs : runs[i] \in Run /\ RunHolds(runs[i], d)
    BY <1>1, ElementsOf DEF WorkerIInv
  <2> QED
    BY <1>6, <2>1, RunKept
<1>8. \A p \in ReplayPolls : PollHolds(p, poll[p], runs, f)
  <2>1. \A p \in ReplayPolls : poll[p] \in Poll /\ PollHolds(p, poll[p], runs, d)
    BY <1>1 DEF WorkerIInv
  <2> QED
    BY <1>6, <2>1, PollKept, RunsSelf
<1>9. ReplayHolds(replay, f)
  <2>1. ReplayHolds(replay, d)
    BY DEF WorkerIInv
  <2> QED
    BY <1>1, <1>6, <2>1, ReplayKept
<1>10. CacheHolds(stateCache, runs, f, stale')
  <2>1. CacheHolds(stateCache, runs, d, stale)
    BY DEF WorkerIInv
  <2>2. \A entry \in ToSet(stateCache) : entry.target \in ReplayTargets
    <3>1. ToSet(stateCache) \in SUBSET CacheEntry
      BY <1>1, ElementsOf
    <3> QED
      BY <3>1 DEF CacheEntry
  <2> QED
    BY <1>2, <1>4, <2>1, <2>2 DEF CacheHolds, EntryHolds
<1>11. straight => StraightHolds(poll, runs, replay, f)
  <2> SUFFICES ASSUME straight PROVE StraightHolds(poll, runs, replay, f)
    OBVIOUS
  <2>1. StraightHolds(poll, runs, replay, d)
    BY DEF WorkerIInv
  <2>2. \A e \in ReplayEvents, u \in ReplayTargets : e \in ToSet(f[u]) => e \in ToSet(d[u])
    BY <1>4, <1>5, EventsAreNaturals
  <2>3. \A i \in DOMAIN runs : \A e \in ToSet(runs[i].events) : e \in ReplayEvents
    BY <1>1, RunTyped, ElementsOf
  <2>4. \A u \in ReplayTargets : OnceIn(f[u]) /\ \A e \in ToSet(f[u]) : e # 0 => e \in ToSet(d[u])
    BY <1>4, <1>5, <2>1 DEF StraightHolds
  <2> QED
    BY <2>1, <2>2, <2>3, <2>4 DEF StraightHolds
<1>12. WorkerTypeOK'
  BY <1>1, <1>2, <1>4 DEF WorkerIInv, WorkerTypeOK
<1> QED
  BY <1>2, <1>7, <1>8, <1>9, <1>10, <1>11, <1>12 DEF WorkerIInv

LEMMA LoadStatesKeeps ==
  ASSUME WorkerIInv, NEW i \in DOMAIN runs, LoadStates(i)
  PROVE  WorkerIInv'
<1>1. /\ documents \in Contents /\ runs \in Seq(Run) /\ poll \in [ReplayPolls -> Poll]
      /\ stateCache \in Seq(CacheEntry)
      /\ \A j \in DOMAIN runs : RunHolds(runs[j], documents)
      /\ RunsApart(runs) /\ CacheHolds(stateCache, runs, documents, stale)
      /\ \A p \in ReplayPolls : PollHolds(p, poll[p], runs, documents)
      /\ straight => StraightHolds(poll, runs, replay, documents)
  BY DEF WorkerIInv, WorkerTypeOK
<1> DEFINE r == runs[i]
           base == [cache |-> stateCache, held |-> r.held]
           order == SetToSeq(TargetsIn(r))
           after == StatesRead(r, base, documents, order)
<1>2. /\ r.phase = "queued" /\ MyTurn(i)
      /\ stateCache' = after.cache
      /\ runs' = [runs EXCEPT ![i].phase = "storing", ![i].held = after.held]
      /\ UNCHANGED <<documents, poll, replay, foreign, workerFaults, stale, straight>>
  BY DEF LoadStates, StatesRead, ReadState
<1> HIDE DEF after
<1>3. r \in Run
  BY <1>1, ElementsOf
<1>4. /\ r.events \in Seq(ReplayEvents) /\ TargetsIn(r) \in SUBSET ReplayTargets
      /\ base \in [cache : Seq(CacheEntry), held : Contents]
  BY <1>1, <1>3, RunTyped
<1>5. /\ order \in Seq(ReplayTargets) /\ \A j, k \in DOMAIN order : order[j] = order[k] => j = k
      /\ \A t : t \in TargetsIn(r) <=> \E j \in 1..Len(order) : order[j] = t
  <2>1. IsFiniteSet(TargetsIn(r))
    BY <1>4, FS_Subset, WorkerAssumption
  <2>2. /\ order \in Seq(TargetsIn(r)) /\ ToSet(order) = TargetsIn(r)
        /\ \A j, k \in 1..Len(order) : order[j] = order[k] => j = k
    BY <2>1, SetAsSequence
  <2> HIDE DEF order, r
  <2>3. order \in Seq(ReplayTargets)
    BY <1>4, <2>2, SeqOfSubset
  <2>4. DOMAIN order = 1..Len(order)
    BY <2>3
  <2> QED
    BY <2>2, <2>3, <2>4 DEF ToSet
<1> HIDE DEF order, base
<1>6. /\ after.cache \in Seq(CacheEntry) /\ after.held \in Contents
      /\ \A entry \in ToSet(after.cache) : StateOf(entry, r, after, base, order, Len(order))
  <2> HIDE DEF r
  <2> QED
    BY <1>1, <1>4, <1>5, StatesReadAre DEF after
<1> PICK s : s = runs'
  OBVIOUS
<1> PICK q : q = runs
  OBVIOUS
<1>7. /\ q \in Seq(Run) /\ i \in DOMAIN q /\ r = q[i] /\ s = [q EXCEPT ![i].phase = "storing", ![i].held = after.held]
  BY <1>1, <1>2
<1>8. /\ s \in Seq(Run) /\ DOMAIN s = DOMAIN q /\ \A j \in DOMAIN q : j # i => s[j] = q[j]
      /\ s[i].phase = "storing" /\ s[i].held = after.held /\ s[i].poll = r.poll /\ s[i].events = r.events
      /\ s[i].decision = r.decision
  <2> DEFINE new == [r EXCEPT !.phase = "storing", !.held = after.held]
  <2>1. /\ new \in Run /\ new.phase = "storing" /\ new.held = after.held /\ new.poll = r.poll
        /\ new.events = r.events /\ new.decision = r.decision
    <3> HIDE DEF r
    <3> QED
      BY <1>3, <1>6 DEF Run
  <2>2. s = [q EXCEPT ![i] = new]
    BY <1>7
  <2>3. /\ \A j \in DOMAIN q : j # i => s[j] = q[j]
        /\ s[i] = new
    <3> HIDE DEF new, r
    <3> QED
      BY <1>7, <2>2
  <2>4. s \in Seq(Run) /\ DOMAIN s = DOMAIN q
    <3> HIDE DEF new, r
    <3>1. Len(q) \in Nat /\ q \in [1..Len(q) -> Run]
      BY <1>7
    <3>2. s \in [1..Len(q) -> Run]
      BY <2>1, <2>2, <3>1
    <3> QED
      BY <3>1, <3>2
  <2> HIDE DEF new, r
  <2> QED
    BY <2>1, <2>3, <2>4
<1>9. SameRuns(q, s)
  BY <1>7, <1>8 DEF SameRuns
<1>10. DocsGrow(documents, documents)
  BY DEF DocsGrow
<1>11. \A j \in DOMAIN s : RunHolds(s[j], documents)
  <2>1. RunHolds(s[i], documents)
    <3>1. RunHolds(r, documents)
      BY <1>1
    <3>2. r.decision = "none"
      BY <1>2, <3>1 DEF RunHolds
    <3> QED
      BY <1>8, <3>1, <3>2 DEF RunHolds
  <2> QED
    BY <1>1, <1>8, <2>1
<1>12. RunsApart(s)
  <2>1. ASSUME NEW j \in DOMAIN q
        PROVE  /\ q[j].phase = "settled" => s[j].phase = "settled"
               /\ s[j].phase = "storing" /\ q[j].phase # "storing" =>
                    \A k \in 1..(j - 1) : q[k].phase # "settled" => ~ShareLane(q[k], q[j])
    <3>1. \A k \in 1..(i - 1) : q[k].phase # "settled" => ~ShareLane(q[k], q[i])
      BY <1>2 DEF MyTurn
    <3> QED
      BY <1>2, <1>7, <1>8, <3>1
  <2>2. RunsApart(q)
    BY <1>1
  <2> HIDE DEF r
  <2> QED
    BY <1>7, <1>8, <1>9, <2>1, <2>2, LanesKept
<1>13. \A p \in ReplayPolls : PollHolds(p, poll[p], s, documents)
  BY <1>1, <1>9, <1>10, PollKept
<1>14. CacheHolds(after.cache, s, documents, stale)
  <2> SUFFICES ASSUME NEW entry \in ToSet(after.cache)
               PROVE  /\ EntryHolds(entry, s, documents, stale)
                      /\ \A j \in DOMAIN s : s[j].phase = "storing" /\ entry.target \in TargetsIn(s[j]) =>
                           entry.value = s[j].held[entry.target] \o Folds(s[j], entry.target)
    BY DEF CacheHolds
  <2>1. StateOf(entry, r, after, base, order, Len(order))
    BY <1>6
  <2>2. TargetsIn(s[i]) = TargetsIn(r) /\ Folds(s[i], entry.target) = Folds(r, entry.target)
    BY <1>8 DEF TargetsIn, Folds
  <2>3. CASE entry.target \in TargetsIn(r)
    <3>1. entry.value = s[i].held[entry.target] \o Folds(s[i], entry.target)
      BY <1>5, <1>8, <2>1, <2>2, <2>3 DEF StateOf
    <3>2. EntryHolds(entry, s, documents, stale)
      BY <1>7, <1>8, <2>2, <2>3 DEF EntryHolds
    <3>3. ASSUME NEW j \in DOMAIN s, s[j].phase = "storing", entry.target \in TargetsIn(s[j]), j # i
          PROVE  FALSE
      BY <1>7, <1>8, <1>12, <2>2, <2>3, <3>3, StoringApart
    <3> QED
      BY <3>1, <3>2, <3>3
  <2>4. CASE entry.target \notin TargetsIn(r)
    <3>1. entry \in ToSet(stateCache)
      BY <1>5, <2>1, <2>4 DEF StateOf, base
    <3>2. /\ EntryHolds(entry, q, documents, stale)
          /\ \A j \in DOMAIN q : q[j].phase = "storing" /\ entry.target \in TargetsIn(q[j]) =>
               entry.value = q[j].held[entry.target] \o Folds(q[j], entry.target)
      BY <1>1, <3>1 DEF CacheHolds
    <3>3. \A j \in DOMAIN s : entry.target \in TargetsIn(s[j]) => j # i /\ s[j] = q[j]
      BY <1>8, <2>2, <2>4
    <3>4. \A j \in DOMAIN q : q[j].phase = "storing" => j # i /\ s[j] = q[j]
      BY <1>2, <1>7, <1>8
    <3>5. DOMAIN s = DOMAIN q
      BY <1>8
    <3>6. ASSUME NEW j \in DOMAIN s, s[j].phase = "storing", entry.target \in TargetsIn(s[j])
          PROVE  entry.value = s[j].held[entry.target] \o Folds(s[j], entry.target)
      <4>1. s[j] = q[j] /\ j \in DOMAIN q
        BY <3>3, <3>5, <3>6
      <4> QED
        BY <3>2, <3>6, <4>1
    <3>7. EntryHolds(entry, s, documents, stale)
      <4>1. CASE \E j \in DOMAIN q : q[j].phase = "storing" /\ entry.target \in TargetsIn(q[j])
        <5>1. PICK j \in DOMAIN q : q[j].phase = "storing" /\ entry.target \in TargetsIn(q[j])
          BY <4>1
        <5>2. s[j] = q[j] /\ j \in DOMAIN s
          BY <3>4, <3>5, <5>1
        <5> QED
          BY <5>1, <5>2 DEF EntryHolds
      <4>2. CASE ~\E j \in DOMAIN q : q[j].phase = "storing" /\ entry.target \in TargetsIn(q[j])
        BY <3>2, <4>2 DEF EntryHolds
      <4> QED
        BY <4>1, <4>2
    <3> QED
      BY <3>6, <3>7
  <2> QED
    BY <2>3, <2>4
<1>15. straight => StraightHolds(poll, s, replay, documents)
  <2> SUFFICES ASSUME straight PROVE StraightHolds(poll, s, replay, documents)
    OBVIOUS
  <2>1. StraightHolds(poll, q, replay, documents)
    BY <1>1
  <2>2. \A j \in DOMAIN q : q[j].decision # "thrown"
    BY <2>1 DEF StraightHolds
  <2>3. \A j \in DOMAIN q : /\ s[j].decision = q[j].decision
                            /\ s[j].phase # "settled" => q[j].phase # "settled"
    BY <1>2, <1>7, <1>8
  <2> QED
    BY <1>9, <2>1, <2>2, <2>3, StraightKept
<1>16. WorkerTypeOK'
  BY <1>2, <1>6, <1>8 DEF WorkerIInv, WorkerTypeOK
<1> QED
  BY <1>2, <1>11, <1>12, <1>13, <1>14, <1>15, <1>16 DEF WorkerIInv

SettlesTo(q, s, i, decision) == s = [q EXCEPT ![i].phase = "settled", ![i].decision = decision]

LEMMA RunSettlesTo ==
  ASSUME NEW q \in Seq(Run), NEW i \in DOMAIN q, q[i].phase = "storing", RunsApart(q),
         NEW decision \in {"ack", "nack", "thrown"},
         NEW s, SettlesTo(q, s, i, decision)
  PROVE  /\ s \in Seq(Run) /\ SameRuns(q, s) /\ RunsApart(s)
         /\ OneSettles(q, s, i) /\ s[i].decision = decision
<1> DEFINE r == q[i]
           new == [r EXCEPT !.phase = "settled", !.decision = decision]
<1>1. r \in Run
  BY ElementsOf
<1>2. /\ new \in Run /\ new.phase = "settled" /\ new.decision = decision
      /\ new.poll = r.poll /\ new.events = r.events
  <2> HIDE DEF r
  <2> QED
    BY <1>1 DEF Run
<1>3. s = [q EXCEPT ![i] = new]
  BY DEF SettlesTo
<1> HIDE DEF new
<1>4. s \in Seq(Run) /\ DOMAIN s = DOMAIN q
  <2>1. Len(q) \in Nat /\ q \in [1..Len(q) -> Run]
    OBVIOUS
  <2>2. s \in [1..Len(q) -> Run]
    BY <1>2, <1>3, <2>1
  <2> QED
    BY <2>1, <2>2
<1>5. s[i] = new /\ \A j \in DOMAIN q : j # i => s[j] = q[j]
  BY <1>3
<1>6. SameRuns(q, s)
  BY <1>2, <1>4, <1>5 DEF SameRuns
<1>7. RunsApart(s)
  <2>1. \A j \in DOMAIN q : /\ q[j].phase = "settled" => s[j].phase = "settled"
                            /\ ~ (s[j].phase = "storing" /\ q[j].phase # "storing")
    BY <1>2, <1>5
  <2> QED
    BY <1>4, <1>6, <2>1, LanesKept
<1>8. OneSettles(q, s, i)
  BY <1>2, <1>5 DEF OneSettles
<1> QED
  BY <1>2, <1>4, <1>5, <1>6, <1>7, <1>8

\* A run that fails: what it leaves in the cache is excused or evicted.
FailureHolds(i, decision) ==
  /\ StoreAnswers(i) /\ RunSettles(i, decision) /\ UNCHANGED documents
  /\ workerFaults' \in Nat /\ stale' \in SUBSET ReplayTargets /\ straight' \in BOOLEAN
  /\ stateCache' \in Seq(CacheEntry) /\ ToSet(stateCache') \in SUBSET ToSet(stateCache)
  /\ \A entry \in ToSet(stateCache') : entry.target \in TargetsIn(runs[i]) => entry.target \in stale'
  /\ \A t \in stale : t \in TargetsIn(runs[i]) \/ t \in stale'
  /\ straight' => straight /\ decision = "nack"

LEMMA FailureKeeps ==
  ASSUME WorkerIInv, NEW i \in DOMAIN runs, NEW decision \in {"nack", "thrown"}, FailureHolds(i, decision)
  PROVE  WorkerIInv'
<1>1. /\ documents \in Contents /\ runs \in Seq(Run) /\ poll \in [ReplayPolls -> Poll]
      /\ stateCache \in Seq(CacheEntry)
      /\ \A j \in DOMAIN runs : RunHolds(runs[j], documents)
      /\ RunsApart(runs) /\ CacheHolds(stateCache, runs, documents, stale)
      /\ \A p \in ReplayPolls : PollHolds(p, poll[p], runs, documents)
      /\ straight => StraightHolds(poll, runs, replay, documents)
  BY DEF WorkerIInv, WorkerTypeOK
<1>2. /\ runs[i].phase = "storing" /\ UNCHANGED <<poll, replay, foreign, documents>>
      /\ runs' = [runs EXCEPT ![i].phase = "settled", ![i].decision = decision]
  BY DEF FailureHolds, StoreAnswers, RunSettles
<1> PICK s : s = runs'
  OBVIOUS
<1> PICK q : q = runs
  OBVIOUS
<1>3. /\ q \in Seq(Run) /\ i \in DOMAIN q /\ q[i].phase = "storing" /\ RunsApart(q)
      /\ SettlesTo(q, s, i, decision)
  BY <1>1, <1>2 DEF SettlesTo
<1>0. /\ s \in Seq(Run) /\ SameRuns(q, s) /\ RunsApart(s)
      /\ OneSettles(q, s, i) /\ s[i].decision = decision
  BY <1>3, RunSettlesTo
<1>4. /\ s \in Seq(Run) /\ SameRuns(q, s) /\ RunsApart(s)
      /\ \A j \in DOMAIN q : j # i => s[j] = q[j]
      /\ s[i].phase = "settled" /\ s[i].decision = decision
  BY <1>0 DEF OneSettles
<1>5. DocsGrow(documents, documents)
  BY DEF DocsGrow
<1>6. \A j \in DOMAIN s : RunHolds(s[j], documents)
  <2>1. RunHolds(q[i], documents)
    BY <1>1, <1>3
  <2>2. RunHolds(s[i], documents)
    BY <1>3, <1>4, <2>1 DEF RunHolds, SameRuns
  <2> QED
    BY <1>1, <1>4, <2>2 DEF SameRuns
<1>7. \A p \in ReplayPolls : PollHolds(p, poll[p], s, documents)
  BY <1>1, <1>4, <1>5, PollKept
<1>8. CacheHolds(stateCache', s, documents, stale')
  <2> PICK c : c = stateCache
    OBVIOUS
  <2> PICK b : b = stateCache'
    OBVIOUS
  <2> PICK st : st = stale
    OBVIOUS
  <2> PICK su : su = stale'
    OBVIOUS
  <2>1. /\ c \in Seq(CacheEntry) /\ CacheHolds(c, q, documents, st)
        /\ b \in Seq(CacheEntry) /\ Leaves(TargetsIn(q[i]), c, b, documents, documents, st, su)
    BY <1>1 DEF FailureHolds, Leaves
  <2>2. CacheHolds(b, s, documents, su)
    BY <1>0, <1>3, <2>1, CacheSettles
  <2> QED
    BY <2>2
<1>9. straight' => StraightHolds(poll, s, replay, documents)
  <2> SUFFICES ASSUME straight' PROVE StraightHolds(poll, s, replay, documents)
    OBVIOUS
  <2>1. StraightHolds(poll, q, replay, documents) /\ decision = "nack"
    BY <1>1 DEF FailureHolds
  <2>2. q[i].decision = "none"
    BY <1>1, <1>3 DEF RunHolds
  <2>3. \A j \in DOMAIN q : q[j].decision # "thrown"
    BY <2>1 DEF StraightHolds
  <2>4. \A j \in DOMAIN q : /\ s[j].decision # "thrown"
                            /\ s[j].phase # "settled" => q[j].phase # "settled"
                            /\ s[j].decision = "ack" <=> q[j].decision = "ack"
    BY <1>4, <2>1, <2>2, <2>3
  <2> QED
    BY <1>4, <2>1, <2>4, StraightKept
<1>10. WorkerTypeOK'
  BY <1>2, <1>4 DEF WorkerIInv, WorkerTypeOK, FailureHolds
<1>11. ReplayHolds(replay, documents)
  BY DEF WorkerIInv
<1> QED
  BY <1>2, <1>4, <1>6, <1>7, <1>8, <1>9, <1>10, <1>11 DEF WorkerIInv

LEMMA WithoutIs ==
  ASSUME NEW cache \in Seq(CacheEntry), NEW T
  PROVE  /\ Without(cache, T) \in Seq(CacheEntry) /\ ToSet(Without(cache, T)) \in SUBSET ToSet(cache)
         /\ \A entry \in ToSet(Without(cache, T)) : entry.target \notin T
  BY AmongIs DEF Without

LEMMA RunFailsKeeps ==
  ASSUME WorkerIInv, NEW i \in DOMAIN runs, RetryableFailure(i) \/ TerminalFailure(i) \/ RunThrows(i)
  PROVE  WorkerIInv'
<1>1. /\ runs \in Seq(Run) /\ stateCache \in Seq(CacheEntry) /\ stale \in SUBSET ReplayTargets
      /\ workerFaults \in Nat /\ straight \in BOOLEAN
  BY DEF WorkerIInv, WorkerTypeOK
<1>2. TargetsIn(runs[i]) \in SUBSET ReplayTargets
  <2>1. runs[i] \in Run
    BY <1>1, ElementsOf
  <2> QED
    BY <2>1, RunTyped
<1>3. CASE RetryableFailure(i)
  <2> PICK c : c = stateCache
    OBVIOUS
  <2> DEFINE T == TargetsIn(runs[i])
  <2>1. /\ Without(c, T) \in Seq(CacheEntry) /\ ToSet(Without(c, T)) \in SUBSET ToSet(c)
        /\ \A entry \in ToSet(Without(c, T)) : entry.target \notin T
    BY <1>1, WithoutIs
  <2>2. stateCache' = Without(c, T) /\ stale' = stale \ T
    BY <1>3 DEF RetryableFailure, Evicted
  <2>3. StoreAnswers(i) /\ RunSettles(i, "nack") /\ UNCHANGED <<documents, straight>> /\ workerFaults' \in Nat
    BY <1>1, <1>3 DEF RetryableFailure, StoreFails
  <2>4. FailureHolds(i, "nack")
    BY <1>1, <1>2, <2>1, <2>2, <2>3 DEF FailureHolds
  <2> QED
    BY <2>4, FailureKeeps
<1>4. CASE TerminalFailure(i)
  <2>1. FailureHolds(i, "nack")
    BY <1>1, <1>2, <1>4 DEF FailureHolds, TerminalFailure, StoreFails
  <2> QED
    BY <2>1, FailureKeeps
<1>5. CASE RunThrows(i)
  <2>1. /\ StoreAnswers(i) /\ RunSettles(i, "thrown") /\ workerFaults' \in Nat
        /\ stale' = stale \cup TargetsIn(runs[i]) /\ straight' = FALSE
        /\ UNCHANGED <<documents, stateCache>>
    BY <1>1, <1>5 DEF RunThrows, StoreFails
  <2>2. straight' \in BOOLEAN
    BY <2>1
  <2>3. FailureHolds(i, "thrown")
    BY <1>1, <1>2, <2>1, <2>2 DEF FailureHolds
  <2> QED
    BY <2>3, FailureKeeps
<1> QED
  BY <1>3, <1>4, <1>5

(* What a committed run leaves: the documents it stores are what it has read *)
(* and then folded.                                                          *)
CommitsTo(r, d, f) == f = [t \in ReplayTargets |-> IF t \in TargetsIn(r) THEN d[t] \o Folds(r, t) ELSE d[t]]

LEMMA CommittedDocs ==
  ASSUME NEW r \in Run, IsInjective(r.events), NEW d \in Contents, NEW f, CommitsTo(r, d, f)
  PROVE  /\ f \in Contents /\ DocsGrow(d, f)
         /\ \A e \in ToSet(r.events) : Folded(e, f)
         /\ \A t \in ReplayTargets : \A x \in ToSet(f[t]) : x \in ToSet(d[t]) \/ x \in ToSet(r.events)
         /\ (\A e \in ToSet(r.events), t \in ReplayTargets : e \notin ToSet(d[t]))
              => \A t \in ReplayTargets : OnceIn(d[t]) => OnceIn(f[t])
<1>1. r.events \in Seq(ReplayEvents) /\ TargetsIn(r) \in SUBSET ReplayTargets
      /\ ToSet(r.events) \in SUBSET ReplayEvents
  BY RunTyped
<1>2. ASSUME NEW t \in TargetsIn(r)
      PROVE  /\ f[t] \in Seq(Nat)
             /\ \A x : x \in ToSet(f[t]) <=> x \in ToSet(d[t]) \/ x \in ToSet(Folds(r, t))
             /\ ToSet(Folds(r, t)) \cap ToSet(d[t]) = {} /\ OnceIn(d[t]) => OnceIn(f[t])
  <2> DEFINE old == d[t]
             add == Folds(r, t)
             new == old \o add
             m == Len(old)
             n == Len(add)
  <2>1. old \in Seq(Nat)
    BY <1>1, <1>2 DEF Contents
  <2>2. add \in Seq(Nat) /\ IsInjective(add)
    <3>1. add \in Seq(ReplayEvents) /\ IsInjective(add)
      BY <1>1, FoldsAre
    <3> HIDE DEF add
    <3> QED
      BY <3>1, SeqOfSubset, EventsAreNaturals
  <2>3. f[t] = new
    BY <1>1, <1>2 DEF CommitsTo
  <2> HIDE DEF old, add
  <2>4. /\ m \in Nat /\ n \in Nat /\ DOMAIN old = 1..m /\ DOMAIN add = 1..n /\ new \in Seq(Nat)
        /\ DOMAIN new = 1..(m + n) /\ \A i \in 1..m : new[i] = old[i]
        /\ \A i \in 1..n : new[m + i] = add[i]
    BY <2>1, <2>2
  <2> HIDE DEF m, n, new
  <2>5. \A i \in 1..(m + n) : i \in 1..m \/ (i - m \in 1..n /\ i = m + (i - m))
    BY <2>4
  <2>6. (\A i \in 1..m : i \in 1..(m + n)) /\ \A i \in 1..n : m + i \in 1..(m + n)
    BY <2>4
  <2>7. \A x : x \in ToSet(new) <=> x \in ToSet(old) \/ x \in ToSet(add)
    <3>1. \A x \in ToSet(new) : x \in ToSet(old) \/ x \in ToSet(add)
      <4> TAKE x \in ToSet(new)
      <4>1. PICK i \in 1..(m + n) : x = new[i]
        BY <2>4 DEF ToSet
      <4>2. CASE i \in 1..m
        BY <2>4, <4>1, <4>2 DEF ToSet
      <4>3. CASE i - m \in 1..n /\ i = m + (i - m)
        <5> PICK k \in 1..n : i = m + k
          BY <4>3
        <5> QED
          BY <2>4, <4>1 DEF ToSet
      <4> QED
        BY <2>5, <4>2, <4>3
    <3>2. \A x \in ToSet(old) : x \in ToSet(new)
      BY <2>4, <2>6 DEF ToSet
    <3>3. \A x \in ToSet(add) : x \in ToSet(new)
      BY <2>4, <2>6 DEF ToSet
    <3> QED
      BY <3>1, <3>2, <3>3
  <2>8. ASSUME ToSet(add) \cap ToSet(old) = {}, OnceIn(old) PROVE OnceIn(new)
    <3> SUFFICES ASSUME NEW i \in 1..(m + n), NEW j \in 1..(m + n), new[i] = new[j], i # j PROVE new[i] = 0
      BY <2>4 DEF OnceIn
    <3>1. \A k \in 1..m, l \in 1..n : new[k] # new[m + l]
      BY <2>4, <2>8 DEF ToSet
    <3>2. \A k, l \in 1..n : new[m + k] = new[m + l] => k = l
      <4>1. \A k, l \in 1..n : add[k] = add[l] => k = l
        BY <2>2, <2>4 DEF IsInjective
      <4>2. \A k \in 1..n : new[m + k] = add[k]
        BY <2>4
      <4> QED
        BY <4>1, <4>2
    <3>3. CASE i \in 1..m /\ j \in 1..m
      BY <2>4, <2>8, <3>3 DEF OnceIn
    <3>4. CASE i \in 1..m /\ j \notin 1..m
      <4>1. PICK l \in 1..n : j = m + l
        BY <2>5, <3>4
      <4> QED
        BY <3>1, <3>4, <4>1
    <3>5. CASE i \notin 1..m /\ j \in 1..m
      <4>1. PICK l \in 1..n : i = m + l
        BY <2>5, <3>5
      <4> QED
        BY <3>1, <3>5, <4>1
    <3>6. CASE i \notin 1..m /\ j \notin 1..m
      <4>1. PICK k \in 1..n : i = m + k
        BY <2>5, <3>6
      <4>2. PICK l \in 1..n : j = m + l
        BY <2>5, <3>6
      <4> QED
        BY <3>2, <4>1, <4>2
    <3> QED
      BY <3>3, <3>4, <3>5, <3>6
  <2> QED
    BY <2>3, <2>4, <2>7, <2>8 DEF old, add
<1>3. ASSUME NEW t \in ReplayTargets, t \notin TargetsIn(r) PROVE f[t] = d[t] /\ f[t] \in Seq(Nat)
  BY <1>3 DEF Contents, CommitsTo
<1>4. f \in Contents
  <2>1. \A t \in ReplayTargets : f[t] \in Seq(Nat)
    BY <1>2, <1>3
  <2> QED
    BY <2>1 DEF Contents, CommitsTo
<1>5. DocsGrow(d, f)
  BY <1>2, <1>3 DEF DocsGrow
<1>6. \A t : \A x \in ToSet(Folds(r, t)) : x \in ToSet(r.events)
  BY <1>1, FoldsAre
<1>7. \A t \in ReplayTargets : \A x \in ToSet(f[t]) : x \in ToSet(d[t]) \/ x \in ToSet(r.events)
  BY <1>2, <1>3, <1>6
<1>8. ASSUME NEW e \in ToSet(r.events) PROVE Folded(e, f)
  <2> SUFFICES ASSUME NEW t \in TargetsOf[e] PROVE e \in ToSet(f[t])
    BY DEF Folded
  <2>1. t \in TargetsIn(r)
    BY DEF TargetsIn
  <2>2. e \in ToSet(Folds(r, t))
    BY <1>1, FoldsAre
  <2> QED
    BY <1>2, <2>1, <2>2
<1>9. ASSUME \A e \in ToSet(r.events), t \in ReplayTargets : e \notin ToSet(d[t]),
             NEW t \in ReplayTargets, OnceIn(d[t])
      PROVE  OnceIn(f[t])
  <2>1. CASE t \in TargetsIn(r)
    <3>1. ToSet(Folds(r, t)) \cap ToSet(d[t]) = {}
      BY <1>6, <1>9
    <3> QED
      BY <1>2, <1>9, <2>1, <3>1
  <2>2. CASE t \notin TargetsIn(r)
    BY <1>3, <1>9, <2>2
  <2> QED
    BY <2>1, <2>2
<1> QED
  BY <1>4, <1>5, <1>7, <1>8, <1>9

LEMMA CommittedKeeps ==
  ASSUME WorkerIInv, NEW i \in DOMAIN runs, Committed(i)
  PROVE  WorkerIInv'
<1>1. /\ documents \in Contents /\ runs \in Seq(Run) /\ poll \in [ReplayPolls -> Poll]
      /\ stateCache \in Seq(CacheEntry) /\ stale \in SUBSET ReplayTargets
      /\ replay \in [cursor : 0..Len(ReplayFeed), seen : SUBSET ReplayEvents]
      /\ \A j \in DOMAIN runs : RunHolds(runs[j], documents)
      /\ RunsApart(runs) /\ CacheHolds(stateCache, runs, documents, stale)
      /\ \A p \in ReplayPolls : PollHolds(p, poll[p], runs, documents)
      /\ ReplayHolds(replay, documents)
      /\ straight => StraightHolds(poll, runs, replay, documents)
  BY DEF WorkerIInv, WorkerTypeOK
<1>2. /\ runs[i].phase = "storing" /\ UNCHANGED <<poll, replay, foreign, stateCache, workerFaults, straight>>
      /\ runs' = [runs EXCEPT ![i].phase = "settled", ![i].decision = "ack"]
      /\ \A t \in TargetsIn(runs[i]) : documents[t] = runs[i].held[t]
      /\ documents' = [t \in ReplayTargets |->
           IF t \in TargetsIn(runs[i]) THEN runs[i].held[t] \o Folds(runs[i], t) ELSE documents[t]]
      /\ stale' = stale \ TargetsIn(runs[i])
  BY DEF Committed, StoreAnswers, RunSettles, Matches
<1> PICK s : s = runs'
  OBVIOUS
<1> PICK q : q = runs
  OBVIOUS
<1> PICK f : f = documents'
  OBVIOUS
<1> PICK d : d = documents
  OBVIOUS
<1> PICK su : su = stale'
  OBVIOUS
<1> PICK st : st = stale
  OBVIOUS
<1>3. /\ q \in Seq(Run) /\ i \in DOMAIN q /\ q[i].phase = "storing" /\ RunsApart(q)
      /\ SettlesTo(q, s, i, "ack")
  BY <1>1, <1>2 DEF SettlesTo
<1>4. /\ s \in Seq(Run) /\ SameRuns(q, s) /\ RunsApart(s)
      /\ OneSettles(q, s, i) /\ s[i].decision = "ack"
  BY <1>3, RunSettlesTo
<1>5. /\ DOMAIN s = DOMAIN q /\ \A j \in DOMAIN q : j # i => s[j] = q[j]
      /\ s[i].phase = "settled" /\ s[i].events = q[i].events /\ s[i].poll = q[i].poll
  BY <1>3, <1>4 DEF OneSettles, SameRuns
<1>6. q[i] \in Run /\ RunHolds(q[i], d)
  BY <1>1, <1>3, ElementsOf
<1>7. IsInjective(q[i].events) /\ q[i].decision = "none"
  BY <1>3, <1>6 DEF RunHolds
<1>8. f = [t \in ReplayTargets |-> IF t \in TargetsIn(q[i]) THEN d[t] \o Folds(q[i], t) ELSE d[t]]
  BY <1>2
<1>9. /\ f \in Contents /\ DocsGrow(d, f)
      /\ \A e \in ToSet(q[i].events) : Folded(e, f)
      /\ \A t \in ReplayTargets : \A x \in ToSet(f[t]) : x \in ToSet(d[t]) \/ x \in ToSet(q[i].events)
      /\ (\A e \in ToSet(q[i].events), t \in ReplayTargets : e \notin ToSet(d[t]))
           => \A t \in ReplayTargets : OnceIn(d[t]) => OnceIn(f[t])
  <2>1. d \in Contents /\ CommitsTo(q[i], d, f)
    BY <1>1, <1>8 DEF CommitsTo
  <2> QED
    BY <1>6, <1>7, <2>1, CommittedDocs
<1>10. \A j \in DOMAIN s : RunHolds(s[j], f)
  <2>1. RunHolds(s[i], f)
    <3>1. \A e \in ToSet(s[i].events) : Folded(e, f)
      BY <1>5, <1>9
    <3> QED
      BY <1>4, <1>5, <1>7, <3>1 DEF RunHolds
  <2>2. ASSUME NEW j \in DOMAIN q, j # i PROVE RunHolds(s[j], f)
    <3>1. q[j] \in Run /\ RunHolds(q[j], d)
      BY <1>1, <1>3, ElementsOf
    <3>2. RunHolds(q[j], f)
      BY <1>9, <3>1, RunKept
    <3> QED
      BY <1>5, <2>2, <3>2
  <2> QED
    BY <1>5, <2>1, <2>2
<1>11. \A p \in ReplayPolls : PollHolds(p, poll[p], s, f)
  BY <1>1, <1>4, <1>9, PollKept
<1>12. ReplayHolds(replay, f)
  BY <1>1, <1>9, ReplayKept
<1>13. CacheHolds(stateCache, s, f, su)
  <2> PICK c : c = stateCache
    OBVIOUS
  <2>1. c \in Seq(CacheEntry) /\ CacheHolds(c, q, d, st)
    BY <1>1
  <2>2. ASSUME NEW entry \in ToSet(c), entry.target \in TargetsIn(q[i])
        PROVE  entry.value = f[entry.target]
    <3>1. entry.value = q[i].held[entry.target] \o Folds(q[i], entry.target)
      BY <1>3, <2>1, <2>2 DEF CacheHolds
    <3>2. q[i].held[entry.target] = d[entry.target]
      BY <1>2, <2>2
    <3>3. entry.target \in ReplayTargets
      BY <1>6, <2>2, RunTyped
    <3>4. f[entry.target] = d[entry.target] \o Folds(q[i], entry.target)
      BY <1>8, <2>2, <3>3
    <3> QED
      BY <3>1, <3>2, <3>4
  <2>3. \A t \in ReplayTargets : t \notin TargetsIn(q[i]) => f[t] = d[t] /\ (t \in st => t \in su)
    BY <1>2, <1>8
  <2>4. Leaves(TargetsIn(q[i]), c, c, d, f, st, su)
    BY <2>2, <2>3 DEF Leaves
  <2>5. CacheHolds(c, s, f, su)
    BY <1>3, <1>4, <2>1, <2>4, CacheSettles
  <2> QED
    BY <2>5
<1>14. straight => StraightHolds(poll, s, replay, f)
  <2> SUFFICES ASSUME straight PROVE StraightHolds(poll, s, replay, f)
    OBVIOUS
  <2> PICK calls : calls = poll
    OBVIOUS
  <2> PICK rep : rep = replay
    OBVIOUS
  <2>1. StraightHolds(calls, q, rep, d)
    BY <1>1
  <2>2. /\ \A p, r \in ReplayPolls : p # r => calls[p].phase \in {"new", "done"} \/ calls[r].phase \in {"new", "done"}
        /\ \A j \in DOMAIN q :
             /\ q[j].decision # "thrown"
             /\ q[j].phase # "settled" => /\ calls[q[j].poll].phase = "pushing"
                                          /\ \A e \in ToSet(q[j].events), t \in ReplayTargets : e \notin ToSet(d[t])
             /\ q[j].decision = "ack" /\ calls[q[j].poll].phase = "done" => ToSet(q[j].events) \subseteq rep.seen
        /\ \A t \in ReplayTargets :
             /\ OnceIn(d[t])
             /\ \A e \in ToSet(d[t]) : e # 0 => \E j \in DOMAIN q : q[j].decision = "ack" /\ e \in ToSet(q[j].events)
    BY <2>1 DEF StraightHolds
  <2>3. /\ calls[q[i].poll].phase = "pushing" /\ q[i].poll \in ReplayPolls
        /\ \A e \in ToSet(q[i].events), t \in ReplayTargets : e \notin ToSet(d[t])
    BY ZenonT(60), <1>3, <1>6, <2>2, RunTyped
  <2>4. \A t \in ReplayTargets : OnceIn(f[t])
    BY <1>9, <2>2, <2>3
  <2>5. \A t \in ReplayTargets : \A e \in ToSet(f[t]) : e # 0 =>
          \E j \in DOMAIN s : s[j].decision = "ack" /\ e \in ToSet(s[j].events)
    <3> TAKE t \in ReplayTargets
    <3> TAKE e \in ToSet(f[t])
    <3> HAVE e # 0
    <3>1. CASE e \in ToSet(d[t])
      <4>1. PICK j \in DOMAIN q : q[j].decision = "ack" /\ e \in ToSet(q[j].events)
        BY <2>2, <3>1
      <4> QED
        BY <1>5, <1>7, <4>1
    <3>2. CASE e \in ToSet(q[i].events)
      BY <1>3, <1>4, <1>5, <3>2
    <3> QED
      BY <1>9, <3>1, <3>2
  <2>6. ASSUME NEW j \in DOMAIN s
        PROVE  /\ s[j].decision # "thrown"
               /\ s[j].phase # "settled" => /\ calls[s[j].poll].phase = "pushing"
                                            /\ \A e \in ToSet(s[j].events), t \in ReplayTargets : e \notin ToSet(f[t])
               /\ s[j].decision = "ack" /\ calls[s[j].poll].phase = "done" => ToSet(s[j].events) \subseteq rep.seen
    <3>1. CASE j = i
      BY <1>4, <1>5, <2>3, <3>1
    <3>2. CASE j # i
      <4>1. s[j] = q[j] /\ j \in DOMAIN q /\ q[j] \in Run
        BY <1>3, <1>5, <3>2, ElementsOf
      <4>2. ASSUME q[j].phase # "settled" PROVE ToSet(q[j].events) \cap ToSet(q[i].events) = {}
        <5>1. calls[q[j].poll].phase = "pushing" /\ q[j].poll \in ReplayPolls
          BY <2>2, <4>1, <4>2, RunTyped
        <5>2. q[j].poll = q[i].poll
          BY <2>2, <2>3, <5>1
        <5> QED
          BY <1>3, <3>2, <4>1, <5>2 DEF RunsApart
      <4>3. ASSUME q[j].phase # "settled"
            PROVE  \A e \in ToSet(q[j].events), t \in ReplayTargets : e \notin ToSet(f[t])
        BY <1>9, <2>2, <4>1, <4>2, <4>3
      <4> QED
        BY <2>2, <4>1, <4>3
    <3> QED
      BY <3>1, <3>2
  <2>7. StraightHolds(calls, s, rep, f)
    BY <2>2, <2>4, <2>5, <2>6 DEF StraightHolds
  <2> QED
    BY <2>7
<1>15. WorkerTypeOK'
  BY <1>1, <1>2, <1>4, <1>9 DEF WorkerIInv, WorkerTypeOK
<1> QED
  BY <1>2, <1>4, <1>10, <1>11, <1>12, <1>13, <1>14, <1>15 DEF WorkerIInv

LEMMA PollBeginsKeeps ==
  ASSUME WorkerIInv, NEW p \in ReplayPolls, PollBegins(p)
  PROVE  WorkerIInv'
<1>1. /\ runs \in Seq(Run) /\ poll \in [ReplayPolls -> Poll]
      /\ replay \in [cursor : 0..Len(ReplayFeed), seen : SUBSET ReplayEvents] /\ straight \in BOOLEAN
      /\ \A u \in ReplayPolls : PollHolds(u, poll[u], runs, documents)
      /\ ReplayHolds(replay, documents)
      /\ straight => StraightHolds(poll, runs, replay, documents)
  BY DEF WorkerIInv, WorkerTypeOK
<1> PICK calls : calls = poll'
  OBVIOUS
<1> PICK before : before = poll
  OBVIOUS
<1> PICK q : q = runs
  OBVIOUS
<1>2. /\ before[p].phase = "new"
      /\ calls = [before EXCEPT ![p] = [NewPoll EXCEPT !.phase = "polling", !.start = replay.cursor]]
      /\ straight' = (straight /\ \A u \in ReplayPolls : before[u].phase \in {"new", "done"})
      /\ UNCHANGED <<documents, stateCache, runs, replay, foreign, workerFaults, stale>>
  BY DEF PollBegins
<1>3. Len(ReplayFeed) \in Nat /\ replay.cursor \in Nat /\ replay.cursor <= Len(ReplayFeed)
  BY <1>1, WorkerAssumption
<1>4. /\ calls \in [ReplayPolls -> Poll] /\ calls[p].phase = "polling" /\ calls[p].start = replay.cursor
      /\ calls[p].next = 0 /\ \A u \in ReplayPolls : u # p => calls[u] = before[u]
  <2> DEFINE new == [NewPoll EXCEPT !.phase = "polling", !.start = replay.cursor]
  <2> PICK c : c = NewPoll
    OBVIOUS
  <2>1. c \in Poll /\ c.next = 0
    BY DEF NewPoll, Poll
  <2>2. new \in Poll /\ new.phase = "polling" /\ new.start = replay.cursor /\ new.next = 0
    BY <1>3, <2>1 DEF Poll
  <2>3. calls = [before EXCEPT ![p] = new] /\ before \in [ReplayPolls -> Poll]
    BY <1>1, <1>2
  <2> HIDE DEF new
  <2> QED
    BY <2>2, <2>3
<1>5. \A j \in DOMAIN q : q[j].poll # p /\ q[j].poll \in ReplayPolls
  <2>1. PollHolds(p, before[p], q, documents)
    BY <1>1
  <2>2. \A j \in DOMAIN q : q[j] \in Run
    BY <1>1, ElementsOf
  <2> QED
    BY <1>2, <2>1, <2>2, RunTyped DEF PollHolds
<1>6. \A u \in ReplayPolls : PollHolds(u, calls[u], q, documents)
  <2>1. PollHolds(p, calls[p], q, documents)
    <3>1. \A k \in 1..replay.cursor : Folded(ReplayFeed[k], documents)
      BY <1>1 DEF ReplayHolds
    <3> QED
      BY <1>3, <1>4, <1>5, <3>1 DEF PollHolds
  <2> QED
    BY <1>1, <1>4, <2>1
<1>7. straight' => StraightHolds(calls, q, replay, documents)
  <2> SUFFICES ASSUME straight' PROVE StraightHolds(calls, q, replay, documents)
    OBVIOUS
  <2>1. StraightHolds(before, q, replay, documents) /\ \A u \in ReplayPolls : before[u].phase \in {"new", "done"}
    BY <1>1, <1>2
  <2>2. \A j \in DOMAIN q : calls[q[j].poll] = before[q[j].poll]
    BY <1>4, <1>5
  <2>3. \A u, w \in ReplayPolls : u # w => calls[u].phase \in {"new", "done"} \/ calls[w].phase \in {"new", "done"}
    BY <1>4, <2>1
  <2> QED
    BY <2>1, <2>2, <2>3 DEF StraightHolds
<1>8. straight' \in BOOLEAN
  BY <1>2
<1>9. WorkerTypeOK'
  BY <1>2, <1>4, <1>8 DEF WorkerIInv, WorkerTypeOK
<1> QED
  BY <1>2, <1>6, <1>7, <1>9 DEF WorkerIInv

LEMMA PollSettlesKeeps ==
  ASSUME WorkerIInv, NEW p \in ReplayPolls, PollSettles(p)
  PROVE  WorkerIInv'
<1>1. /\ runs \in Seq(Run) /\ poll \in [ReplayPolls -> Poll]
      /\ replay \in [cursor : 0..Len(ReplayFeed), seen : SUBSET ReplayEvents]
      /\ \A j \in DOMAIN runs : RunHolds(runs[j], documents)
      /\ \A u \in ReplayPolls : PollHolds(u, poll[u], runs, documents)
      /\ ReplayHolds(replay, documents)
      /\ straight => StraightHolds(poll, runs, replay, documents)
  BY DEF WorkerIInv, WorkerTypeOK
<1> PICK calls : calls = poll'
  OBVIOUS
<1> PICK before : before = poll
  OBVIOUS
<1> PICK q : q = runs
  OBVIOUS
<1> PICK rep : rep = replay'
  OBVIOUS
<1> PICK old : old = replay
  OBVIOUS
<1> DEFINE mine == {i \in DOMAIN q : q[i].poll = p}
           acked == UNION {ToSet(q[i].events) : i \in {j \in mine : q[j].decision = "ack"}}
<1>2. /\ before[p].phase = "pushing"
      /\ \A i \in mine : q[i].phase = "settled" /\ q[i].decision # "thrown"
      /\ rep.cursor = IF \A i \in mine : q[i].decision = "ack" THEN before[p].next ELSE old.cursor
      /\ rep.seen = old.seen \cup acked
      /\ rep = [cursor |-> rep.cursor, seen |-> rep.seen]
      /\ calls = [before EXCEPT ![p].phase = "done"]
      /\ UNCHANGED <<documents, stateCache, runs, foreign, workerFaults, stale, straight>>
  BY DEF PollSettles, RunsOf, CursorAfter, Acked
<1>3. /\ calls \in [ReplayPolls -> Poll] /\ calls[p].phase = "done" /\ calls[p].start = before[p].start
      /\ calls[p].next = before[p].next /\ \A u \in ReplayPolls : u # p => calls[u] = before[u]
  <2> DEFINE new == [before[p] EXCEPT !.phase = "done"]
  <2>1. before \in [ReplayPolls -> Poll] /\ before[p] \in Poll
    BY <1>1
  <2>2. new \in Poll /\ new.phase = "done" /\ new.start = before[p].start /\ new.next = before[p].next
    <3> PICK c : c = before[p]
      OBVIOUS
    <3> QED
      BY <2>1 DEF Poll
  <2>3. calls = [before EXCEPT ![p] = new]
    BY <1>2
  <2> HIDE DEF new
  <2> QED
    BY <2>1, <2>2, <2>3
<1>4. /\ before[p].start \in Nat /\ before[p].next \in Nat /\ before[p].next <= Len(ReplayFeed)
      /\ before[p].start <= Len(ReplayFeed) /\ Len(ReplayFeed) \in Nat
  <2>1. before[p] \in Poll /\ PollHolds(p, before[p], q, documents)
    BY <1>1
  <2> QED
    BY <2>1, WorkerAssumption DEF Poll, PollHolds
<1>5. \A j \in DOMAIN q : q[j] \in Run /\ RunHolds(q[j], documents)
  BY <1>1, ElementsOf
<1>6. \A e \in acked : e \in ReplayEvents /\ Folded(e, documents)
  BY <1>5, RunTyped DEF RunHolds
<1> HIDE DEF acked
<1>7. rep \in [cursor : 0..Len(ReplayFeed), seen : SUBSET ReplayEvents]
  <2>1. rep.cursor \in 0..Len(ReplayFeed)
    BY <1>1, <1>2, <1>4
  <2>2. rep.seen \in SUBSET ReplayEvents
    BY <1>1, <1>2, <1>6
  <2> QED
    BY <1>2, <2>1, <2>2
<1>8. ReplayHolds(rep, documents)
  <2>1. ReplayHolds(old, documents)
    BY <1>1
  <2>2. \A e \in rep.seen : Folded(e, documents)
    BY <1>2, <1>6, <2>1 DEF ReplayHolds
  <2>3. \A k \in 1..rep.cursor : Folded(ReplayFeed[k], documents)
    <3>1. CASE \A i \in mine : q[i].decision = "ack"
      <4>1. PollHolds(p, before[p], q, documents)
        BY <1>1
      <4>2. \A k \in 1..before[p].start : Folded(ReplayFeed[k], documents)
        BY <1>2, <4>1 DEF PollHolds
      <4>3. \A k \in (before[p].start + 1)..before[p].next :
              \/ Folded(ReplayFeed[k], documents)
              \/ \E i \in DOMAIN q : q[i].poll = p /\ ReplayFeed[k] \in ToSet(q[i].events)
        BY <1>2, <4>1 DEF PollHolds
      <4>4. \A k \in (before[p].start + 1)..before[p].next : Folded(ReplayFeed[k], documents)
        BY <1>5, <3>1, <4>3 DEF RunHolds
      <4>5. \A k \in 1..before[p].next : k \in 1..before[p].start \/ k \in (before[p].start + 1)..before[p].next
        BY <1>4
      <4> QED
        BY <1>2, <3>1, <4>2, <4>4, <4>5
    <3>2. CASE ~ \A i \in mine : q[i].decision = "ack"
      BY <1>2, <2>1, <3>2 DEF ReplayHolds
    <3> QED
      BY <3>1, <3>2
  <2> QED
    BY <2>2, <2>3 DEF ReplayHolds
<1>9. \A u \in ReplayPolls : PollHolds(u, calls[u], q, documents)
  <2>1. PollHolds(p, calls[p], q, documents)
    BY <1>3, <1>4 DEF PollHolds
  <2> QED
    BY <1>1, <1>3, <2>1
<1>10. straight => StraightHolds(calls, q, rep, documents)
  <2> SUFFICES ASSUME straight PROVE StraightHolds(calls, q, rep, documents)
    OBVIOUS
  <2>1. StraightHolds(before, q, old, documents)
    BY <1>1
  <2>2. \A u, w \in ReplayPolls : u # w => calls[u].phase \in {"new", "done"} \/ calls[w].phase \in {"new", "done"}
    BY <1>3, <2>1 DEF StraightHolds
  <2>3. \A j \in DOMAIN q : q[j].poll \in ReplayPolls
    BY <1>5, RunTyped
  <2>4. ASSUME NEW j \in DOMAIN q
        PROVE  /\ q[j].decision # "thrown"
               /\ q[j].phase # "settled" => /\ calls[q[j].poll].phase = "pushing"
                                            /\ \A e \in ToSet(q[j].events), t \in ReplayTargets :
                                                 e \notin ToSet(documents[t])
               /\ q[j].decision = "ack" /\ calls[q[j].poll].phase = "done" => ToSet(q[j].events) \subseteq rep.seen
    <3>1. CASE q[j].poll = p
      <4>1. q[j].decision = "ack" => ToSet(q[j].events) \subseteq acked
        BY <3>1 DEF acked
      <4> QED
        BY <1>2, <3>1, <4>1
    <3>2. CASE q[j].poll # p
      <4>1. calls[q[j].poll] = before[q[j].poll]
        BY <1>3, <2>3, <3>2
      <4> QED
        <5>1. /\ q[j].decision # "thrown"
              /\ q[j].phase # "settled" => /\ before[q[j].poll].phase = "pushing"
                                           /\ \A e \in ToSet(q[j].events), t \in ReplayTargets :
                                                e \notin ToSet(documents[t])
              /\ q[j].decision = "ack" /\ before[q[j].poll].phase = "done" => ToSet(q[j].events) \subseteq old.seen
          BY <2>1 DEF StraightHolds
        <5>2. old.seen \subseteq rep.seen
          BY <1>2
        <5> QED
          BY <4>1, <5>1, <5>2
    <3> QED
      BY <3>1, <3>2
  <2> QED
    BY <2>1, <2>2, <2>4 DEF StraightHolds
<1>11. WorkerTypeOK'
  BY <1>2, <1>3, <1>7 DEF WorkerIInv, WorkerTypeOK
<1> QED
  BY <1>2, <1>8, <1>9, <1>10, <1>11 DEF WorkerIInv

LEMMA PollRejectsKeeps ==
  ASSUME WorkerIInv, NEW p \in ReplayPolls, PollRejects(p)
  PROVE  WorkerIInv'
<1>1. /\ runs \in Seq(Run) /\ poll \in [ReplayPolls -> Poll]
      /\ \A u \in ReplayPolls : PollHolds(u, poll[u], runs, documents)
      /\ straight => StraightHolds(poll, runs, replay, documents)
  BY DEF WorkerIInv, WorkerTypeOK
<1> PICK calls : calls = poll'
  OBVIOUS
<1> PICK before : before = poll
  OBVIOUS
<1>2. /\ before[p].phase = "pushing" /\ \E i \in DOMAIN runs : runs[i].decision = "thrown"
      /\ calls = [before EXCEPT ![p].phase = "done"]
      /\ UNCHANGED <<documents, stateCache, runs, replay, foreign, workerFaults, stale, straight>>
  BY DEF PollRejects, RunsOf
<1>3. /\ calls \in [ReplayPolls -> Poll] /\ calls[p].phase = "done" /\ calls[p].start = before[p].start
      /\ calls[p].next = before[p].next /\ \A u \in ReplayPolls : u # p => calls[u] = before[u]
  <2> DEFINE new == [before[p] EXCEPT !.phase = "done"]
  <2>1. before \in [ReplayPolls -> Poll] /\ before[p] \in Poll
    BY <1>1
  <2>2. new \in Poll /\ new.phase = "done" /\ new.start = before[p].start /\ new.next = before[p].next
    <3> PICK c : c = before[p]
      OBVIOUS
    <3> QED
      BY <2>1 DEF Poll
  <2>3. calls = [before EXCEPT ![p] = new]
    BY <1>2
  <2> HIDE DEF new
  <2> QED
    BY <2>1, <2>2, <2>3
<1>4. \A u \in ReplayPolls : PollHolds(u, calls[u], runs, documents)
  <2>1. PollHolds(p, calls[p], runs, documents)
    <3>1. PollHolds(p, before[p], runs, documents)
      BY <1>1
    <3> QED
      BY <1>3, <3>1 DEF PollHolds
  <2> QED
    BY <1>1, <1>3, <2>1
<1>5. ~straight
  BY <1>1, <1>2 DEF StraightHolds
<1>6. WorkerTypeOK'
  BY <1>2, <1>3 DEF WorkerIInv, WorkerTypeOK
<1> QED
  BY <1>2, <1>4, <1>5, <1>6 DEF WorkerIInv

LEMMA PollReturnsKeeps ==
  ASSUME WorkerIInv, NEW p \in ReplayPolls, NEW count \in 0..ReplayBatch, PollReturns(p, count)
  PROVE  WorkerIInv'
<1>1. /\ runs \in Seq(Run) /\ poll \in [ReplayPolls -> Poll]
      /\ replay \in [cursor : 0..Len(ReplayFeed), seen : SUBSET ReplayEvents]
      /\ \A j \in DOMAIN runs : RunHolds(runs[j], documents)
      /\ RunsApart(runs) /\ CacheHolds(stateCache, runs, documents, stale)
      /\ \A u \in ReplayPolls : PollHolds(u, poll[u], runs, documents)
      /\ ReplayHolds(replay, documents)
      /\ straight => StraightHolds(poll, runs, replay, documents)
  BY DEF WorkerIInv, WorkerTypeOK
<1> PICK calls : calls = poll'
  OBVIOUS
<1> PICK before : before = poll
  OBVIOUS
<1> PICK s : s = runs'
  OBVIOUS
<1> PICK q : q = runs
  OBVIOUS
<1> DEFINE start == before[p].start
           page == SubSeq(ReplayFeed, start + 1, start + count)
           fresh == Fresh(page)
           added == RunsFor(p, fresh)
<1>2. /\ before[p].phase = "polling" /\ start + count <= Len(ReplayFeed)
      /\ calls = [before EXCEPT ![p] = [@ EXCEPT !.phase = "pushing", !.next = start + count, !.events = fresh]]
      /\ s = q \o added
      /\ UNCHANGED <<documents, stateCache, replay, foreign, workerFaults, stale, straight>>
  BY DEF PollReturns
<1> HIDE DEF added
<1>3. before[p] \in Poll /\ start \in Nat /\ count \in Nat /\ Len(ReplayFeed) \in Nat
  BY <1>1, WorkerAssumption DEF Poll
<1>4. /\ page \in Seq(ReplayEvents) /\ Len(page) = count
      /\ \A k \in (start + 1)..(start + count) : ReplayFeed[k] \in ToSet(page)
  <2> PICK a : a = start
    OBVIOUS
  <2> PICK feed : feed = ReplayFeed
    OBVIOUS
  <2> DEFINE cut == SubSeq(feed, a + 1, a + count)
  <2>1. /\ feed \in Seq(Nat \ {0}) /\ a \in Nat /\ a + count <= Len(feed) /\ Len(feed) \in Nat
        /\ \A k \in 1..Len(feed) : feed[k] \in ReplayEvents
    BY <1>2, <1>3, WorkerAssumption, TargetsTyped
  <2>0. /\ a \in Nat /\ count \in Nat /\ Len(feed) \in Nat /\ a + count <= Len(feed)
    BY <1>3, <2>1
  <2>3. \A k \in (a + 1)..(a + count) : k \in 1..Len(feed)
    BY <2>0
  <2>4. /\ a + 1 \in Int /\ a + count \in Int /\ (a + count) - (a + 1) + 1 = count
        /\ (IF a + 1 <= a + count THEN count ELSE 0) = count
        /\ \A k \in 1..count : (a + 1) + k - 1 = a + k
    <3>1. a + 1 \in Int /\ a + count \in Int
      BY <2>0
    <3>2. (a + count) - (a + 1) + 1 = count
      BY <2>0
    <3>3. (IF a + 1 <= a + count THEN count ELSE 0) = count
      BY <2>0
    <3>4. \A k \in 1..count : (a + 1) + k - 1 = a + k
      BY <2>0
    <3> QED
      BY <3>1, <3>2, <3>3, <3>4
  <2>5. \A k \in (a + 1)..(a + count) : feed[k] \in ReplayEvents
    BY <2>1, <2>3
  <2>7. /\ cut \in Seq(ReplayEvents)
        /\ Len(cut) = IF a + 1 <= a + count THEN (a + count) - (a + 1) + 1 ELSE 0
        /\ \A k \in 1..((a + count) - (a + 1) + 1) : cut[k] = feed[(a + 1) + k - 1]
    BY <2>4, <2>5, SubSeqProperties
  <2> HIDE DEF cut
  <2>2. /\ Len(cut) = count /\ DOMAIN cut = 1..count
        /\ \A k \in 1..count : cut[k] = feed[a + k]
    <3>1. Len(cut) = count
      BY <2>0, <2>7
    <3>2. DOMAIN cut = 1..count
      BY <2>7, <3>1
    <3>3. \A k \in 1..count : cut[k] = feed[a + k]
      <4> TAKE k \in 1..count
      <4>1. k \in 1..((a + count) - (a + 1) + 1)
        BY <2>4
      <4>2. cut[k] = feed[(a + 1) + k - 1]
        BY <2>7, <4>1
      <4> QED
        BY <2>4, <4>2
    <3> QED
      BY <3>1, <3>2, <3>3
  <2>6. ASSUME NEW k \in (a + 1)..(a + count) PROVE feed[k] \in ToSet(cut)
    <3>1. k - a \in 1..count /\ a + (k - a) = k
      BY <2>0
    <3> QED
      BY <2>2, <3>1 DEF ToSet
  <2> QED
    BY <2>2, <2>6, <2>7 DEF cut
<1> HIDE DEF page
<1>5. /\ fresh \in Seq(ReplayEvents) /\ IsInjective(fresh)
      /\ \A e \in ToSet(page) : e \in replay.seen \/ e \in ToSet(fresh)
      /\ \A e \in ToSet(fresh) : e \notin replay.seen
  BY <1>4, FreshIs
<1> HIDE DEF fresh
<1>6. /\ added \in Seq(Run)
      /\ \A i \in DOMAIN added : Queued(added[i], p) /\ ToSet(added[i].events) \subseteq ToSet(fresh)
      /\ \A i, j \in DOMAIN added : i # j => ToSet(added[i].events) \cap ToSet(added[j].events) = {}
      /\ \A e \in ToSet(fresh) : \E i \in DOMAIN added : e \in ToSet(added[i].events)
  BY <1>5, RunsForIs DEF added
<1> DEFINE m == Len(q)
           n == Len(added)
<1>7. /\ m \in Nat /\ n \in Nat /\ q \in Seq(Run) /\ DOMAIN q = 1..m /\ DOMAIN added = 1..n
      /\ s \in Seq(Run) /\ DOMAIN s = 1..(m + n) /\ \A i \in 1..m : s[i] = q[i]
      /\ \A i \in 1..n : s[m + i] = added[i]
  BY <1>1, <1>2, <1>6
<1> HIDE DEF m, n
<1>8. /\ \A i \in 1..(m + n) : i \in 1..m \/ (i - m \in 1..n /\ i = m + (i - m))
      /\ \A i \in 1..m : i \in 1..(m + n)
      /\ \A i \in 1..n : m + i \in 1..(m + n) /\ m + i \notin 1..m
  BY <1>7
\* A run is an old one, of another poll, or one of those added.
<1>9. \A i \in DOMAIN s : \/ i \in 1..m /\ s[i] = q[i] /\ q[i].poll # p
                          \/ i \notin 1..m /\ \E k \in 1..n : i = m + k /\ s[i] = added[k]
  <2>1. PollHolds(p, before[p], q, documents)
    BY <1>1
  <2>2. \A i \in 1..m : q[i].poll # p
    BY <1>2, <1>7, <2>1 DEF PollHolds
  <2>3. ASSUME NEW i \in 1..(m + n), i \notin 1..m PROVE \E k \in 1..n : i = m + k /\ s[i] = added[k]
    <3>1. PICK k \in 1..n : i = m + k
      BY <1>8, <2>3
    <3> QED
      BY <1>7, <3>1
  <2> QED
    BY <1>7, <2>2, <2>3
<1>10. \A k \in 1..n : /\ added[k].poll = p /\ added[k].phase = "queued" /\ added[k].decision = "none"
                       /\ IsInjective(added[k].events) /\ ToSet(added[k].events) \subseteq ToSet(fresh)
  BY <1>6, <1>7 DEF Queued
<1>11. /\ calls \in [ReplayPolls -> Poll] /\ calls[p].phase = "pushing" /\ calls[p].start = start
       /\ calls[p].next = start + count /\ \A u \in ReplayPolls : u # p => calls[u] = before[u]
  <2> DEFINE new == [before[p] EXCEPT !.phase = "pushing", !.next = start + count, !.events = fresh]
  <2>1. before \in [ReplayPolls -> Poll]
    BY <1>1
  <2>2. new \in Poll /\ new.phase = "pushing" /\ new.start = start /\ new.next = start + count
    <3> PICK c : c = before[p]
      OBVIOUS
    <3>1. start + count \in Nat
      BY <1>3
    <3> QED
      BY <1>3, <1>5, <3>1 DEF Poll
  <2>3. calls = [before EXCEPT ![p] = new]
    BY <1>2
  <2> HIDE DEF new
  <2> QED
    BY <2>1, <2>2, <2>3
<1>12. \A i \in DOMAIN s : RunHolds(s[i], documents)
  <2>1. \A k \in 1..n : RunHolds(added[k], documents)
    BY <1>10 DEF RunHolds
  <2>2. \A i \in 1..m : RunHolds(q[i], documents)
    BY <1>1, <1>7
  <2> QED
    BY <1>9, <2>1, <2>2
<1>13. RunsApart(s)
  <2> SUFFICES ASSUME NEW i \in DOMAIN s, NEW j \in DOMAIN s
               PROVE  /\ i < j /\ s[i].phase # "settled" /\ s[j].phase = "storing" => ~ShareLane(s[i], s[j])
                      /\ i # j /\ s[i].poll = s[j].poll => ToSet(s[i].events) \cap ToSet(s[j].events) = {}
    BY DEF RunsApart
  <2>0. RunsApart(q)
    BY <1>1
  <2>1. CASE i \in 1..m /\ j \in 1..m
    BY ZenonT(60), <1>7, <2>0, <2>1 DEF RunsApart
  <2>2. CASE i \in 1..m /\ j \notin 1..m
    BY <1>9, <1>10, <2>2
  <2>3. CASE i \notin 1..m /\ j \in 1..m
    <3>1. ~ (i < j)
      BY <1>7, <2>3
    <3>2. s[i].poll # s[j].poll
      BY <1>9, <1>10, <2>3
    <3> QED
      BY <3>1, <3>2
  <2>4. CASE i \notin 1..m /\ j \notin 1..m
    <3>1. PICK k \in 1..n : i = m + k /\ s[i] = added[k]
      BY <1>9, <2>4
    <3>2. PICK l \in 1..n : j = m + l /\ s[j] = added[l]
      BY <1>9, <2>4
    <3>3. i # j => k # l
      BY <3>1, <3>2
    <3>4. i # j => ToSet(s[i].events) \cap ToSet(s[j].events) = {}
      <4>1. k # l => ToSet(added[k].events) \cap ToSet(added[l].events) = {}
        BY <1>6, <1>7
      <4> QED
        BY <3>1, <3>2, <3>3, <4>1
    <3>5. s[j].phase = "queued"
      BY <1>10, <3>2
    <3> QED
      BY <3>4, <3>5
  <2> QED
    BY <2>1, <2>2, <2>3, <2>4
<1>14. \A u \in ReplayPolls : PollHolds(u, calls[u], s, documents)
  <2> TAKE u \in ReplayPolls
  <2>0. PollHolds(u, before[u], q, documents)
    BY <1>1
  <2>1. CASE u # p
    <3>1. calls[u] = before[u]
      BY <1>11, <2>1
    <3>2. \A i \in DOMAIN s : s[i].poll = u => i \in DOMAIN q /\ q[i].poll = u
      BY SMTT(60), <1>7, <1>9, <1>10, <2>1
    <3>3. \A i \in DOMAIN q : i \in DOMAIN s /\ s[i] = q[i]
      BY <1>7, <1>8
    <3> QED
      BY <2>0, <3>1, <3>2, <3>3 DEF PollHolds
  <2>2. CASE u = p
    <3>1. calls[p].start <= Len(ReplayFeed) /\ calls[p].next <= Len(ReplayFeed)
      BY <1>2, <1>3, <1>11
    <3>2. \A k \in 1..calls[p].start : Folded(ReplayFeed[k], documents)
      BY <1>2, <1>11, <2>0, <2>2 DEF PollHolds
    <3>3. ASSUME NEW k \in (calls[p].start + 1)..calls[p].next
          PROVE  \/ Folded(ReplayFeed[k], documents)
                 \/ \E i \in DOMAIN s : s[i].poll = p /\ ReplayFeed[k] \in ToSet(s[i].events)
      <4>1. ReplayFeed[k] \in ToSet(page)
        BY <1>4, <1>11, <3>3
      <4>2. CASE ReplayFeed[k] \in replay.seen
        BY <1>1, <4>2 DEF ReplayHolds
      <4>3. CASE ReplayFeed[k] \in ToSet(fresh)
        <5>1. PICK i \in 1..n : ReplayFeed[k] \in ToSet(added[i].events)
          BY <1>6, <1>7, <4>3
        <5>2. m + i \in DOMAIN s /\ s[m + i] = added[i]
          BY <1>7, <1>8
        <5> QED
          BY <1>10, <5>1, <5>2
      <4> QED
        BY <1>5, <4>1, <4>2, <4>3
    <3> QED
      BY <1>11, <2>2, <3>1, <3>2, <3>3 DEF PollHolds
  <2> QED
    BY <2>1, <2>2
<1>15. CacheHolds(stateCache, s, documents, stale)
  <2>1. \A j \in DOMAIN s : s[j].phase = "storing" => j \in DOMAIN q /\ s[j] = q[j]
    BY <1>7, <1>9, <1>10
  <2>2. \A j \in DOMAIN q : j \in DOMAIN s /\ s[j] = q[j]
    BY <1>7, <1>8
  <2>3. CacheHolds(stateCache, q, documents, stale)
    BY <1>1
  <2> QED
    BY ZenonT(60), <2>1, <2>2, <2>3 DEF CacheHolds, EntryHolds
<1>16. straight => StraightHolds(calls, s, replay, documents)
  <2> SUFFICES ASSUME straight PROVE StraightHolds(calls, s, replay, documents)
    OBVIOUS
  <2>1. /\ \A u, w \in ReplayPolls : u # w => before[u].phase \in {"new", "done"} \/ before[w].phase \in {"new", "done"}
        /\ \A i \in DOMAIN q :
             /\ q[i].decision # "thrown"
             /\ q[i].phase # "settled" => /\ before[q[i].poll].phase = "pushing"
                                          /\ \A e \in ToSet(q[i].events), t \in ReplayTargets : e \notin ToSet(documents[t])
             /\ q[i].decision = "ack" /\ before[q[i].poll].phase = "done" => ToSet(q[i].events) \subseteq replay.seen
        /\ \A t \in ReplayTargets :
             /\ OnceIn(documents[t])
             /\ \A e \in ToSet(documents[t]) : e # 0 => \E i \in DOMAIN q : q[i].decision = "ack" /\ e \in ToSet(q[i].events)
    BY <1>1 DEF StraightHolds
  <2>2. \A u, w \in ReplayPolls : u # w => calls[u].phase \in {"new", "done"} \/ calls[w].phase \in {"new", "done"}
    BY <1>2, <1>11, <2>1
  <2>3. \A i \in DOMAIN q : q[i].poll \in ReplayPolls
    <3>1. \A i \in DOMAIN q : q[i] \in Run
      BY <1>7, ElementsOf
    <3> QED
      BY <3>1, RunTyped
  <2>4. ASSUME NEW e \in ToSet(fresh), NEW t \in ReplayTargets PROVE e \notin ToSet(documents[t])
    <3> SUFFICES ASSUME e \in ToSet(documents[t]) PROVE FALSE
      OBVIOUS
    <3>1. e # 0
      <4>1. ToSet(fresh) \in SUBSET ReplayEvents
        BY <1>5, ElementsOf
      <4> QED
        BY <4>1, EventsAreNaturals
    <3>2. PICK i \in DOMAIN q : q[i].decision = "ack" /\ e \in ToSet(q[i].events)
      BY <2>1, <3>1
    <3>3. q[i].poll # p /\ q[i].poll \in ReplayPolls
      <4>1. i \in DOMAIN s /\ i \in 1..m
        BY <1>7, <1>8
      <4> QED
        BY <1>9, <2>3, <4>1
    <3>4. before[q[i].poll].phase \in {"new", "done"}
      BY <1>2, <2>1, <3>3
    <3>5. before[q[i].poll].phase \in {"pushing", "done"}
      <4>1. PollHolds(q[i].poll, before[q[i].poll], q, documents)
        BY <1>1, <3>3
      <4> QED
        BY <4>1 DEF PollHolds
    <3>6. e \in replay.seen
      BY <2>1, <3>2, <3>4, <3>5
    <3> QED
      BY <1>5, <3>6
  <2>5. ASSUME NEW i \in DOMAIN s
        PROVE  /\ s[i].decision # "thrown"
               /\ s[i].phase # "settled" => /\ calls[s[i].poll].phase = "pushing"
                                            /\ \A e \in ToSet(s[i].events), t \in ReplayTargets :
                                                 e \notin ToSet(documents[t])
               /\ s[i].decision = "ack" /\ calls[s[i].poll].phase = "done" => ToSet(s[i].events) \subseteq replay.seen
    <3>1. CASE i \in 1..m
      <4>1. s[i] = q[i] /\ i \in DOMAIN q /\ q[i].poll # p
        BY <1>7, <1>9, <3>1
      <4>2. calls[q[i].poll] = before[q[i].poll]
        BY <1>11, <2>3, <4>1
      <4> QED
        BY <2>1, <4>1, <4>2
    <3>2. CASE i \notin 1..m
      <4>1. PICK k \in 1..n : s[i] = added[k]
        BY <1>9, <3>2
      <4> QED
        BY <1>10, <1>11, <2>4, <4>1
    <3> QED
      BY <3>1, <3>2
  <2>6. \A t \in ReplayTargets :
          /\ OnceIn(documents[t])
          /\ \A e \in ToSet(documents[t]) : e # 0 => \E i \in DOMAIN s : s[i].decision = "ack" /\ e \in ToSet(s[i].events)
    <3>1. \A i \in DOMAIN q : i \in DOMAIN s /\ s[i] = q[i]
      BY <1>7, <1>8
    <3> QED
      BY <2>1, <3>1
  <2> QED
    BY <2>2, <2>5, <2>6 DEF StraightHolds
<1>17. WorkerTypeOK'
  BY <1>2, <1>7, <1>11 DEF WorkerIInv, WorkerTypeOK
<1> QED
  BY <1>2, <1>12, <1>13, <1>14, <1>15, <1>16, <1>17 DEF WorkerIInv

LEMMA WorkerInitHolds == WorkerInit => WorkerIInv
<1> SUFFICES ASSUME WorkerInit PROVE WorkerIInv
  OBVIOUS
<1>1. Len(ReplayFeed) \in Nat
  BY WorkerAssumption
<1>2. /\ documents = [t \in ReplayTargets |-> <<>>] /\ stateCache = <<>> /\ runs = <<>>
      /\ poll = [p \in ReplayPolls |-> NewPoll] /\ replay = [cursor |-> 0, seen |-> {}]
      /\ foreign = 0 /\ workerFaults = 0 /\ stale = {} /\ straight = TRUE
  BY DEF WorkerInit
<1>3. NewPoll \in Poll /\ NewPoll.phase = "new" /\ NewPoll.start = 0 /\ NewPoll.next = 0
  BY DEF NewPoll, Poll
<1>4. documents \in Contents /\ poll \in [ReplayPolls -> Poll]
  BY <1>2, <1>3 DEF Contents
<1>5. replay \in [cursor : 0..Len(ReplayFeed), seen : SUBSET ReplayEvents]
  BY <1>1, <1>2
<1>6. WorkerTypeOK
  BY <1>2, <1>4, <1>5 DEF WorkerTypeOK
<1>7. DOMAIN runs = {} /\ ToSet(stateCache) = {}
  BY <1>2 DEF ToSet
<1>8. \A p \in ReplayPolls : PollHolds(p, poll[p], runs, documents)
  BY <1>1, <1>2, <1>3, <1>7 DEF PollHolds
<1>9. ReplayHolds(replay, documents)
  BY <1>2 DEF ReplayHolds
<1>10. StraightHolds(poll, runs, replay, documents)
  <2>1. \A t \in ReplayTargets : OnceIn(documents[t]) /\ ToSet(documents[t]) = {}
    BY <1>2 DEF OnceIn, ToSet
  <2> QED
    BY <1>2, <1>3, <1>7, <2>1 DEF StraightHolds
<1> QED
  BY <1>6, <1>7, <1>8, <1>9, <1>10 DEF WorkerIInv, RunsApart, CacheHolds

LEMMA WorkerStepKeeps == WorkerIInv /\ [WorkerNext]_workerVars => WorkerIInv'
<1> SUFFICES ASSUME WorkerIInv, [WorkerNext]_workerVars PROVE WorkerIInv'
  OBVIOUS
<1>1. CASE CacheExpires
  BY <1>1, CacheExpiresKeeps
<1>2. ASSUME NEW t \in ReplayTargets, ForeignWrite(t) PROVE WorkerIInv'
  BY <1>2, ForeignWriteKeeps
<1>3. ASSUME NEW i \in DOMAIN runs, LoadStates(i) PROVE WorkerIInv'
  BY <1>3, LoadStatesKeeps
<1>4. ASSUME NEW i \in DOMAIN runs, Committed(i) PROVE WorkerIInv'
  BY <1>4, CommittedKeeps
<1>5. ASSUME NEW i \in DOMAIN runs, RetryableFailure(i) \/ TerminalFailure(i) \/ RunThrows(i) PROVE WorkerIInv'
  BY <1>5, RunFailsKeeps
<1>6. ASSUME NEW p \in ReplayPolls, PollBegins(p) PROVE WorkerIInv'
  BY <1>6, PollBeginsKeeps
<1>7. ASSUME NEW p \in ReplayPolls, PollSettles(p) PROVE WorkerIInv'
  BY <1>7, PollSettlesKeeps
<1>8. ASSUME NEW p \in ReplayPolls, PollRejects(p) PROVE WorkerIInv'
  BY <1>8, PollRejectsKeeps
<1>9. ASSUME NEW p \in ReplayPolls, NEW count \in 0..ReplayBatch, PollReturns(p, count) PROVE WorkerIInv'
  BY <1>9, PollReturnsKeeps
<1>10. CASE UNCHANGED workerVars
  BY <1>10 DEF workerVars, WorkerIInv, WorkerTypeOK
<1> QED
  BY <1>1, <1>2, <1>3, <1>4, <1>5, <1>6, <1>7, <1>8, <1>9, <1>10 DEF WorkerNext

LEMMA WorkerHolds == WorkerIInv => CursorAndCacheAreBacked
<1> SUFFICES ASSUME WorkerIInv PROVE CursorAndCacheAreBacked
  OBVIOUS
<1>1. /\ replay \in [cursor : 0..Len(ReplayFeed), seen : SUBSET ReplayEvents]
      /\ stateCache \in Seq(CacheEntry) /\ ReplayHolds(replay, documents)
      /\ CacheHolds(stateCache, runs, documents, stale)
      /\ straight => StraightHolds(poll, runs, replay, documents)
  BY DEF WorkerIInv, WorkerTypeOK
<1>2. ASSUME NEW e \in ToSet(SubSeq(ReplayFeed, 1, replay.cursor)) PROVE Folded(e, documents)
  <2> PICK c : c = replay.cursor
    OBVIOUS
  <2> PICK feed : feed = ReplayFeed
    OBVIOUS
  <2>1. feed \in Seq(Nat \ {0}) /\ Len(feed) \in Nat /\ c \in 0..Len(feed)
    BY <1>1, WorkerAssumption
  <2>2. /\ DOMAIN SubSeq(feed, 1, c) = 1..c
        /\ \A k \in 1..c : SubSeq(feed, 1, c)[k] = feed[k]
    BY <2>1
  <2>3. PICK k \in 1..c : e = feed[k]
    BY <1>2, <2>2 DEF ToSet
  <2> QED
    BY <1>1, <2>3 DEF ReplayHolds
<1>3. straight => \A t \in ReplayTargets : \A i, j \in DOMAIN documents[t] :
        documents[t][i] = documents[t][j] /\ i # j => documents[t][i] = 0
  BY <1>1 DEF StraightHolds, OnceIn
<1>4. ReplayCursorIsBacked
  BY <1>2, <1>3 DEF ReplayCursorIsBacked, Folded
<1>5. CacheFollowsTheStore
  <2>1. \A i \in DOMAIN stateCache : stateCache[i] \in ToSet(stateCache)
    BY DEF ToSet
  <2> QED
    BY <1>1, <2>1 DEF CacheFollowsTheStore, CacheHolds, EntryHolds
<1> QED
  BY <1>4, <1>5 DEF CursorAndCacheAreBacked

(* CursorAndCacheAreBacked, for every feed, every assignment of targets and  *)
(* batch modes and every capacity of the cache: the replay's cursor passes   *)
(* only what is folded into all of its targets, no event is folded twice     *)
(* while polls take turns, and the cache outside of a run is the store.      *)
THEOREM CursorAndCacheFollow == WorkerSpec => []CursorAndCacheAreBacked
<1>1. WorkerInit => WorkerIInv
  BY WorkerInitHolds
<1>2. WorkerIInv /\ [WorkerNext]_workerVars => WorkerIInv'
  BY WorkerStepKeeps
<1>3. WorkerIInv => CursorAndCacheAreBacked
  BY WorkerHolds
<1> QED
  BY <1>1, <1>2, <1>3, PTL DEF WorkerSpec

-----------------------------------------------------------------------------
(* Sequences: what is in one, and what one more element changes.           *)

LEMMA SeqFacts ==
  ASSUME NEW S, NEW q \in Seq(S)
  PROVE  /\ DOMAIN q = 1..Len(q) /\ Len(q) \in Nat
         /\ \A i \in 1..Len(q) : q[i] \in S /\ q[i] \in ToSet(q)
         /\ \A x \in ToSet(q) : x \in S /\ \E i \in 1..Len(q) : q[i] = x
         /\ IsInjective(q) <=> \A i, j \in 1..Len(q) : q[i] = q[j] => i = j
         /\ q # <<>> => 1 \in 1..Len(q)
<1>1. DOMAIN q = 1..Len(q) /\ Len(q) \in Nat /\ \A i \in 1..Len(q) : q[i] \in S
  OBVIOUS
<1>2. q # <<>> => Len(q) # 0
  OBVIOUS
<1>3. IsInjective(q) <=> \A i, j \in 1..Len(q) : q[i] = q[j] => i = j
  BY <1>1 DEF IsInjective
<1>4. ToSet(q) = {q[i] : i \in 1..Len(q)}
  BY <1>1 DEF ToSet
<1> QED
  BY <1>1, <1>2, <1>3, <1>4

LEMMA AppendFacts ==
  ASSUME NEW q \in Seq(Nat), NEW n \in Nat
  PROVE  /\ Append(q, n) \in Seq(Nat) /\ Len(Append(q, n)) = Len(q) + 1 /\ Len(q) \in Nat
         /\ Append(q, n)[Len(q) + 1] = n
         /\ \A i \in 1..Len(q) : Append(q, n)[i] = q[i] /\ i \in 1..(Len(q) + 1)
         /\ \A i \in 1..(Len(q) + 1) : i \in 1..Len(q) \/ i = Len(q) + 1
         /\ ToSet(Append(q, n)) = ToSet(q) \cup {n}
<1>1. /\ Append(q, n) \in Seq(Nat) /\ Len(Append(q, n)) = Len(q) + 1 /\ Len(q) \in Nat
      /\ Append(q, n)[Len(q) + 1] = n
      /\ \A i \in 1..Len(q) : Append(q, n)[i] = q[i] /\ i \in 1..(Len(q) + 1)
      /\ \A i \in 1..(Len(q) + 1) : i \in 1..Len(q) \/ i = Len(q) + 1
  OBVIOUS
<1>2. DOMAIN q = 1..Len(q) /\ DOMAIN Append(q, n) = 1..(Len(q) + 1) /\ Len(q) + 1 \in 1..(Len(q) + 1)
  BY <1>1
<1>3. ToSet(Append(q, n)) = ToSet(q) \cup {n}
  BY <1>1, <1>2 DEF ToSet
<1> QED
  BY <1>1, <1>3


(* A finite set put in a sequence is there as a whole, each element once.   *)

-----------------------------------------------------------------------------
(* LegacyProjection: what a batch in hand has folded.                      *)

LegacyPhases == {"none", "resolve", "fold", "save"}
SavedRecords == [content : Seq(Nat), known : BOOLEAN]
PendingRecords == [loaded : BOOLEAN, content : Seq(Nat)]

BatchRecords == [phase : LegacyPhases, at : Nat, last : Nat, to : Seq(LegacyDocs),
                 pending : [LegacyDocs -> PendingRecords]]

LegacyTypeOK ==
  /\ kind \in {"processor", "daemon"}
  /\ saved \in [LegacyDocs -> SavedRecords] /\ linked \in SUBSET LegacyDocs
  /\ savedCursor \in Nat
  /\ batch \in BatchRecords
  /\ legacyFaults \in Nat /\ broken \in BOOLEAN

\* The batch in hand is of the commits after the cursor.
BatchInOrder ==
  /\ savedCursor <= Len(LegacyFeed) /\ batch.last <= Len(LegacyFeed)
  /\ batch.phase = "none" => \A d \in LegacyDocs : ~batch.pending[d].loaded
  /\ batch.phase # "none" => savedCursor <= batch.last
  /\ batch.phase \in {"resolve", "fold"} => savedCursor < batch.at /\ batch.at <= batch.last
  /\ IsInjective(batch.to)

\* The commits that are folded whole, and how far a document is ahead of them.
FoldedUpTo ==
  CASE batch.phase = "none" -> savedCursor
    [] batch.phase = "save" -> batch.last
    [] batch.phase \in {"resolve", "fold"} -> batch.at - 1
Ahead(d) == batch.phase = "fold" /\ d \notin ToSet(batch.to)

Content(n, d) == LeftBy(n).content[d]
Links(n) == LeftBy(n).linked
CommitTargets(n) == IF LegacyFeed[n].own THEN ToSet(LegacyFeed[n].to) ELSE Links(n - 1)

Due(d) == Content(IF Ahead(d) THEN batch.at ELSE FoldedUpTo, d)
DueLinks ==
  Links(FoldedUpTo) \cup {d \in LegacyDocs : Ahead(d) /\ d \in CommitTargets(batch.at) /\ LegacyFeed[batch.at].links}

\* What the store gives back for a document.
Stored(d) == IF saved[d].known THEN saved[d].content ELSE <<>>

\* A sequence is held by another one in order.
HoldsSome(have, m, want, n) ==
  \E f \in [1..n -> 1..m] : /\ \A j, k \in 1..n : j < k => f[j] < f[k]
                            /\ \A k \in 1..n : have[f[k]] = want[k]
Holds(have, want) == HoldsSome(have, Len(have), want, Len(want))

\* What is due is folded, into what is in hand; and what the cursor covers
\* into what is stored.
FoldsCover ==
  /\ \A d \in LegacyDocs : Holds(Loaded(d), Due(d)) /\ Holds(Stored(d), Content(savedCursor, d))
  /\ DueLinks \subseteq linked

\* As long as no batch broke off, nothing else is.
FoldsAreExact ==
  ~broken =>
    /\ \A d \in LegacyDocs : Loaded(d) = Due(d) /\ (~saved[d].known => saved[d].content = <<>>)
    /\ linked = DueLinks
    /\ batch.phase = "fold" => ToSet(batch.to) \subseteq CommitTargets(batch.at)

LegacyIInv == LegacyTypeOK /\ BatchInOrder /\ FoldsCover /\ FoldsAreExact

-----------------------------------------------------------------------------
(* The folds of the reference, and of the comparison with it.              *)

CommitsFolded(base, q) == FoldLeft(FoldCommit, base, q)

CommitsTrace(it, base, n, q) ==
  /\ it[0] = base
  /\ \A k \in 1..n : it[k] = FoldCommit(it[k - 1], q[k])
  /\ CommitsFolded(base, q) = it[n]

LEMMA CommitsFold ==
  ASSUME NEW base, NEW n \in Nat, NEW q, DOMAIN q = 1..n
  PROVE  \E it : CommitsTrace(it, base, n, q)
<1> DEFINE Step(r, k) == FoldCommit(r, q[k])
           FoldsTo(f, m) == f = [x \in SUBSET (1..m) |->
                                 IF x = {} THEN base ELSE Step(f[x \ {Max(x)}], Max(x))]
           T == {m \in Nat : \E f : FoldsTo(f, m)}
<1>1. 0 \in T
  <2>1. FoldsTo([x \in SUBSET (1..0) |-> base], 0)
    OBVIOUS
  <2> QED
    BY <2>1
<1>2. ASSUME NEW m \in Nat, m \in T PROVE m + 1 \in T
  <2>1. PICK f : FoldsTo(f, m)
    BY <1>2
  <2> HIDE DEF Step
  <2>2. \A x \in SUBSET (1..m) : f[x] = IF x = {} THEN base ELSE Step(f[x \ {Max(x)}], Max(x))
    BY <2>1
  <2> DEFINE g == [x \in SUBSET (1..(m + 1)) |->
                     IF m + 1 \in x THEN Step(f[x \ {m + 1}], m + 1) ELSE f[x]]
  <2>3. ASSUME NEW x \in SUBSET (1..(m + 1))
        PROVE  g[x] = IF x = {} THEN base ELSE Step(g[x \ {Max(x)}], Max(x))
    <3>1. CASE m + 1 \in x
      <4>1. Max(x) = m + 1 /\ x \ {m + 1} \in SUBSET (1..m) /\ m + 1 \notin x \ {m + 1}
        BY <3>1, MaxOfPrefix
      <4>2. x \ {m + 1} \in SUBSET (1..(m + 1))
        OBVIOUS
      <4> QED
        BY <3>1, <4>1, <4>2
    <3>2. CASE m + 1 \notin x
      <4>0. \A y \in 1..(m + 1) : y # m + 1 => y \in 1..m
        OBVIOUS
      <4>1. x \in SUBSET (1..m) /\ x \ {Max(x)} \in SUBSET (1..(m + 1)) /\ m + 1 \notin x \ {Max(x)}
        BY <3>2, <4>0
      <4> QED
        BY <3>2, <4>1, <2>2
    <3> QED
      BY <3>1, <3>2
  <2>4. FoldsTo(g, m + 1)
    BY <2>3
  <2> HIDE DEF FoldsTo, g
  <2>5. \E h : FoldsTo(h, m + 1)
    BY <2>4
  <2> QED
    BY <2>5
<1> HIDE DEF T
<1>3. n \in T
  <2>1. \A k \in 0..n : k \in T
    BY <1>1, <1>2, UpTo
  <2> QED
    BY <2>1
<1> DEFINE f == CHOOSE f : FoldsTo(f, n)
<1>4. FoldsTo(f, n)
  BY <1>3 DEF T
<1>5. CommitsFolded(base, q) = f[1..n]
  BY DEF CommitsFolded, FoldLeft, MapThenFoldSet
<1> HIDE DEF f, Step
<1>6. \A x \in SUBSET (1..n) : f[x] = IF x = {} THEN base ELSE Step(f[x \ {Max(x)}], Max(x))
  BY <1>4
<1> DEFINE it == [k \in 0..n |-> f[1..k]]
<1>7. it[0] = base
  <2>1. 1..0 = {} /\ 1..0 \in SUBSET (1..n)
    OBVIOUS
  <2>2. f[1..0] = base
    BY <2>1, <1>6
  <2> QED
    BY <2>2
<1>8. ASSUME NEW k \in 1..n PROVE it[k] = Step(it[k - 1], k)
  <2>1. k - 1 \in Nat /\ (k - 1) + 1 = k
    OBVIOUS
  <2>2. 1..k \in SUBSET (1..((k - 1) + 1)) /\ (k - 1) + 1 \in 1..k
    BY <2>1
  <2>3. Max(1..k) = k
    BY <2>1, <2>2, MaxOfPrefix
  <2>4. (1..k) \ {k} = 1..(k - 1) /\ 1..k \in SUBSET (1..n) /\ 1..k # {} /\ k - 1 \in 0..n
    BY <2>1
  <2>5. f[1..k] = Step(f[1..(k - 1)], k)
    BY <2>3, <2>4, <1>6
  <2>6. it[k] = f[1..k] /\ it[k - 1] = f[1..(k - 1)]
    BY <2>4
  <2> QED
    BY <2>5, <2>6
<1>9. it[n] = f[1..n]
  OBVIOUS
<1> QED
  BY <1>5, <1>7, <1>8, <1>9 DEF Step, CommitsTrace

Matched(want, have, i, n) == IF i < Len(want) /\ have[n] = want[i + 1] THEN i + 1 ELSE i
MatchesFolded(want, have, base, q) == FoldLeft(LAMBDA i, n : Matched(want, have, i, n), base, q)

MatchesTrace(it, want, have, base, n, q) ==
  /\ it[0] = base
  /\ \A k \in 1..n : it[k] = Matched(want, have, it[k - 1], q[k])
  /\ MatchesFolded(want, have, base, q) = it[n]

LEMMA MatchesFold ==
  ASSUME NEW want, NEW have, NEW base, NEW n \in Nat, NEW q, DOMAIN q = 1..n
  PROVE  \E it : MatchesTrace(it, want, have, base, n, q)
<1> DEFINE Step(r, k) == Matched(want, have, r, q[k])
           FoldsTo(f, m) == f = [x \in SUBSET (1..m) |->
                                 IF x = {} THEN base ELSE Step(f[x \ {Max(x)}], Max(x))]
           T == {m \in Nat : \E f : FoldsTo(f, m)}
<1>1. 0 \in T
  <2>1. FoldsTo([x \in SUBSET (1..0) |-> base], 0)
    OBVIOUS
  <2> QED
    BY <2>1
<1>2. ASSUME NEW m \in Nat, m \in T PROVE m + 1 \in T
  <2>1. PICK f : FoldsTo(f, m)
    BY <1>2
  <2> HIDE DEF Step
  <2>2. \A x \in SUBSET (1..m) : f[x] = IF x = {} THEN base ELSE Step(f[x \ {Max(x)}], Max(x))
    BY <2>1
  <2> DEFINE g == [x \in SUBSET (1..(m + 1)) |->
                     IF m + 1 \in x THEN Step(f[x \ {m + 1}], m + 1) ELSE f[x]]
  <2>3. ASSUME NEW x \in SUBSET (1..(m + 1))
        PROVE  g[x] = IF x = {} THEN base ELSE Step(g[x \ {Max(x)}], Max(x))
    <3>1. CASE m + 1 \in x
      <4>1. Max(x) = m + 1 /\ x \ {m + 1} \in SUBSET (1..m) /\ m + 1 \notin x \ {m + 1}
        BY <3>1, MaxOfPrefix
      <4>2. x \ {m + 1} \in SUBSET (1..(m + 1))
        OBVIOUS
      <4> QED
        BY <3>1, <4>1, <4>2
    <3>2. CASE m + 1 \notin x
      <4>0. \A y \in 1..(m + 1) : y # m + 1 => y \in 1..m
        OBVIOUS
      <4>1. x \in SUBSET (1..m) /\ x \ {Max(x)} \in SUBSET (1..(m + 1)) /\ m + 1 \notin x \ {Max(x)}
        BY <3>2, <4>0
      <4> QED
        BY <3>2, <4>1, <2>2
    <3> QED
      BY <3>1, <3>2
  <2>4. FoldsTo(g, m + 1)
    BY <2>3
  <2> HIDE DEF FoldsTo, g
  <2>5. \E h : FoldsTo(h, m + 1)
    BY <2>4
  <2> QED
    BY <2>5
<1> HIDE DEF T
<1>3. n \in T
  <2>1. \A k \in 0..n : k \in T
    BY <1>1, <1>2, UpTo
  <2> QED
    BY <2>1
<1> DEFINE f == CHOOSE f : FoldsTo(f, n)
<1>4. FoldsTo(f, n)
  BY <1>3 DEF T
<1>5. MatchesFolded(want, have, base, q) = f[1..n]
  BY DEF MatchesFolded, Matched, FoldLeft, MapThenFoldSet
<1> HIDE DEF f, Step
<1>6. \A x \in SUBSET (1..n) : f[x] = IF x = {} THEN base ELSE Step(f[x \ {Max(x)}], Max(x))
  BY <1>4
<1> DEFINE it == [k \in 0..n |-> f[1..k]]
<1>7. it[0] = base
  <2>1. 1..0 = {} /\ 1..0 \in SUBSET (1..n)
    OBVIOUS
  <2>2. f[1..0] = base
    BY <2>1, <1>6
  <2> QED
    BY <2>2
<1>8. ASSUME NEW k \in 1..n PROVE it[k] = Step(it[k - 1], k)
  <2>1. k - 1 \in Nat /\ (k - 1) + 1 = k
    OBVIOUS
  <2>2. 1..k \in SUBSET (1..((k - 1) + 1)) /\ (k - 1) + 1 \in 1..k
    BY <2>1
  <2>3. Max(1..k) = k
    BY <2>1, <2>2, MaxOfPrefix
  <2>4. (1..k) \ {k} = 1..(k - 1) /\ 1..k \in SUBSET (1..n) /\ 1..k # {} /\ k - 1 \in 0..n
    BY <2>1
  <2>5. f[1..k] = Step(f[1..(k - 1)], k)
    BY <2>3, <2>4, <1>6
  <2>6. it[k] = f[1..k] /\ it[k - 1] = f[1..(k - 1)]
    BY <2>4
  <2> QED
    BY <2>5, <2>6
<1>9. it[n] = f[1..n]
  OBVIOUS
<1> QED
  BY <1>5, <1>7, <1>8, <1>9 DEF Step, MatchesTrace

NothingLeft == [content |-> [d \in LegacyDocs |-> <<>>], linked |-> {}]

LEMMA LeftBySteps ==
  ASSUME NEW n \in Nat
  PROVE  /\ LeftBy(0) = NothingLeft
         /\ LeftBy(n + 1) = FoldCommit(LeftBy(n), n + 1)
<1> DEFINE q(k) == [i \in 1..k |-> i]
<1>1. \A k \in Nat : \E it : CommitsTrace(it, NothingLeft, k, q(k))
  <2> SUFFICES ASSUME NEW k \in Nat PROVE \E it : CommitsTrace(it, NothingLeft, k, q(k))
    OBVIOUS
  <2>1. DOMAIN q(k) = 1..k
    OBVIOUS
  <2> HIDE DEF q
  <2> QED
    BY <2>1, CommitsFold
<1>2. \A k \in Nat, i \in Nat : i \in 1..k => q(k)[i] = i
  OBVIOUS
<1>3. \A k \in Nat : LeftBy(k) = CommitsFolded(NothingLeft, q(k))
  BY DEF LeftBy, CommitsFolded, NothingLeft
<1> HIDE DEF q
<1>4. PICK old : CommitsTrace(old, NothingLeft, n, q(n))
  BY <1>1
<1>5. PICK it : CommitsTrace(it, NothingLeft, n + 1, q(n + 1))
  BY <1>1
<1>6. PICK none : CommitsTrace(none, NothingLeft, 0, q(0))
  BY <1>1
<1> DEFINE T == {k \in Nat : old[k] = it[k]}
<1>7. 0 \in T
  BY <1>4, <1>5 DEF CommitsTrace
<1>8. ASSUME NEW k \in Nat, k < n, k \in T PROVE k + 1 \in T
  <2>1. k + 1 \in 1..n /\ k + 1 \in 1..(n + 1) /\ (k + 1) - 1 = k /\ n + 1 \in Nat
    BY <1>8
  <2>2. q(n)[k + 1] = k + 1 /\ q(n + 1)[k + 1] = k + 1
    BY <1>2, <2>1
  <2>3. old[k + 1] = FoldCommit(old[k], k + 1) /\ it[k + 1] = FoldCommit(it[k], k + 1)
    BY <1>4, <1>5, <2>1, <2>2 DEF CommitsTrace
  <2> QED
    BY <1>8, <2>3
<1>9. old[n] = it[n]
  <2>1. \A k \in 0..n : k \in T
    <3> HIDE DEF T
    <3> QED
      BY <1>7, <1>8, UpTo
  <2> QED
    BY <2>1
<1>10. it[n + 1] = FoldCommit(it[n], n + 1)
  <2>1. n + 1 \in 1..(n + 1) /\ (n + 1) - 1 = n /\ n + 1 \in Nat
    OBVIOUS
  <2>2. q(n + 1)[n + 1] = n + 1
    BY <1>2, <2>1
  <2> QED
    BY <1>5, <2>1, <2>2 DEF CommitsTrace
<1>11. LeftBy(n) = old[n] /\ LeftBy(n + 1) = it[n + 1] /\ LeftBy(0) = none[0]
  BY <1>3, <1>4, <1>5, <1>6 DEF CommitsTrace
<1>12. none[0] = NothingLeft
  BY <1>6 DEF CommitsTrace
<1> QED
  BY <1>9, <1>10, <1>11, <1>12

Commits == [own : BOOLEAN, to : Seq(LegacyDocs), links : BOOLEAN]

LeftByTyped(n) ==
  /\ \A d \in LegacyDocs : Content(n, d) \in Seq(Nat)
  /\ Links(n) \in SUBSET LegacyDocs

\* What one more commit adds to the reference.
LeftByAdds(m, n) ==
  /\ CommitTargets(n) \in SUBSET LegacyDocs
  /\ \A d \in LegacyDocs :
       Content(n, d) = IF d \in CommitTargets(n) THEN Append(Content(m, d), n) ELSE Content(m, d)
  /\ Links(n) = IF LegacyFeed[n].links THEN Links(m) \cup CommitTargets(n) ELSE Links(m)

LEMMA LeftByBegins == LeftByTyped(0) /\ Links(0) = {} /\ \A d \in LegacyDocs : Content(0, d) = <<>>
<1>1. LeftBy(0) = NothingLeft
  BY LeftBySteps
<1>2. Links(0) = {} /\ \A d \in LegacyDocs : Content(0, d) = <<>>
  BY <1>1 DEF Content, Links, NothingLeft
<1> QED
  BY <1>2, EmptySeq DEF LeftByTyped

LEMMA LeftByOne ==
  ASSUME NEW m \in Nat, m < Len(LegacyFeed), LeftByTyped(m)
  PROVE  LeftByTyped(m + 1) /\ LeftByAdds(m, m + 1)
<1> PICK n \in Nat : n = m + 1
  OBVIOUS
<1>1. n \in DOMAIN LegacyFeed /\ n - 1 = m
  BY LegacyAssumption
<1>2. LegacyFeed[n] \in Commits
  <2>1. LegacyFeed \in Seq(Commits)
    BY LegacyAssumption DEF Commits
  <2> QED
    BY <2>1, <1>1, SeqFacts
<1>3. CommitTargets(n) = (IF LegacyFeed[n].own THEN ToSet(LegacyFeed[n].to) ELSE Links(m))
  BY <1>1 DEF CommitTargets
<1>4. CommitTargets(n) \in SUBSET LegacyDocs
  <2>1. LegacyFeed[n].to \in Seq(LegacyDocs)
    BY <1>2 DEF Commits
  <2>2. ToSet(LegacyFeed[n].to) \in SUBSET LegacyDocs
    BY <2>1, SeqFacts
  <2> QED
    BY <2>2, <1>3 DEF LeftByTyped
<1>5. LeftBy(n) = FoldCommit(LeftBy(m), n)
  BY LeftBySteps
<1>6. LeftBy(n) = [content |-> [d \in LegacyDocs |-> IF d \in CommitTargets(n) THEN Append(Content(m, d), n)
                                                       ELSE Content(m, d)],
                      linked |-> IF LegacyFeed[n].links THEN Links(m) \cup CommitTargets(n) ELSE Links(m)]
  BY <1>3, <1>5 DEF FoldCommit, Content, Links
<1>7. LeftByAdds(m, n)
  <2>1. PICK r : r = LeftBy(n)
    OBVIOUS
  <2>2. /\ \A d \in LegacyDocs : r.content[d] = IF d \in CommitTargets(n) THEN Append(Content(m, d), n)
                                                    ELSE Content(m, d)
        /\ r.linked = IF LegacyFeed[n].links THEN Links(m) \cup CommitTargets(n) ELSE Links(m)
    BY <1>6, <2>1
  <2>3. (\A d \in LegacyDocs : Content(n, d) = r.content[d]) /\ Links(n) = r.linked
    BY <2>1 DEF Content, Links
  <2> QED
    BY <2>2, <2>3, <1>4 DEF LeftByAdds
<1>8. \A d \in LegacyDocs : Append(Content(m, d), n) \in Seq(Nat)
  BY AppendFacts DEF LeftByTyped
<1>9. LeftByTyped(n)
  BY <1>4, <1>7, <1>8 DEF LeftByTyped, LeftByAdds
<1> QED
  BY <1>7, <1>9

LEMMA LeftByIs ==
  ASSUME NEW n \in Nat, n <= Len(LegacyFeed)
  PROVE  LeftByTyped(n) /\ (n # 0 => LeftByAdds(n - 1, n))
<1> PICK size \in Nat : size = Len(LegacyFeed)
  BY LegacyAssumption
<1> DEFINE T == {k \in Nat : k <= size => LeftByTyped(k)}
<1>1. \A k \in 0..n : k \in T
  <2>1. 0 \in T
    BY LeftByBegins
  <2>2. ASSUME NEW k \in Nat, k < n, k \in T PROVE k + 1 \in T
    <3>1. k < size /\ LeftByTyped(k)
      BY <2>2
    <3> QED
      BY <3>1, LeftByOne
  <2> HIDE DEF T
  <2> QED
    BY <2>1, <2>2, UpTo
<1>2. LeftByTyped(n)
  BY <1>1
<1>3. ASSUME n # 0 PROVE LeftByAdds(n - 1, n)
  <2>1. PICK m \in Nat : n = m + 1 /\ m = n - 1
    BY <1>3
  <2>2. m \in 0..n /\ m < size
    BY <2>1
  <2>3. LeftByTyped(m)
    BY <2>2, <1>1
  <2> QED
    BY <2>1, <2>2, <2>3, LeftByOne
<1> QED
  BY <1>2, <1>3

-----------------------------------------------------------------------------
(* A sequence held by another one.                                         *)

LEMMA HoldsNothing == \A have : Holds(have, <<>>)
<1> SUFFICES ASSUME NEW have PROVE Holds(have, <<>>)
  OBVIOUS
<1> PICK f : f = [k \in 1..0 |-> 0]
  OBVIOUS
<1>1. Len(<<>>) = 0 /\ 1..0 = {}
  OBVIOUS
<1>2. f \in [1..0 -> 1..Len(have)] /\ \A j \in 1..0 : FALSE
  BY <1>1
<1> QED
  BY <1>1, <1>2 DEF Holds, HoldsSome

LEMMA NothingHolds ==
  ASSUME NEW want \in Seq(Nat), Holds(<<>>, want)
  PROVE  want = <<>>
<1>1. PICK n \in Nat : n = Len(want)
  OBVIOUS
<1>2. PICK f : f \in [1..n -> 1..0]
  BY <1>1 DEF Holds, HoldsSome
<1>3. n = 0
  <2>1. n # 0 => 1 \in 1..n
    OBVIOUS
  <2> QED
    BY <2>1, <1>2
<1> QED
  BY <1>1, <1>3, EmptySeq

LEMMA HoldsLonger ==
  ASSUME NEW have \in Seq(Nat), NEW want \in Seq(Nat), NEW x \in Nat, Holds(have, want)
  PROVE  Holds(Append(have, x), want)
<1>1. PICK m \in Nat, n \in Nat : m = Len(have) /\ n = Len(want)
  OBVIOUS
<1>2. PICK f \in [1..n -> 1..m] : /\ \A j, k \in 1..n : j < k => f[j] < f[k]
                                 /\ \A k \in 1..n : have[f[k]] = want[k]
  BY <1>1 DEF Holds, HoldsSome
<1>3. PICK longer : longer = Append(have, x)
  OBVIOUS
<1>4. Len(longer) = m + 1 /\ \A i \in 1..m : longer[i] = have[i] /\ i \in 1..(m + 1)
  BY <1>1, <1>3, AppendFacts
<1>5. f \in [1..n -> 1..(m + 1)] /\ \A k \in 1..n : longer[f[k]] = want[k]
  BY <1>2, <1>4
<1>6. Holds(longer, want)
  BY <1>1, <1>2, <1>4, <1>5 DEF Holds, HoldsSome
<1> QED
  BY <1>3, <1>6

LEMMA HoldsNext ==
  ASSUME NEW have \in Seq(Nat), NEW want \in Seq(Nat), NEW x \in Nat, Holds(have, want)
  PROVE  Holds(Append(have, x), Append(want, x))
<1>1. PICK m \in Nat, n \in Nat : m = Len(have) /\ n = Len(want)
  OBVIOUS
<1>2. PICK f \in [1..n -> 1..m] : /\ \A j, k \in 1..n : j < k => f[j] < f[k]
                                 /\ \A k \in 1..n : have[f[k]] = want[k]
  BY <1>1 DEF Holds, HoldsSome
<1>3. PICK longer, next : longer = Append(have, x) /\ next = Append(want, x)
  OBVIOUS
<1>4. /\ Len(longer) = m + 1 /\ longer[m + 1] = x
      /\ \A i \in 1..m : longer[i] = have[i]
  BY <1>1, <1>3, AppendFacts
<1>5. /\ Len(next) = n + 1 /\ next[n + 1] = x
      /\ \A i \in 1..n : next[i] = want[i]
  BY <1>1, <1>3, AppendFacts
<1>6. PICK g : g = [k \in 1..(n + 1) |-> IF k = n + 1 THEN m + 1 ELSE f[k]]
  OBVIOUS
<1>7. \A k \in 1..(n + 1) : k = n + 1 \/ k \in 1..n
  OBVIOUS
<1>8. \A k \in 1..n : k \in 1..(n + 1) /\ k # n + 1 /\ f[k] \in Nat /\ f[k] < m + 1 /\ f[k] \in 1..(m + 1)
  BY <1>2
<1>9. n + 1 \in 1..(n + 1) /\ m + 1 \in 1..(m + 1)
  OBVIOUS
<1>10. g[n + 1] = m + 1 /\ \A k \in 1..n : g[k] = f[k]
  BY <1>6, <1>8, <1>9
<1>11. g \in [1..(n + 1) -> 1..(m + 1)]
  BY <1>6, <1>7, <1>8, <1>9
<1>12. \A j, k \in 1..(n + 1) : j < k => g[j] < g[k]
  <2> SUFFICES ASSUME NEW j \in 1..(n + 1), NEW k \in 1..(n + 1), j < k PROVE g[j] < g[k]
    OBVIOUS
  <2>1. j \in 1..n
    BY <1>7
  <2>2. CASE k = n + 1
    BY <2>1, <2>2, <1>8, <1>10
  <2>3. CASE k \in 1..n
    BY <2>1, <2>3, <1>2, <1>10
  <2> QED
    BY <2>2, <2>3, <1>7
<1>13. \A k \in 1..(n + 1) : longer[g[k]] = next[k]
  <2>1. longer[g[n + 1]] = next[n + 1]
    BY <1>4, <1>5, <1>10
  <2>2. ASSUME NEW k \in 1..n PROVE longer[g[k]] = next[k]
    <3>1. g[k] = f[k] /\ f[k] \in 1..m
      BY ONLY <1>2, <1>10, k \in 1..n
    <3>2. longer[f[k]] = have[f[k]]
      BY ONLY <3>1, <1>4
    <3> QED
      BY ONLY <3>1, <3>2, <1>2, <1>5, k \in 1..n
  <2> QED
    BY <2>1, <2>2, <1>7
<1>14. Holds(longer, next)
  BY <1>4, <1>5, <1>11, <1>12, <1>13 DEF Holds, HoldsSome
<1> QED
  BY <1>3, <1>14

LEMMA HoldsLess ==
  ASSUME NEW have \in Seq(Nat), NEW want \in Seq(Nat), NEW x \in Nat, Holds(have, Append(want, x))
  PROVE  Holds(have, want)
<1>1. PICK m \in Nat, n \in Nat : m = Len(have) /\ n = Len(want)
  OBVIOUS
<1>2. PICK next : next = Append(want, x)
  OBVIOUS
<1>3. /\ Len(next) = n + 1
      /\ \A i \in 1..n : next[i] = want[i] /\ i \in 1..(n + 1)
  BY <1>1, <1>2, AppendFacts
<1>4. PICK g \in [1..(n + 1) -> 1..m] : /\ \A j, k \in 1..(n + 1) : j < k => g[j] < g[k]
                                       /\ \A k \in 1..(n + 1) : have[g[k]] = next[k]
  <2>1. Holds(have, next)
    BY <1>2
  <2>2. HoldsSome(have, m, next, n + 1)
    BY <2>1, <1>1, <1>3 DEF Holds
  <2> QED
    BY <2>2 DEF HoldsSome
<1>5. PICK f : f = [k \in 1..n |-> g[k]]
  OBVIOUS
<1>6. f \in [1..n -> 1..m] /\ \A k \in 1..n : f[k] = g[k]
  BY <1>3, <1>4, <1>5
<1>7. \A k \in 1..n : have[f[k]] = want[k]
  BY <1>3, <1>4, <1>6
<1>8. \A j, k \in 1..n : j < k => f[j] < f[k]
  BY <1>3, <1>4, <1>6
<1> QED
  BY <1>1, <1>6, <1>7, <1>8 DEF Holds, HoldsSome

LEMMA HoldsFewer ==
  ASSUME NEW d \in LegacyDocs, NEW have \in Seq(Nat), NEW m \in Nat, NEW n \in Nat,
         n <= m, m <= Len(LegacyFeed), Holds(have, Content(m, d))
  PROVE  Holds(have, Content(n, d))
<1> PICK size \in Nat : size = Len(LegacyFeed)
  BY LegacyAssumption
<1> DEFINE T == {k \in Nat : k <= m => Holds(have, Content(m - k, d))}
<1>1. 0 \in T
  OBVIOUS
<1>2. ASSUME NEW k \in Nat, k < m, k \in T PROVE k + 1 \in T
  <2>1. PICK j \in Nat, i \in Nat : j = m - k /\ i = j - 1 /\ i = m - (k + 1) /\ j # 0 /\ j <= size /\ i <= size
    BY <1>2
  <2>2. Holds(have, Content(j, d))
    BY <1>2, <2>1
  <2>3. Content(i, d) \in Seq(Nat)
    BY <2>1, LeftByIs DEF LeftByTyped
  <2>4. Content(j, d) = Append(Content(i, d), j) \/ Content(j, d) = Content(i, d)
    <3>1. LeftByAdds(i, j)
      BY <2>1, LeftByIs
    <3> QED
      BY <3>1 DEF LeftByAdds
  <2>5. Holds(have, Content(i, d))
    BY <2>2, <2>3, <2>4, HoldsLess
  <2> QED
    BY <2>1, <2>5
<1>3. \A k \in 0..m : k \in T
  <2> HIDE DEF T
  <2> QED
    BY <1>1, <1>2, UpTo
<1>4. PICK k \in Nat : k = m - n /\ k \in 0..m /\ m - k = n
  OBVIOUS
<1>5. k \in T
  <2> HIDE DEF T
  <2> QED
    BY <1>3, <1>4
<1>6. Holds(have, Content(m - k, d))
  BY <1>4, <1>5
<1> QED
  BY <1>4, <1>6

\* A reader that goes through the one finds all of the other.
LEMMA HoldsIsHeld ==
  ASSUME NEW have \in Seq(Nat), NEW want \in Seq(Nat), Holds(have, want)
  PROVE  HeldOf(want, have) = Len(want)
<1>1. PICK m \in Nat, n \in Nat : m = Len(have) /\ n = Len(want) /\ DOMAIN have = 1..m
  OBVIOUS
<1>2. PICK f \in [1..n -> 1..m] : /\ \A j, k \in 1..n : j < k => f[j] < f[k]
                                 /\ \A k \in 1..n : have[f[k]] = want[k]
  BY <1>1 DEF Holds, HoldsSome
<1>3. PICK q : q = [i \in 1..m |-> i]
  OBVIOUS
<1>4. HeldOf(want, have) = MatchesFolded(want, have, 0, q)
  BY <1>1, <1>3 DEF HeldOf, MatchesFolded, Matched
<1>5. PICK it : MatchesTrace(it, want, have, 0, m, q)
  <2>1. DOMAIN q = 1..m
    BY <1>3
  <2> QED
    BY <2>1, MatchesFold
<1>6. \A k \in 1..m : it[k] = IF it[k - 1] < n /\ have[k] = want[it[k - 1] + 1] THEN it[k - 1] + 1 ELSE it[k - 1]
  BY <1>1, <1>3, <1>5 DEF MatchesTrace, Matched
<1>7. it[0] = 0 /\ HeldOf(want, have) = it[m]
  BY <1>4, <1>5 DEF MatchesTrace
<1> DEFINE Reached(k) == it[k] \in Nat /\ it[k] <= n /\ \A j \in 1..n : f[j] <= k => j <= it[k]
           T == {k \in Nat : k <= m => Reached(k)}
<1>8. 0 \in T
  <2>1. \A j \in 1..n : ~ (f[j] <= 0)
    BY <1>2
  <2> QED
    BY <2>1, <1>7
<1>9. ASSUME NEW k \in Nat, k < m, k \in T PROVE k + 1 \in T
  <2>1. k + 1 \in 1..m /\ (k + 1) - 1 = k /\ Reached(k)
    BY <1>9
  <2>2. PICK i \in Nat, p \in Nat : i = it[k] /\ p = k + 1
    BY <2>1
  <2>3. it[p] = IF i < n /\ have[p] = want[i + 1] THEN i + 1 ELSE i
    BY <2>1, <2>2, <1>6
  <2>4. i <= n /\ it[p] \in Nat /\ it[p] <= n /\ i <= it[p]
    BY <2>1, <2>2, <2>3
  <2>5. ASSUME NEW j \in 1..n, f[j] <= p PROVE j <= it[p]
    <3>1. f[j] \in Nat
      BY <1>2
    <3>2. CASE f[j] <= k
      BY <3>2, <2>1, <2>2, <2>4
    <3>3. CASE f[j] = p /\ j <= i
      BY <3>3, <2>4
    <3>4. CASE f[j] = p /\ ~ (j <= i)
      <4>1. j - 1 <= i
        <5>1. CASE j = 1
          BY <5>1
        <5>2. CASE j # 1
          <6>1. j - 1 \in 1..n /\ j - 1 < j
            BY <5>2
          <6>2. f[j - 1] \in Nat /\ f[j - 1] < p
            BY <6>1, <3>4, <1>2
          <6>3. f[j - 1] <= k
            BY <6>2, <2>2
          <6> QED
            BY <6>1, <6>3, <2>1, <2>2
        <5> QED
          BY <5>1, <5>2
      <4>2. j = i + 1
        BY <4>1, <3>4
      <4>3. have[p] = want[j]
        BY <3>4, <1>2
      <4> QED
        BY <4>2, <4>3, <2>3
    <3>5. f[j] <= k \/ f[j] = p
      BY <3>1, <2>2, <2>5
    <3> QED
      BY <3>2, <3>3, <3>4, <3>5
  <2> QED
    BY <2>2, <2>4, <2>5
<1>10. Reached(m)
  <2>1. \A k \in 0..m : k \in T
    <3> HIDE DEF T
    <3> QED
      BY <1>8, <1>9, UpTo
  <2> QED
    BY <2>1
<1>11. n # 0 => n \in 1..n /\ f[n] <= m
  BY <1>2
<1> QED
  BY <1>1, <1>7, <1>10, <1>11

-----------------------------------------------------------------------------
(* What every step needs of the invariant.                                 *)

LEMMA LinksGrow ==
  ASSUME NEW m \in Nat, NEW n \in Nat, n <= m, m <= Len(LegacyFeed)
  PROVE  Links(n) \subseteq Links(m)
<1> PICK size \in Nat : size = Len(LegacyFeed)
  BY LegacyAssumption
<1> DEFINE T == {k \in Nat : n + k <= size => Links(n) \subseteq Links(n + k)}
<1> PICK far \in Nat : far = m - n /\ n + far = m
  OBVIOUS
<1>1. 0 \in T
  OBVIOUS
<1>2. ASSUME NEW k \in Nat, k < far, k \in T PROVE k + 1 \in T
  <2>1. PICK i \in Nat, j \in Nat :
          i = n + k /\ j = i + 1 /\ j = n + (k + 1) /\ i = j - 1 /\ j # 0 /\ j <= size /\ i <= size
    BY <1>2
  <2>2. LeftByAdds(i, j)
    BY <2>1, LeftByIs
  <2>3. Links(i) \subseteq Links(j)
    BY <2>2 DEF LeftByAdds
  <2> QED
    BY <2>1, <2>3, <1>2
<1>3. far \in T
  <2>1. \A k \in 0..far : k \in T
    <3> HIDE DEF T
    <3> QED
      BY <1>1, <1>2, UpTo
  <2> QED
    BY <2>1
<1> QED
  BY <1>3

LEMMA FoldedIs ==
  ASSUME LegacyTypeOK, BatchInOrder
  PROVE  /\ FoldedUpTo \in Nat /\ FoldedUpTo <= Len(LegacyFeed) /\ savedCursor <= FoldedUpTo
         /\ batch.phase \in {"resolve", "fold"} =>
              batch.at \in Nat /\ batch.at # 0 /\ batch.at <= Len(LegacyFeed) /\ FoldedUpTo = batch.at - 1
<1> PICK size \in Nat : size = Len(LegacyFeed)
  BY LegacyAssumption
<1>1. /\ batch.phase \in LegacyPhases /\ batch.at \in Nat /\ batch.last \in Nat /\ savedCursor \in Nat
  BY DEF LegacyTypeOK, BatchRecords
<1>2. CASE batch.phase = "none"
  BY <1>1, <1>2 DEF FoldedUpTo, BatchInOrder
<1>3. CASE batch.phase = "save"
  BY <1>1, <1>3 DEF FoldedUpTo, BatchInOrder
<1>4. CASE batch.phase \in {"resolve", "fold"}
  BY <1>1, <1>4 DEF FoldedUpTo, BatchInOrder
<1> QED
  BY <1>1, <1>2, <1>3, <1>4 DEF LegacyPhases

\* Whatever is due to a document, what the cursor covers comes before.
LEMMA DueIs ==
  ASSUME LegacyTypeOK, BatchInOrder, NEW d \in LegacyDocs
  PROVE  /\ \E n \in Nat : /\ n <= Len(LegacyFeed) /\ savedCursor <= n /\ Due(d) = Content(n, d)
                           /\ n = IF Ahead(d) THEN batch.at ELSE FoldedUpTo
         /\ Due(d) \in Seq(Nat) /\ Loaded(d) \in Seq(Nat) /\ Stored(d) \in Seq(Nat)
         /\ Content(savedCursor, d) \in Seq(Nat)
         /\ \A have \in Seq(Nat) : Holds(have, Due(d)) => Holds(have, Content(savedCursor, d))
<1> PICK size \in Nat : size = Len(LegacyFeed)
  BY LegacyAssumption
<1>0. /\ FoldedUpTo \in Nat /\ FoldedUpTo <= size /\ savedCursor <= FoldedUpTo /\ savedCursor \in Nat
      /\ batch.phase \in {"resolve", "fold"} =>
           batch.at \in Nat /\ batch.at # 0 /\ batch.at <= size /\ FoldedUpTo = batch.at - 1
  BY FoldedIs DEF LegacyTypeOK
<1>1. PICK n \in Nat : n = IF Ahead(d) THEN batch.at ELSE FoldedUpTo
  BY <1>0 DEF Ahead
<1>2. n <= size /\ savedCursor <= n
  <2>1. CASE Ahead(d)
    BY <2>1, <1>0, <1>1 DEF Ahead
  <2>2. CASE ~Ahead(d)
    BY <2>2, <1>0, <1>1
  <2> QED
    BY <2>1, <2>2
<1>3. Due(d) = Content(n, d)
  BY <1>1 DEF Due
<1>4. Content(n, d) \in Seq(Nat) /\ Content(savedCursor, d) \in Seq(Nat)
  <2>1. savedCursor <= size
    BY <1>0
  <2>2. LeftByTyped(n)
    BY <1>2, LeftByIs
  <2>3. LeftByTyped(savedCursor)
    BY <1>0, <2>1, LeftByIs
  <2>4. Content(n, d) \in Seq(Nat)
    BY <2>2 DEF LeftByTyped
  <2>5. Content(savedCursor, d) \in Seq(Nat)
    BY <2>3 DEF LeftByTyped
  <2> QED
    BY <2>4, <2>5
<1>5. Stored(d) \in Seq(Nat) /\ Loaded(d) \in Seq(Nat)
  <2>1. saved[d].content \in Seq(Nat) /\ batch.pending[d].content \in Seq(Nat) /\ <<>> \in Seq(Nat)
    BY EmptySeq DEF LegacyTypeOK, SavedRecords, PendingRecords, BatchRecords
  <2> QED
    BY <2>1 DEF Stored, Loaded
<1>6. \A have \in Seq(Nat) : Holds(have, Content(n, d)) => Holds(have, Content(savedCursor, d))
  BY <1>0, <1>2, HoldsFewer
<1> QED
  BY <1>1, <1>2, <1>3, <1>4, <1>5, <1>6

LEMMA LoadedIs == \A d : Loaded(d) = IF batch.pending[d].loaded THEN batch.pending[d].content ELSE Stored(d)
  BY DEF Loaded, Stored

LEMMA LoadedIsNext == \A d : Loaded(d)' = IF batch'.pending[d].loaded THEN batch'.pending[d].content ELSE Stored(d)'
  BY DEF Loaded, Stored

\* What is read in a commit that is folded next.
LEMMA DueLinksAre ==
  ASSUME LegacyTypeOK, BatchInOrder
  PROVE  DueLinks = IF batch.phase = "fold" /\ LegacyFeed[batch.at].links
                    THEN Links(FoldedUpTo) \cup (CommitTargets(batch.at) \ ToSet(batch.to)) ELSE Links(FoldedUpTo)
<1>1. CASE batch.phase = "fold"
  <2>1. /\ batch.at \in Nat /\ batch.at # 0 /\ batch.at <= Len(LegacyFeed)
    BY <1>1, FoldedIs
  <2>2. CommitTargets(batch.at) \subseteq LegacyDocs
    BY <2>1, LeftByIs DEF LeftByAdds
  <2> QED
    BY <1>1, <2>2 DEF DueLinks, Ahead
<1>2. CASE batch.phase # "fold"
  BY <1>2 DEF DueLinks, Ahead
<1> QED
  BY <1>1, <1>2

-----------------------------------------------------------------------------
(* A batch that is given up, and the steps that fold nothing.              *)

LEMMA NoBatchIs ==
  /\ NoBatch \in BatchRecords /\ NoBatch.phase = "none" /\ NoBatch.last = 0 /\ NoBatch.to = <<>>
  /\ \A d \in LegacyDocs : ~NoBatch.pending[d].loaded
<1>1. NoPending \in PendingRecords /\ ~NoPending.loaded
  BY EmptySeq DEF NoPending, PendingRecords
<1> PICK p : p = [d \in LegacyDocs |-> NoPending]
  OBVIOUS
<1>2. p \in [LegacyDocs -> PendingRecords] /\ \A d \in LegacyDocs : ~p[d].loaded
  BY <1>1
<1>3. NoBatch = [phase |-> "none", at |-> 0, last |-> 0, to |-> <<>>, pending |-> p]
  BY DEF NoBatch
<1>4. <<>> \in Seq(LegacyDocs)
  BY EmptySeq
<1> QED
  BY <1>2, <1>3, <1>4 DEF BatchRecords, LegacyPhases

LEMMA NoBatchKeeps ==
  ASSUME LegacyIInv, batch' = NoBatch, UNCHANGED kind, legacyFaults' \in Nat, broken' \in BOOLEAN,
         saved' \in [LegacyDocs -> SavedRecords], linked' \in SUBSET LegacyDocs,
         savedCursor' \in Nat, savedCursor' <= Len(LegacyFeed),
         \A d \in LegacyDocs : Holds(Stored(d)', Content(savedCursor', d)), Links(savedCursor') \subseteq linked',
         ~broken' => /\ \A d \in LegacyDocs : /\ Stored(d)' = Content(savedCursor', d)
                                              /\ ~saved'[d].known => saved'[d].content = <<>>
                     /\ linked' = Links(savedCursor')
  PROVE  LegacyIInv'
<1>1. batch' \in BatchRecords /\ batch'.phase = "none" /\ batch'.last = 0 /\ batch'.to = <<>>
      /\ \A d \in LegacyDocs : ~batch'.pending[d].loaded
  BY NoBatchIs
<1>2. LegacyTypeOK'
  BY <1>1 DEF LegacyIInv, LegacyTypeOK
<1>3. BatchInOrder'
  <2>1. 0 <= Len(LegacyFeed)
    BY LegacyAssumption
  <2>2. IsInjective(batch'.to)
    BY <1>1 DEF IsInjective
  <2> QED
    BY <1>1, <2>1, <2>2 DEF BatchInOrder
<1>4. FoldedUpTo' = savedCursor' /\ \A d \in LegacyDocs : ~Ahead(d)'
  BY <1>1 DEF FoldedUpTo, Ahead
<1>5. \A d \in LegacyDocs : Loaded(d)' = Stored(d)' /\ Due(d)' = Content(savedCursor', d)
  <2>1. \A d \in LegacyDocs : Loaded(d)' = Stored(d)'
    BY <1>1, LoadedIsNext
  <2>2. \A d \in LegacyDocs : Due(d)' = Content(savedCursor', d)
    BY <1>4 DEF Due, Content
  <2> QED
    BY <2>1, <2>2
<1>6. DueLinks' = Links(savedCursor')
  BY <1>4 DEF DueLinks, Links
<1>7. FoldsCover'
  BY <1>5, <1>6 DEF FoldsCover, Content
<1>8. FoldsAreExact'
  BY <1>1, <1>5, <1>6 DEF FoldsAreExact, Content
<1> QED
  BY <1>2, <1>3, <1>7, <1>8 DEF LegacyIInv

LEMMA GivenUpKeeps ==
  ASSUME LegacyIInv, batch' = NoBatch, UNCHANGED <<kind, saved, linked, savedCursor>>, legacyFaults' \in Nat, broken'
  PROVE  LegacyIInv'
<1>1. LegacyTypeOK /\ BatchInOrder /\ FoldsCover
  BY DEF LegacyIInv
<1>2. /\ saved' = saved /\ linked' = linked /\ savedCursor' = savedCursor
      /\ savedCursor \in Nat /\ savedCursor <= Len(LegacyFeed)
      /\ saved \in [LegacyDocs -> SavedRecords] /\ linked \in SUBSET LegacyDocs
  BY <1>1 DEF LegacyTypeOK, BatchInOrder
<1>3. \A d \in LegacyDocs : Holds(Stored(d)', Content(savedCursor', d))
  <2>1. \A d \in LegacyDocs : Stored(d)' = Stored(d)
    BY <1>2 DEF Stored
  <2> QED
    BY <2>1, <1>1, <1>2 DEF FoldsCover
<1>4. Links(savedCursor') \subseteq linked'
  <2>1. Links(savedCursor) \subseteq Links(FoldedUpTo)
    BY <1>1, <1>2, FoldedIs, LinksGrow
  <2> QED
    BY <2>1, <1>1, <1>2 DEF FoldsCover, DueLinks
<1>5. broken' \in BOOLEAN /\ (~broken' => FALSE)
  OBVIOUS
<1> QED
  BY <1>2, <1>3, <1>4, <1>5, NoBatchKeeps

LEMMA BatchFailsKeeps ==
  ASSUME LegacyIInv, BatchFails
  PROVE  LegacyIInv'
<1>1. legacyFaults' \in Nat
  BY DEF LegacyIInv, LegacyTypeOK, BatchFails, LegacyFault
<1> QED
  BY <1>1, GivenUpKeeps DEF BatchFails

LEMMA LegacyCrashKeeps ==
  ASSUME LegacyIInv, LegacyCrash
  PROVE  LegacyIInv'
<1>1. legacyFaults' \in Nat /\ batch' = NoBatch /\ broken' = TRUE /\ kind' = kind
  BY DEF LegacyIInv, LegacyTypeOK, LegacyCrash, LegacyFault
<1>2. CASE kind = "processor"
  BY <1>1, <1>2, GivenUpKeeps DEF LegacyCrash
<1>3. CASE kind # "processor"
  <2>1. /\ saved' = [d \in LegacyDocs |-> [saved[d] EXCEPT !.known = FALSE]]
        /\ linked' = {} /\ savedCursor' = 0
    BY <1>3 DEF LegacyCrash
  <2>2. saved' \in [LegacyDocs -> SavedRecords] /\ \A d \in LegacyDocs : ~saved'[d].known
    BY <2>1 DEF LegacyIInv, LegacyTypeOK, SavedRecords
  <2>3. \A d \in LegacyDocs : Stored(d)' = <<>>
    BY <2>2 DEF Stored
  <2>4. \A d \in LegacyDocs : Holds(Stored(d)', Content(savedCursor', d))
    BY <2>1, <2>3, LeftByBegins, HoldsNothing
  <2>5. Links(savedCursor') \subseteq linked' /\ savedCursor' <= Len(LegacyFeed) /\ savedCursor' \in Nat
    BY <2>1, LeftByBegins, LegacyAssumption
  <2>6. broken' \in BOOLEAN /\ (~broken' => FALSE) /\ linked' \in SUBSET LegacyDocs
    BY <1>1, <2>1
  <2> QED
    BY <1>1, <2>2, <2>4, <2>5, <2>6, NoBatchKeeps
<1> QED
  BY <1>2, <1>3

-----------------------------------------------------------------------------
(* The steps of a batch.                                                   *)

LEMMA FoldsStay ==
  ASSUME LegacyIInv, UNCHANGED <<saved, linked, savedCursor, broken>>,
         \A d \in LegacyDocs : Loaded(d)' = Loaded(d) /\ Due(d)' = Due(d), DueLinks' = DueLinks,
         ~broken /\ batch'.phase = "fold" => ToSet(batch'.to) \subseteq CommitTargets(batch'.at)
  PROVE  FoldsCover' /\ FoldsAreExact'
<1>1. FoldsCover /\ FoldsAreExact
  BY DEF LegacyIInv
<1>2. saved' = saved /\ linked' = linked /\ savedCursor' = savedCursor /\ broken' = broken
  OBVIOUS
<1>3. \A d \in LegacyDocs : Stored(d)' = Stored(d) /\ Content(savedCursor, d)' = Content(savedCursor, d)
  BY <1>2 DEF Stored, Content
<1>4. FoldsCover'
  BY <1>1, <1>2, <1>3 DEF FoldsCover
<1>5. FoldsAreExact'
  BY <1>1, <1>2 DEF FoldsAreExact, CommitTargets, Links
<1> QED
  BY <1>4, <1>5

\* A commit whose targets are not resolved yet, or are all done.
LEMMA DueBetween ==
  ASSUME NEW n \in Nat, FoldedUpTo = n, \A d \in LegacyDocs : ~Ahead(d)
  PROVE  (\A d \in LegacyDocs : Due(d) = Content(n, d)) /\ DueLinks = Links(n)
  BY DEF Due, DueLinks

LEMMA DueBetweenNext ==
  ASSUME NEW n \in Nat, FoldedUpTo' = n, \A d \in LegacyDocs : ~Ahead(d)'
  PROVE  (\A d \in LegacyDocs : Due(d)' = Content(n, d)) /\ DueLinks' = Links(n)
<1>1. \A d \in LegacyDocs : Due(d)' = Content(n, d)
  BY DEF Due, Content
<1>2. DueLinks' = Links(n)
  BY DEF DueLinks, Links
<1> QED
  BY <1>1, <1>2

LEMMA BatchIs ==
  ASSUME LegacyTypeOK
  PROVE  \E at \in Nat, last \in Nat, to \in Seq(LegacyDocs), p \in [LegacyDocs -> PendingRecords] :
           batch = [phase |-> batch.phase, at |-> at, last |-> last, to |-> to, pending |-> p]
<1>1. batch \in BatchRecords
  BY DEF LegacyTypeOK
<1>2. batch = [phase |-> batch.phase, at |-> batch.at, last |-> batch.last, to |-> batch.to, pending |-> batch.pending]
  BY <1>1 DEF BatchRecords
<1>3. /\ batch.at \in Nat /\ batch.last \in Nat /\ batch.to \in Seq(LegacyDocs)
      /\ batch.pending \in [LegacyDocs -> PendingRecords]
  BY <1>1 DEF BatchRecords
<1> QED
  BY <1>2, <1>3

LEMMA BatchBeginsKeeps ==
  ASSUME LegacyIInv, NEW count \in 1..LegacyBatch, BatchBegins(count)
  PROVE  LegacyIInv'
<1> PICK size \in Nat : size = Len(LegacyFeed)
  BY LegacyAssumption
<1>1. LegacyTypeOK /\ BatchInOrder
  BY DEF LegacyIInv
<1>2. /\ batch.phase = "none" /\ savedCursor \in Nat /\ count \in Nat /\ count # 0 /\ savedCursor + count <= size
      /\ batch' = [NoBatch EXCEPT !.phase = "resolve", !.at = savedCursor + 1, !.last = savedCursor + count]
      /\ UNCHANGED <<kind, saved, linked, savedCursor, legacyFaults, broken>>
  BY <1>1, LegacyAssumption DEF BatchBegins, LegacyTypeOK
<1>3. PICK p : p = NoBatch.pending
  OBVIOUS
<1>4. batch' = [phase |-> "resolve", at |-> savedCursor + 1, last |-> savedCursor + count, to |-> <<>>, pending |-> p]
  <2>1. NoBatch = [phase |-> "none", at |-> 0, last |-> 0, to |-> <<>>, pending |-> p]
    BY <1>3 DEF NoBatch
  <2> QED
    BY <2>1, <1>2
<1>5. p \in [LegacyDocs -> PendingRecords] /\ \A d \in LegacyDocs : ~p[d].loaded
  BY <1>3, NoBatchIs DEF BatchRecords
<1>6. LegacyTypeOK'
  <2>1. <<>> \in Seq(LegacyDocs) /\ savedCursor + 1 \in Nat /\ savedCursor + count \in Nat
    BY <1>2, EmptySeq
  <2>2. batch' \in BatchRecords
    BY <2>1, <1>4, <1>5 DEF BatchRecords, LegacyPhases
  <2> QED
    BY <2>2, <1>1, <1>2 DEF LegacyTypeOK
<1>7. BatchInOrder'
  <2>1. IsInjective(batch'.to)
    BY <1>4 DEF IsInjective
  <2> QED
    BY <2>1, <1>1, <1>2, <1>4 DEF BatchInOrder
<1>8. FoldedUpTo = savedCursor /\ (\A d \in LegacyDocs : ~Ahead(d))
  BY <1>2 DEF FoldedUpTo, Ahead
<1>9. FoldedUpTo' = savedCursor /\ (\A d \in LegacyDocs : ~Ahead(d)')
  BY <1>2, <1>4 DEF FoldedUpTo, Ahead
<1>10. \A d \in LegacyDocs : Loaded(d)' = Loaded(d)
  <2>1. \A d \in LegacyDocs : ~batch.pending[d].loaded
    BY <1>1, <1>2 DEF BatchInOrder
  <2>2. \A d \in LegacyDocs : ~batch'.pending[d].loaded
    BY <1>4, <1>5
  <2>3. \A d \in LegacyDocs : Stored(d)' = Stored(d)
    BY <1>2 DEF Stored
  <2> QED
    BY <2>1, <2>2, <2>3, LoadedIs, LoadedIsNext
<1>11. (\A d \in LegacyDocs : Due(d)' = Due(d)) /\ DueLinks' = DueLinks
  BY <1>2, <1>8, <1>9, DueBetween, DueBetweenNext
<1>12. FoldsCover' /\ FoldsAreExact'
  BY <1>2, <1>4, <1>10, <1>11, FoldsStay
<1> QED
  BY <1>6, <1>7, <1>12 DEF LegacyIInv

LEMMA CommitResolves ==
  ASSUME LegacyIInv, Resolve
  PROVE  LegacyIInv'
<1> PICK size \in Nat : size = Len(LegacyFeed)
  BY LegacyAssumption
<1>1. LegacyTypeOK /\ BatchInOrder /\ FoldsCover /\ FoldsAreExact
  BY DEF LegacyIInv
<1>2. PICK at \in Nat, last \in Nat, old \in Seq(LegacyDocs), p \in [LegacyDocs -> PendingRecords] :
        batch = [phase |-> "resolve", at |-> at, last |-> last, to |-> old, pending |-> p]
  BY <1>1, BatchIs DEF Resolve
<1>3. PICK to : to = IF LegacyFeed[at].own THEN LegacyFeed[at].to ELSE SetToSeq(linked)
  OBVIOUS
<1>4. /\ batch' = [phase |-> "fold", at |-> at, last |-> last, to |-> to, pending |-> p]
      /\ UNCHANGED <<kind, saved, linked, savedCursor, legacyFaults, broken>>
  BY <1>2, <1>3 DEF Resolve
<1>5. at # 0 /\ at <= size /\ FoldedUpTo = at - 1 /\ at - 1 \in Nat
  BY <1>1, <1>2, FoldedIs
<1>6. LeftByAdds(at - 1, at)
  BY <1>5, LeftByIs
<1>7. LegacyFeed[at] \in Commits /\ IsInjective(LegacyFeed[at].to)
  <2>1. LegacyFeed \in Seq(Commits)
    BY LegacyAssumption DEF Commits
  <2>2. at \in DOMAIN LegacyFeed
    BY <1>5, <2>1, SeqFacts
  <2> QED
    BY <2>1, <2>2, <1>5, SeqFacts, LegacyAssumption
<1>8. DueLinks = Links(at - 1) /\ DueLinks \subseteq linked
  BY <1>1, <1>2, <1>5, DueLinksAre DEF FoldsCover
<1>9. /\ to \in Seq(LegacyDocs) /\ IsInjective(to) /\ CommitTargets(at) \subseteq ToSet(to)
      /\ ~broken => ToSet(to) \subseteq CommitTargets(at)
  <2>1. CASE LegacyFeed[at].own
    BY <2>1, <1>3, <1>7 DEF Commits, CommitTargets
  <2>2. CASE ~LegacyFeed[at].own
    <3>1. linked \in SUBSET LegacyDocs /\ IsFiniteSet(linked)
      BY <1>1, LegacyAssumption, FS_Subset DEF LegacyTypeOK
    <3>2. to = SetToSeq(linked)
      BY <2>2, <1>3
    <3>3. to \in Seq(linked) /\ (\A i, j \in 1..Len(to) : to[i] = to[j] => i = j) /\ ToSet(to) = linked
      BY <3>1, <3>2, SetAsSequence
    <3>4. IsInjective(to) /\ to \in Seq(LegacyDocs)
      BY <3>1, <3>3, SeqFacts
    <3>5. CommitTargets(at) = Links(at - 1)
      BY <2>2 DEF CommitTargets
    <3>6. ~broken => linked = Links(at - 1)
      BY <1>1, <1>8 DEF FoldsAreExact
    <3> QED
      BY <3>3, <3>4, <3>5, <3>6, <1>8
  <2> QED
    BY <2>1, <2>2
<1>10. LegacyTypeOK'
  <2>1. batch' \in BatchRecords
    BY <1>4, <1>9 DEF BatchRecords, LegacyPhases
  <2> QED
    BY <2>1, <1>1, <1>4 DEF LegacyTypeOK
<1>11. BatchInOrder'
  BY <1>1, <1>2, <1>4, <1>9 DEF BatchInOrder
<1>12. \A d \in LegacyDocs : ~Ahead(d) /\ (Ahead(d)' => d \notin CommitTargets(at))
  BY <1>2, <1>4, <1>9 DEF Ahead
<1>13. FoldedUpTo' = at - 1
  BY <1>4 DEF FoldedUpTo
<1>14. \A d \in LegacyDocs : Due(d)' = Due(d)
  <2> SUFFICES ASSUME NEW d \in LegacyDocs PROVE Due(d)' = Due(d)
    OBVIOUS
  <2>1. Due(d) = Content(at - 1, d)
    BY <1>5, <1>12, DueBetween
  <2>2. CASE Ahead(d)'
    <3>1. Due(d)' = Content(at, d)
      BY <2>2, <1>4 DEF Due, Content
    <3>2. Content(at, d) = Content(at - 1, d)
      BY <2>2, <1>6, <1>12 DEF LeftByAdds
    <3> QED
      BY <3>1, <3>2, <2>1
  <2>3. CASE ~Ahead(d)'
    BY <2>1, <2>3, <1>13 DEF Due, Content
  <2> QED
    BY <2>2, <2>3
<1>15. DueLinks' = DueLinks
  <2>1. DueLinks' = Links(FoldedUpTo)'
                    \cup {d \in LegacyDocs :
                            Ahead(d)' /\ d \in CommitTargets(batch.at)' /\ LegacyFeed[batch'.at].links}
    BY DEF DueLinks
  <2>2. CommitTargets(batch.at)' = CommitTargets(at)
    BY <1>4 DEF CommitTargets, Links
  <2>3. Links(FoldedUpTo)' = Links(at - 1)
    BY <1>13 DEF Links
  <2> QED
    BY <2>1, <2>2, <2>3, <1>8, <1>12
<1>16. \A d \in LegacyDocs : Loaded(d)' = Loaded(d)
  <2>1. \A d \in LegacyDocs : Stored(d)' = Stored(d)
    BY <1>4 DEF Stored
  <2> QED
    BY <2>1, <1>2, <1>4, LoadedIs, LoadedIsNext
<1>17. FoldsCover' /\ FoldsAreExact'
  BY <1>4, <1>9, <1>14, <1>15, <1>16, FoldsStay
<1> QED
  BY <1>10, <1>11, <1>17 DEF LegacyIInv

LEMMA CommitFoldedKeeps ==
  ASSUME LegacyIInv, CommitFolded
  PROVE  LegacyIInv'
<1> PICK size \in Nat : size = Len(LegacyFeed)
  BY LegacyAssumption
<1>1. LegacyTypeOK /\ BatchInOrder
  BY DEF LegacyIInv
<1>2. PICK at \in Nat, last \in Nat, p \in [LegacyDocs -> PendingRecords] :
        batch = [phase |-> "fold", at |-> at, last |-> last, to |-> <<>>, pending |-> p]
  BY <1>1, BatchIs DEF CommitFolded
<1>3. /\ batch' = IF at < last THEN [phase |-> "resolve", at |-> at + 1, last |-> last, to |-> <<>>, pending |-> p]
                  ELSE [phase |-> "save", at |-> at, last |-> last, to |-> <<>>, pending |-> p]
      /\ UNCHANGED <<kind, saved, linked, savedCursor, legacyFaults, broken>>
  <2>1. PICK b : b = batch
    OBVIOUS
  <2>2. b = [phase |-> "fold", at |-> at, last |-> last, to |-> <<>>, pending |-> p]
    BY <1>2, <2>1
  <2>3. batch' = IF b.at < b.last THEN [b EXCEPT !.phase = "resolve", !.at = @ + 1]
                 ELSE [b EXCEPT !.phase = "save"]
    BY <2>1 DEF CommitFolded, AfterFold
  <2>4. [b EXCEPT !.phase = "save"] = [phase |-> "save", at |-> at, last |-> last, to |-> <<>>, pending |-> p]
    BY <2>2
  <2>5. [b EXCEPT !.phase = "resolve", !.at = @ + 1]
          = [phase |-> "resolve", at |-> at + 1, last |-> last, to |-> <<>>, pending |-> p]
    <3>1. PICK n : n = at + 1
      OBVIOUS
    <3>2. PICK c : c = [b EXCEPT !.phase = "resolve"]
      OBVIOUS
    <3>3. c = [phase |-> "resolve", at |-> at, last |-> last, to |-> <<>>, pending |-> p]
      BY <2>2, <3>2
    <3>4. [c EXCEPT !.at = @ + 1] = [c EXCEPT !.at = n]
      BY <3>1, <3>3
    <3>5. [c EXCEPT !.at = n] = [phase |-> "resolve", at |-> n, last |-> last, to |-> <<>>, pending |-> p]
      BY <3>3
    <3>6. [b EXCEPT !.phase = "resolve", !.at = @ + 1] = [c EXCEPT !.at = @ + 1]
      BY <3>2
    <3> QED
      BY <3>1, <3>4, <3>5, <3>6
  <2>6. b.at = at /\ b.last = last
    BY <2>2
  <2> QED
    BY <2>3, <2>4, <2>5, <2>6 DEF CommitFolded
<1>4. /\ at # 0 /\ at <= size /\ FoldedUpTo = at - 1 /\ at - 1 \in Nat
      /\ at <= last /\ savedCursor < at /\ savedCursor \in Nat
  BY <1>1, <1>2, FoldedIs DEF BatchInOrder, LegacyTypeOK
<1>5. LeftByAdds(at - 1, at)
  BY <1>4, LeftByIs
<1>6. LegacyTypeOK'
  <2>1. <<>> \in Seq(LegacyDocs) /\ at + 1 \in Nat
    BY EmptySeq
  <2>2. batch' \in BatchRecords
    BY <1>3, <2>1 DEF BatchRecords, LegacyPhases
  <2> QED
    BY <2>2, <1>1, <1>3 DEF LegacyTypeOK
<1>7. BatchInOrder'
  <2>1. IsInjective(batch'.to)
    BY <1>3 DEF IsInjective
  <2>2. CASE at < last
    BY <2>1, <2>2, <1>1, <1>2, <1>3, <1>4 DEF BatchInOrder
  <2>3. CASE ~(at < last)
    BY <2>1, <2>3, <1>1, <1>2, <1>3, <1>4 DEF BatchInOrder
  <2> QED
    BY <2>2, <2>3
<1>8. \A d \in LegacyDocs : Ahead(d) /\ ~Ahead(d)'
  BY <1>2, <1>3 DEF Ahead, ToSet
<1>9. FoldedUpTo' = at
  <2>1. CASE at < last
    BY <2>1, <1>3, <1>4 DEF FoldedUpTo
  <2>2. CASE ~(at < last)
    BY <2>2, <1>3, <1>4 DEF FoldedUpTo
  <2> QED
    BY <2>1, <2>2
<1>10. \A d \in LegacyDocs : Due(d) = Content(at, d)
  BY <1>2, <1>8 DEF Due
<1>11. DueLinks = Links(at)
  <2>1. DueLinks = IF LegacyFeed[at].links THEN Links(at - 1) \cup (CommitTargets(at) \ ToSet(<<>>))
                   ELSE Links(at - 1)
    BY <1>1, <1>2, <1>4, DueLinksAre
  <2>2. ToSet(<<>>) = {}
    BY DEF ToSet
  <2> QED
    BY <2>1, <2>2, <1>5 DEF LeftByAdds
<1>12. (\A d \in LegacyDocs : Due(d)' = Due(d)) /\ DueLinks' = DueLinks
  BY <1>8, <1>9, <1>10, <1>11, DueBetweenNext
<1>13. \A d \in LegacyDocs : Loaded(d)' = Loaded(d)
  <2>1. \A d \in LegacyDocs : Stored(d)' = Stored(d)
    BY <1>3 DEF Stored
  <2> QED
    BY <2>1, <1>2, <1>3, LoadedIs, LoadedIsNext
<1>14. FoldsCover' /\ FoldsAreExact'
  BY <1>3, <1>12, <1>13, FoldsStay
<1> QED
  BY <1>6, <1>7, <1>14 DEF LegacyIInv

\* The first of the targets that are left, and the others.
LEMMA NextTarget ==
  ASSUME NEW to \in Seq(LegacyDocs), IsInjective(to), to # <<>>
  PROVE  /\ Head(to) \in LegacyDocs /\ Tail(to) \in Seq(LegacyDocs) /\ IsInjective(Tail(to))
         /\ Head(to) \notin ToSet(Tail(to)) /\ ToSet(to) = {Head(to)} \cup ToSet(Tail(to))
<1> PICK m \in Nat : m = Len(to)
  OBVIOUS
<1>1. DOMAIN to = 1..m /\ m # 0
  OBVIOUS
<1> PICK rest : rest = Tail(to)
  OBVIOUS
<1>2. rest \in Seq(LegacyDocs) /\ Len(rest) = m - 1 /\ \A i \in 1..(m - 1) : rest[i] = to[i + 1]
  BY <1>1
<1>3. DOMAIN rest = 1..(m - 1) /\ Head(to) = to[1] /\ 1 \in 1..m
  BY <1>1, <1>2
<1>4. \A i, j \in 1..m : to[i] = to[j] => i = j
  BY <1>1 DEF IsInjective
<1>5. IsInjective(rest)
  <2> SUFFICES ASSUME NEW i \in 1..(m - 1), NEW j \in 1..(m - 1), rest[i] = rest[j] PROVE i = j
    BY <1>3 DEF IsInjective
  <2>1. to[i + 1] = to[j + 1] /\ i + 1 \in 1..m /\ j + 1 \in 1..m
    BY <1>2
  <2>2. i + 1 = j + 1
    BY <2>1, <1>4
  <2> QED
    BY <2>2
<1>6. Head(to) \notin ToSet(rest)
  <2> SUFFICES ASSUME NEW i \in 1..(m - 1), rest[i] = to[1] PROVE FALSE
    BY <1>3 DEF ToSet
  <2>1. to[i + 1] = to[1] /\ i + 1 \in 1..m /\ i + 1 # 1
    BY <1>2
  <2> QED
    BY <2>1, <1>3, <1>4
<1>7. ToSet(to) = {Head(to)} \cup ToSet(rest)
  <2>1. ASSUME NEW x \in ToSet(to) PROVE x \in {to[1]} \cup ToSet(rest)
    <3> PICK i \in 1..m : x = to[i]
      BY <1>1 DEF ToSet
    <3>1. CASE i = 1
      BY <3>1
    <3>2. CASE i # 1
      <4>1. PICK j \in 1..(m - 1) : i = j + 1
        BY <3>2
      <4>2. x = rest[j]
        BY <4>1, <1>2
      <4> QED
        BY <4>2, <1>3 DEF ToSet
    <3> QED
      BY <3>1, <3>2
  <2>2. ASSUME NEW x \in ToSet(rest) PROVE x \in ToSet(to)
    <3> PICK j \in 1..(m - 1) : x = rest[j]
      BY <1>3 DEF ToSet
    <3>1. x = to[j + 1] /\ j + 1 \in 1..m
      BY <1>2
    <3> QED
      BY <3>1, <1>1 DEF ToSet
  <2>3. to[1] \in ToSet(to)
    BY <1>1, <1>3 DEF ToSet
  <2> QED
    BY <2>1, <2>2, <2>3, <1>3
<1>8. Head(to) \in LegacyDocs
  BY <1>1
<1> QED
  BY <1>2, <1>5, <1>6, <1>7, <1>8

LEMMA OtherTargets ==
  ASSUME NEW at, NEW last, NEW to, NEW rest, NEW p
  PROVE  [[phase |-> "fold", at |-> at, last |-> last, to |-> to, pending |-> p] EXCEPT !.to = rest]
           = [phase |-> "fold", at |-> at, last |-> last, to |-> rest, pending |-> p]
OBVIOUS

LEMMA FoldTargetKeeps ==
  ASSUME LegacyIInv, FoldTarget
  PROVE  LegacyIInv'
<1> PICK size \in Nat : size = Len(LegacyFeed)
  BY LegacyAssumption
<1>1. LegacyTypeOK /\ BatchInOrder /\ FoldsCover /\ FoldsAreExact
  BY DEF LegacyIInv
<1>2. PICK at \in Nat, last \in Nat, to \in Seq(LegacyDocs), p \in [LegacyDocs -> PendingRecords] :
        batch = [phase |-> "fold", at |-> at, last |-> last, to |-> to, pending |-> p]
  BY <1>1, BatchIs DEF FoldTarget
<1>3. to # <<>> /\ IsInjective(to)
  BY <1>1, <1>2 DEF FoldTarget, BatchInOrder
<1>4. PICK first \in LegacyDocs, rest \in Seq(LegacyDocs) : first = Head(to) /\ rest = Tail(to)
  BY <1>3, NextTarget
<1>rest. IsInjective(rest) /\ first \notin ToSet(rest) /\ ToSet(to) = {first} \cup ToSet(rest)
  BY <1>3, <1>4, NextTarget
<1>5. PICK had \in Seq(Nat), content \in Seq(Nat) : had = Loaded(first) /\ content = Append(had, at)
  BY <1>1, <1>2, DueIs, AppendFacts
<1>6. PICK q : q = [p EXCEPT ![first] = [loaded |-> TRUE, content |-> content]]
  OBVIOUS
<1>7. /\ batch' = [phase |-> "fold", at |-> at, last |-> last, to |-> rest, pending |-> q]
      /\ saved' = Shared(first, content)
      /\ linked' = IF LegacyFeed[at].links THEN linked \cup {first} ELSE linked
      /\ UNCHANGED <<kind, savedCursor, legacyFaults, broken>>
  <2>1. batch.at = at /\ Head(batch.to) = first /\ Append(Loaded(Head(batch.to)), batch.at) = content
    BY <1>2, <1>4, <1>5
  <2>2. batch' = [batch EXCEPT !.to = Tail(@), !.pending[first] = [loaded |-> TRUE, content |-> content]]
    BY <2>1 DEF FoldTarget
  <2>3. PICK b : b = [phase |-> "fold", at |-> at, last |-> last, to |-> rest, pending |-> p]
    OBVIOUS
  <2>4. [batch EXCEPT !.to = Tail(@)] = b
    <3>1. PICK a : a = batch
      OBVIOUS
    <3>2. a = [phase |-> "fold", at |-> at, last |-> last, to |-> to, pending |-> p]
      BY <3>1, <1>2
    <3>3. [a EXCEPT !.to = Tail(@)] = [a EXCEPT !.to = rest]
      BY <3>2, <1>4
    <3>4. [a EXCEPT !.to = rest] = b
      <4>1. [[phase |-> "fold", at |-> at, last |-> last, to |-> to, pending |-> p] EXCEPT !.to = rest]
              = [phase |-> "fold", at |-> at, last |-> last, to |-> rest, pending |-> p]
        BY ONLY OtherTargets
      <4> QED
        BY ONLY SMTT(30), <4>1, <3>2, <2>3
    <3> QED
      BY <3>1, <3>3, <3>4
  <2>5. batch' = [b EXCEPT !.pending[first] = [loaded |-> TRUE, content |-> content]]
    BY <2>2, <2>4
  <2>6. batch' = [phase |-> "fold", at |-> at, last |-> last, to |-> rest, pending |-> q]
    BY <2>3, <2>5, <1>6
  <2> QED
    BY <2>1, <2>6 DEF FoldTarget
<1>8. /\ q \in [LegacyDocs -> PendingRecords] /\ q[first].loaded /\ q[first].content = content
      /\ \A d \in LegacyDocs : d # first => q[d] = p[d]
  <2>1. [loaded |-> TRUE, content |-> content] \in PendingRecords
    BY DEF PendingRecords
  <2> QED
    BY <2>1, <1>2, <1>6
<1>9. at # 0 /\ at <= size /\ FoldedUpTo = at - 1 /\ at - 1 \in Nat
  BY <1>1, <1>2, FoldedIs
<1>10. LeftByAdds(at - 1, at) /\ LeftByTyped(at - 1)
  BY <1>9, LeftByIs
<1>11. /\ saved' \in [LegacyDocs -> SavedRecords]
       /\ \A d \in LegacyDocs : /\ saved'[d].known = saved[d].known /\ (d # first => saved'[d] = saved[d])
                                /\ ~saved[d].known => saved'[d] = saved[d]
       /\ saved'[first] = saved[first] \/ saved'[first].content = content
  <2>1. CASE kind = "daemon" /\ saved[first].known
    <3>1. saved' = [saved EXCEPT ![first].content = content]
      BY <2>1, <1>7 DEF Shared
    <3>2. saved \in [LegacyDocs -> SavedRecords]
      BY <1>1 DEF LegacyTypeOK
    <3> QED
      BY <2>1, <3>1, <3>2 DEF SavedRecords
  <2>2. CASE ~(kind = "daemon" /\ saved[first].known)
    BY <2>2, <1>1, <1>7 DEF Shared, LegacyTypeOK
  <2> QED
    BY <2>1, <2>2
<1>12. LegacyTypeOK'
  <2>1. batch' \in BatchRecords
    BY <1>4, <1>7, <1>8 DEF BatchRecords, LegacyPhases
  <2>2. linked' \in SUBSET LegacyDocs
    BY <1>1, <1>7 DEF LegacyTypeOK
  <2> QED
    BY <2>1, <2>2, <1>1, <1>7, <1>11 DEF LegacyTypeOK
<1>13. BatchInOrder'
  BY <1>1, <1>2, <1>rest, <1>7 DEF BatchInOrder
<1>14. FoldedUpTo' = at - 1
  BY <1>7 DEF FoldedUpTo
<1>15. /\ ~Ahead(first) /\ Ahead(first)'
       /\ \A d \in LegacyDocs : d # first => (Ahead(d)' <=> Ahead(d))
  BY <1>2, <1>rest, <1>7 DEF Ahead
<1>16. /\ Due(first) = Content(at - 1, first) /\ Due(first)' = Content(at, first)
       /\ \A d \in LegacyDocs : d # first => Due(d)' = Due(d)
  <2>1. Due(first) = Content(at - 1, first)
    BY <1>9, <1>15 DEF Due
  <2>2. Due(first)' = Content(at, first)
    BY <1>7, <1>15 DEF Due, Content
  <2>3. \A d \in LegacyDocs : Due(d)' = Content(IF Ahead(d)' THEN at ELSE at - 1, d)
    BY <1>7, <1>14 DEF Due, Content
  <2>4. \A d \in LegacyDocs : Due(d) = Content(IF Ahead(d) THEN at ELSE at - 1, d)
    BY <1>2, <1>9 DEF Due
  <2> QED
    BY <2>1, <2>2, <2>3, <2>4, <1>15
<1>17. /\ Loaded(first)' = content
       /\ \A d \in LegacyDocs : d # first => Loaded(d)' = Loaded(d) /\ Stored(d)' = Stored(d)
       /\ Stored(first)' = Stored(first) \/ Stored(first)' = content
  <2>1. Loaded(first)' = content
    BY <1>7, <1>8, LoadedIsNext
  <2>2. \A d \in LegacyDocs : d # first => Stored(d)' = Stored(d)
    BY <1>11 DEF Stored
  <2>3. \A d \in LegacyDocs : d # first => Loaded(d)' = Loaded(d)
    BY <2>2, <1>2, <1>7, <1>8, LoadedIs, LoadedIsNext
  <2>4. Stored(first)' = Stored(first) \/ Stored(first)' = content
    BY <1>11 DEF Stored
  <2> QED
    BY <2>1, <2>2, <2>3, <2>4
<1>18. DueLinks' = IF first \in CommitTargets(at) /\ LegacyFeed[at].links THEN DueLinks \cup {first}
                  ELSE DueLinks
  <2>1. /\ Links(FoldedUpTo)' = Links(at - 1) /\ Links(FoldedUpTo) = Links(at - 1)
        /\ CommitTargets(batch.at)' = CommitTargets(at)
    BY <1>7, <1>9, <1>14 DEF Links, CommitTargets
  <2>2. DueLinks = Links(at - 1)
                   \cup {d \in LegacyDocs : Ahead(d) /\ d \in CommitTargets(at) /\ LegacyFeed[at].links}
    BY <2>1, <1>2 DEF DueLinks
  <2>3. DueLinks' = Links(FoldedUpTo)'
                    \cup {d \in LegacyDocs :
                            Ahead(d)' /\ d \in CommitTargets(batch.at)' /\ LegacyFeed[batch'.at].links}
    BY DEF DueLinks
  <2>4. DueLinks' = Links(at - 1)
                    \cup {d \in LegacyDocs : Ahead(d)' /\ d \in CommitTargets(at) /\ LegacyFeed[at].links}
    BY <2>1, <2>3, <1>7
  <2> QED
    BY <2>2, <2>4, <1>15
<1>19. /\ Holds(had, Due(first)) /\ Holds(had, Content(savedCursor, first))
       /\ Content(savedCursor, first) \in Seq(Nat)
       /\ Holds(Stored(first), Content(savedCursor, first))
  BY <1>1, <1>5, DueIs DEF FoldsCover
<1>20. FoldsCover'
  <2>1. Holds(content, Content(at, first))
    <3>1. Holds(had, Content(at - 1, first)) /\ Content(at - 1, first) \in Seq(Nat)
      BY <1>10, <1>16, <1>19 DEF LeftByTyped
    <3>2. CASE first \in CommitTargets(at)
      <4>1. Content(at, first) = Append(Content(at - 1, first), at)
        BY <3>2, <1>10 DEF LeftByAdds
      <4> QED
        BY <3>1, <4>1, <1>5, HoldsNext
    <3>3. CASE first \notin CommitTargets(at)
      <4>1. Content(at, first) = Content(at - 1, first)
        BY <3>3, <1>10 DEF LeftByAdds
      <4> QED
        BY <3>1, <4>1, <1>5, HoldsLonger
    <3> QED
      BY <3>2, <3>3
  <2>2. \A d \in LegacyDocs : Holds(Loaded(d)', Due(d)')
    BY <2>1, <1>1, <1>16, <1>17 DEF FoldsCover
  <2>3. Holds(content, Content(savedCursor, first))
    BY <1>5, <1>19, HoldsLonger
  <2>4. \A d \in LegacyDocs : Holds(Stored(d)', Content(savedCursor, d))
    BY <2>3, <1>1, <1>17, <1>19 DEF FoldsCover
  <2>5. \A d \in LegacyDocs : Content(savedCursor, d)' = Content(savedCursor, d)
    BY <1>7 DEF Content
  <2>6. DueLinks' \subseteq linked'
    BY <1>1, <1>7, <1>18 DEF FoldsCover
  <2>7. \A d \in LegacyDocs : Holds(Loaded(d)', Due(d)') /\ Holds(Stored(d)', Content(savedCursor, d)')
    BY <2>2, <2>4, <2>5
  <2> QED
    BY <2>6, <2>7 DEF FoldsCover
<1>21. FoldsAreExact'
  <2> SUFFICES ASSUME ~broken'
               PROVE  /\ \A d \in LegacyDocs : Loaded(d)' = Due(d)' /\ (~saved'[d].known => saved'[d].content = <<>>)
                      /\ linked' = DueLinks'
                      /\ batch'.phase = "fold" => ToSet(batch'.to) \subseteq CommitTargets(batch.at)'
    BY DEF FoldsAreExact
  <2>1. /\ \A d \in LegacyDocs : Loaded(d) = Due(d) /\ (~saved[d].known => saved[d].content = <<>>)
        /\ linked = DueLinks /\ ToSet(to) \subseteq CommitTargets(at)
    BY <1>1, <1>2, <1>7 DEF FoldsAreExact
  <2>2. first \in CommitTargets(at) /\ ToSet(rest) \subseteq CommitTargets(at)
    BY <2>1, <1>rest
  <2>3. Loaded(first)' = Due(first)'
    <3>1. had = Content(at - 1, first)
      BY <2>1, <1>5, <1>16
    <3> QED
      BY <3>1, <2>2, <1>5, <1>10, <1>16, <1>17 DEF LeftByAdds
  <2>4. \A d \in LegacyDocs : Loaded(d)' = Due(d)'
    BY <2>1, <2>3, <1>16, <1>17
  <2>5. \A d \in LegacyDocs : ~saved'[d].known => saved'[d].content = <<>>
    BY <2>1, <1>11
  <2>6. linked' = DueLinks'
    BY <2>1, <2>2, <1>7, <1>18
  <2>7. CommitTargets(batch.at)' = CommitTargets(at)
    BY <1>7 DEF CommitTargets, Links
  <2> QED
    BY <2>2, <2>4, <2>5, <2>6, <2>7, <1>7
<1> QED
  BY <1>12, <1>13, <1>20, <1>21 DEF LegacyIInv

LEMMA SaveDocumentKeeps ==
  ASSUME LegacyIInv, NEW doc \in LegacyDocs, SaveDocument(doc)
  PROVE  LegacyIInv'
<1>1. LegacyTypeOK /\ BatchInOrder /\ FoldsCover /\ FoldsAreExact
  BY DEF LegacyIInv
<1>2. PICK at \in Nat, last \in Nat, to \in Seq(LegacyDocs), p \in [LegacyDocs -> PendingRecords] :
        batch = [phase |-> "save", at |-> at, last |-> last, to |-> to, pending |-> p]
  BY <1>1, BatchIs DEF SaveDocument
<1>3. PICK q : q = [p EXCEPT ![doc] = NoPending]
  OBVIOUS
<1>4. PICK content \in Seq(Nat) : content = p[doc].content
  BY <1>2 DEF PendingRecords
<1>5. /\ p[doc].loaded
      /\ batch' = [phase |-> "save", at |-> at, last |-> last, to |-> to, pending |-> q]
      /\ saved' = [saved EXCEPT ![doc] = [content |-> content, known |-> TRUE]]
      /\ UNCHANGED <<kind, linked, savedCursor, legacyFaults, broken>>
  BY <1>2, <1>3, <1>4 DEF SaveDocument
<1>6. /\ q \in [LegacyDocs -> PendingRecords] /\ ~q[doc].loaded /\ \A d \in LegacyDocs : d # doc => q[d] = p[d]
  <2>1. NoPending \in PendingRecords /\ ~NoPending.loaded
    BY EmptySeq DEF NoPending, PendingRecords
  <2> QED
    BY <2>1, <1>2, <1>3
<1>7. /\ saved' \in [LegacyDocs -> SavedRecords] /\ saved'[doc].known /\ saved'[doc].content = content
      /\ \A d \in LegacyDocs : d # doc => saved'[d] = saved[d]
  <2>1. saved \in [LegacyDocs -> SavedRecords] /\ [content |-> content, known |-> TRUE] \in SavedRecords
    BY <1>1 DEF LegacyTypeOK, SavedRecords
  <2> QED
    BY <2>1, <1>5
<1>8. LegacyTypeOK'
  <2>1. batch' \in BatchRecords
    BY <1>5, <1>6 DEF BatchRecords, LegacyPhases
  <2> QED
    BY <2>1, <1>1, <1>5, <1>7 DEF LegacyTypeOK
<1>9. BatchInOrder'
  BY <1>1, <1>2, <1>5 DEF BatchInOrder
<1>10. /\ FoldedUpTo = last /\ FoldedUpTo' = last
       /\ (\A d \in LegacyDocs : ~Ahead(d)) /\ (\A d \in LegacyDocs : ~Ahead(d)')
  BY <1>2, <1>5 DEF FoldedUpTo, Ahead
<1>11. (\A d \in LegacyDocs : Due(d)' = Due(d)) /\ DueLinks' = DueLinks
  BY <1>10, DueBetween, DueBetweenNext
<1>12. /\ Loaded(doc) = content /\ Stored(doc)' = content
       /\ \A d \in LegacyDocs : d # doc => Stored(d)' = Stored(d)
  BY <1>2, <1>4, <1>5, <1>7, LoadedIs DEF Stored
<1>13. \A d \in LegacyDocs : Loaded(d)' = Loaded(d)
  BY <1>2, <1>5, <1>6, <1>12, LoadedIs, LoadedIsNext
<1>14. FoldsCover'
  <2>1. Holds(content, Content(savedCursor, doc))
    BY <1>1, <1>12, DueIs DEF FoldsCover
  <2>2. \A d \in LegacyDocs : Holds(Stored(d)', Content(savedCursor, d))
    BY <2>1, <1>1, <1>12 DEF FoldsCover
  <2>3. \A d \in LegacyDocs : Content(savedCursor, d)' = Content(savedCursor, d)
    BY <1>5 DEF Content
  <2>4. \A d \in LegacyDocs : Holds(Loaded(d)', Due(d)') /\ Holds(Stored(d)', Content(savedCursor, d)')
    BY <2>2, <2>3, <1>1, <1>11, <1>13 DEF FoldsCover
  <2>5. DueLinks' \subseteq linked'
    BY <1>1, <1>5, <1>11 DEF FoldsCover
  <2> QED
    BY <2>4, <2>5 DEF FoldsCover
<1>15. FoldsAreExact'
  BY <1>1, <1>5, <1>7, <1>11, <1>13 DEF FoldsAreExact
<1> QED
  BY <1>8, <1>9, <1>14, <1>15 DEF LegacyIInv

LEMMA SaveCursorKeeps ==
  ASSUME LegacyIInv, SaveCursor
  PROVE  LegacyIInv'
<1>1. LegacyTypeOK /\ BatchInOrder /\ FoldsCover /\ FoldsAreExact
  BY DEF LegacyIInv
<1>2. PICK at \in Nat, last \in Nat, to \in Seq(LegacyDocs), p \in [LegacyDocs -> PendingRecords] :
        batch = [phase |-> batch.phase, at |-> at, last |-> last, to |-> to, pending |-> p]
  BY <1>1, BatchIs
<1>3. batch.phase = "save" /\ (\A d \in LegacyDocs : ~batch.pending[d].loaded)
  BY <1>1 DEF SaveCursor, LegacyTypeOK, BatchRecords, LegacyPhases
<1>4. /\ savedCursor' = last /\ batch' = NoBatch /\ UNCHANGED <<kind, saved, linked, legacyFaults, broken>>
      /\ batch.last = last
  BY <1>2, <1>3 DEF SaveCursor
<1>5. FoldedUpTo = last /\ (\A d \in LegacyDocs : ~Ahead(d))
  BY <1>3, <1>4 DEF FoldedUpTo, Ahead
<1>6. (\A d \in LegacyDocs : Due(d) = Content(last, d)) /\ DueLinks = Links(last)
  BY <1>5, DueBetween
<1>7. \A d \in LegacyDocs : Loaded(d) = Stored(d) /\ Stored(d)' = Stored(d)
  BY <1>3, <1>4, LoadedIs DEF Stored
<1>8. /\ legacyFaults' \in Nat /\ broken' \in BOOLEAN
      /\ saved' \in [LegacyDocs -> SavedRecords] /\ linked' \in SUBSET LegacyDocs
      /\ kind' = kind /\ savedCursor' \in Nat /\ savedCursor' <= Len(LegacyFeed)
  BY <1>1, <1>4 DEF LegacyTypeOK, BatchInOrder
<1>9. (\A d \in LegacyDocs : Holds(Stored(d)', Content(savedCursor', d))) /\ Links(savedCursor') \subseteq linked'
  BY <1>1, <1>4, <1>6, <1>7 DEF FoldsCover
<1>10. ~broken' => /\ \A d \in LegacyDocs : /\ Stored(d)' = Content(savedCursor', d)
                                            /\ ~saved'[d].known => saved'[d].content = <<>>
                   /\ linked' = Links(savedCursor')
  BY <1>1, <1>4, <1>6, <1>7 DEF FoldsAreExact
<1> QED
  BY <1>4, <1>8, <1>9, <1>10, NoBatchKeeps

LEMMA LegacyBegins ==
  ASSUME LegacyInit
  PROVE  LegacyIInv
<1>1. /\ kind \in {"processor", "daemon"} /\ linked = {} /\ savedCursor = 0 /\ batch = NoBatch
      /\ legacyFaults = 0 /\ broken = FALSE
      /\ saved = [d \in LegacyDocs |-> [content |-> <<>>, known |-> FALSE]]
  BY DEF LegacyInit
<1>2. /\ saved \in [LegacyDocs -> SavedRecords]
      /\ \A d \in LegacyDocs : ~saved[d].known /\ saved[d].content = <<>>
  <2>1. [content |-> <<>>, known |-> FALSE] \in SavedRecords
    BY EmptySeq DEF SavedRecords
  <2> QED
    BY <2>1, <1>1
<1>3. batch \in BatchRecords /\ batch.phase = "none" /\ batch.last = 0 /\ batch.to = <<>>
      /\ \A d \in LegacyDocs : ~batch.pending[d].loaded
  BY <1>1, NoBatchIs
<1>4. LegacyTypeOK
  BY <1>1, <1>2, <1>3 DEF LegacyTypeOK
<1>5. BatchInOrder
  <2>1. 0 <= Len(LegacyFeed)
    BY LegacyAssumption
  <2>2. IsInjective(batch.to)
    BY <1>3 DEF IsInjective
  <2> QED
    BY <1>1, <1>3, <2>1, <2>2 DEF BatchInOrder
<1>6. FoldedUpTo = 0 /\ (\A d \in LegacyDocs : ~Ahead(d))
  BY <1>1, <1>3 DEF FoldedUpTo, Ahead
<1>7. (\A d \in LegacyDocs : Due(d) = Content(0, d)) /\ DueLinks = Links(0)
  BY <1>6, DueBetween
<1>8. \A d \in LegacyDocs : Stored(d) = <<>> /\ Loaded(d) = <<>>
  BY <1>2, <1>3, LoadedIs DEF Stored
<1>9. FoldsCover
  BY <1>1, <1>7, <1>8, LeftByBegins, HoldsNothing DEF FoldsCover
<1>10. FoldsAreExact
  BY <1>1, <1>2, <1>3, <1>7, <1>8, LeftByBegins DEF FoldsAreExact
<1> QED
  BY <1>4, <1>5, <1>9, <1>10 DEF LegacyIInv

LEMMA LegacyStutters ==
  ASSUME LegacyIInv, UNCHANGED legacyVars
  PROVE  LegacyIInv'
<1>1. /\ kind' = kind /\ saved' = saved /\ linked' = linked /\ savedCursor' = savedCursor /\ batch' = batch
      /\ legacyFaults' = legacyFaults /\ broken' = broken
  BY DEF legacyVars
<1>2. LegacyTypeOK' /\ BatchInOrder'
  BY <1>1 DEF LegacyIInv, LegacyTypeOK, BatchInOrder
<1>3. FoldedUpTo' = FoldedUpTo /\ \A d \in LegacyDocs : Ahead(d)' = Ahead(d)
  BY <1>1 DEF FoldedUpTo, Ahead
<1>4. \A d \in LegacyDocs : Stored(d)' = Stored(d) /\ Due(d)' = Due(d)
  BY <1>1, <1>3 DEF Stored, Due, Content
<1>5. \A d \in LegacyDocs : Loaded(d)' = Loaded(d)
  BY <1>1, <1>4, LoadedIs, LoadedIsNext
<1>6. DueLinks' = DueLinks
  BY <1>1, <1>3 DEF DueLinks, Links, CommitTargets
<1>7. ~broken /\ batch'.phase = "fold" => ToSet(batch'.to) \subseteq CommitTargets(batch'.at)
  BY <1>1 DEF LegacyIInv, FoldsAreExact
<1>8. FoldsCover' /\ FoldsAreExact'
  BY <1>1, <1>4, <1>5, <1>6, <1>7, FoldsStay
<1> QED
  BY <1>2, <1>8 DEF LegacyIInv

LEMMA LegacyInductive ==
  ASSUME LegacyIInv, [LegacyNext]_legacyVars
  PROVE  LegacyIInv'
BY BatchBeginsKeeps, CommitResolves, FoldTargetKeeps, CommitFoldedKeeps, SaveDocumentKeeps, SaveCursorKeeps,
   BatchFailsKeeps, LegacyCrashKeeps, LegacyStutters DEF LegacyNext

\* What a document holds: the store may keep a content that is started afresh.
LEMMA WhatIsStoredCovers ==
  ASSUME LegacyIInv
  PROVE  DocumentsCoverTheCursor
<1>1. LegacyTypeOK /\ BatchInOrder /\ FoldsCover /\ FoldsAreExact
  BY DEF LegacyIInv
<1> SUFFICES ASSUME NEW d \in LegacyDocs
             PROVE  /\ HeldOf(Content(savedCursor, d), saved[d].content) = Len(Content(savedCursor, d))
                    /\ batch.phase = "none" /\ ~broken => saved[d].content = Content(savedCursor, d)
  BY DEF DocumentsCoverTheCursor, Content
<1>2. saved[d].content \in Seq(Nat) /\ Content(savedCursor, d) \in Seq(Nat)
  BY <1>1, DueIs DEF LegacyTypeOK, SavedRecords
<1>3. Holds(saved[d].content, Content(savedCursor, d))
  <2>1. CASE saved[d].known
    BY <2>1, <1>1 DEF FoldsCover, Stored
  <2>2. CASE ~saved[d].known
    <3>1. Holds(<<>>, Content(savedCursor, d))
      BY <2>2, <1>1 DEF FoldsCover, Stored
    <3>2. Content(savedCursor, d) = <<>>
      BY <3>1, <1>2, NothingHolds
    <3> QED
      BY <3>2, HoldsNothing
  <2> QED
    BY <2>1, <2>2
<1>4. ASSUME batch.phase = "none", ~broken PROVE saved[d].content = Content(savedCursor, d)
  <2>1. FoldedUpTo = savedCursor /\ ~Ahead(d) /\ ~batch.pending[d].loaded
    BY <1>1, <1>4 DEF FoldedUpTo, Ahead, BatchInOrder
  <2>2. Stored(d) = Content(savedCursor, d)
    BY <2>1, <1>1, <1>4, LoadedIs DEF FoldsAreExact, Due
  <2>3. ~saved[d].known => saved[d].content = <<>>
    BY <1>1, <1>4 DEF FoldsAreExact
  <2> QED
    BY <2>2, <2>3 DEF Stored
<1> QED
  BY <1>2, <1>3, <1>4, HoldsIsHeld

(* For every feed, batch size and number of faults: however a batch is cut  *)
(* and wherever it breaks off, a document of packages/projection-runtime    *)
(* holds, in order, at least what the commits up to the cursor leave, and   *)
(* exactly that between batches while none broke off.                       *)
THEOREM DocumentsCoverAnyCursor == LegacySpec => []DocumentsCoverTheCursor
<1>1. LegacyInit => LegacyIInv
  BY LegacyBegins
<1>2. LegacyIInv /\ [LegacyNext]_legacyVars => LegacyIInv'
  BY LegacyInductive
<1>3. LegacyIInv => DocumentsCoverTheCursor
  BY WhatIsStoredCovers
<1> QED
  BY <1>1, <1>2, <1>3, PTL DEF LegacySpec

=============================================================================
