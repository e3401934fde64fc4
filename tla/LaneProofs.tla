------------------------------ MODULE LaneProofs ------------------------------
(***************************************************************************)
(* Proofs about the places that decide whose turn it is: the lanes of       *)
(* LaneScheduler, for any number of runs, keys and lane objects; the        *)
(* command router of SagaInbound, for any calls, lanes, barriers, commands; *)
(* the rounds of SchedulerPolicy, for any tenants, weights and queues; the  *)
(* dispatches of SagaBridge, for any events, handlers and restarts; the     *)
(* drains of SagaScheduler, for any triggers, intervals and times; and the  *)
(* histories of AuditHistory, for any records, pages and growth.            *)
(***************************************************************************)
EXTENDS LaneScheduler, SagaInbound, SchedulerPolicy, SagaBridge, AuditHistory, FiniteSetTheorems,
        SequenceTheorems, WellFoundedInduction, TLAPS

-----------------------------------------------------------------------------
(* The lanes of LaneScheduler.                                             *)


(* The holders of a key are finitely many and active.                       *)
LEMMA HoldersFinite ==
  ASSUME IInv, NEW k \in Keys
  PROVE  /\ IsFiniteSet(Holders(k))
         /\ Cardinality(Holders(k)) \in Nat
         /\ Holders(k) \subseteq Active
<1>1. Holders(k) \subseteq Runs  BY DEF Holders
<1>2. IsFiniteSet(Holders(k))  BY <1>1, LanesAssumption, FS_Subset
<1>3. Holders(k) \subseteq Active
  BY DEF IInv, IdleHoldsNothing, KeysOf, Holders, Active
<1> QED  BY <1>2, <1>3, FS_CardinalityType

(* The initial state: nobody holds anything.                                *)
LEMMA InitIInv == Init => IInv
<1> SUFFICES ASSUME Init PROVE IInv  OBVIOUS
<1>1. \A r \in Runs : KeysOf(r) = {}  BY LanesAssumption DEF Init, KeysOf
<1>2. \A k \in Keys : Holders(k) = {}  BY LanesAssumption DEF Init, Holders
<1>3. TypeOK  BY DEF Init, TypeOK, States
<1>4. FifoExclusion  BY DEF Init, FifoExclusion
<1>5. LanesAreShared  BY <1>2 DEF Init, LanesAreShared
<1>6. CallsAreOrdered  BY DEF Init, CallsAreOrdered, Active
<1>7. IdleHoldsNothing  BY <1>1 DEF IdleHoldsNothing
<1>8. PendingCountsHolders  BY DEF Init, PendingCountsHolders
<1>9. TailIsYoungest  BY DEF Init, TailIsYoungest
<1>10. PreviousIsNextOlder  BY <1>2 DEF PreviousIsNextOlder
<1> QED
  BY <1>3, <1>4, <1>5, <1>6, <1>7, <1>8, <1>9, <1>10 DEF IInv

(* A call adds one youngest run and touches only the keys it names.         *)
LEMMA CallIInv ==
  ASSUME IInv, NEW r \in Runs, NEW ks \in SUBSET Keys, Call(r, ks)
  PROVE  IInv'
<1>1. PICK fresh \in [Keys -> Objects] : Reserve(r, ks, fresh)  BY DEF Call
<1> DEFINE lane(k) == LaneOf(k, fresh)
<1>2. TypeOK /\ state[r] = "idle" /\ r \notin Active  BY DEF IInv, Call, Active
<1>3. \A k \in Keys : lane(k) \in Objects /\ lane(k) # NoLane
  BY <1>2, LanesAssumption DEF LaneOf, TypeOK
<1>4. \A k \in Keys : r \notin Holders(k)
  BY <1>2 DEF IInv, IdleHoldsNothing, KeysOf, Holders
<1>5. Active' = Active \cup {r}
  BY <1>2 DEF Call, Active, TypeOK, States
<1>6. \A x \in Runs, k \in Keys :
        held'[x][k] = IF x # r THEN held[x][k]
                      ELSE IF k \in ks THEN lane(k) ELSE NoLane
  BY <1>1, <1>2 DEF Reserve, TypeOK
<1>7. \A k \in Keys :
        Holders(k)' = IF k \in ks THEN Holders(k) \cup {r} ELSE Holders(k)
  BY <1>3, <1>4, <1>6 DEF Holders
<1>8. \A k \in Keys : lanes'[k] = IF k \in ks THEN lane(k) ELSE lanes[k]
  BY <1>1 DEF Reserve
<1>9. \A x \in Runs, k \in Keys :
        previous'[x][k] = IF x # r THEN previous[x][k]
                          ELSE IF k \in ks THEN PreviousOf(k) ELSE Resolved
  BY <1>1, <1>2 DEF Reserve, TypeOK
<1>10. before' = before \cup (Active \X {r})  BY DEF Call
<1>11. \A x, y \in Runs : <<x, y>> \in before' <=>
         <<x, y>> \in before \/ (x \in Active /\ y = r)
  BY <1>10
<1>12. \A x, y \in Runs : <<x, y>> \in before => x # r /\ y # r
  BY <1>2 DEF IInv, CallsAreOrdered
<1>13. TypeOK'
  <2>1. lanes' \in [Keys -> Objects \cup {NoLane}]
    BY <1>1, <1>2, <1>3 DEF Reserve, TypeOK
  <2>2. tail' \in [Keys -> [Objects -> Runs \cup {Resolved}]]
    BY <1>1, <1>2 DEF Reserve, TypeOK
  <2>3. pending' \in [Keys -> [Objects -> Nat]]
    <3>1. \A k \in Keys, o \in Objects : Counted(k, o) \in Nat
      BY <1>2 DEF TypeOK, Counted
    <3> QED  BY <1>1, <1>2, <3>1 DEF Reserve, TypeOK
  <2>4. held' \in [Runs -> [Keys -> Objects \cup {NoLane}]]
    BY <1>1, <1>2, <1>3 DEF Reserve, TypeOK
  <2>5. \A k \in Keys : PreviousOf(k) \in Runs \cup {Resolved}
    BY <1>2 DEF TypeOK, PreviousOf
  <2>6. previous' \in [Runs -> [Keys -> Runs \cup {Resolved}]]
    BY <1>1, <1>2, <2>5 DEF Reserve, TypeOK
  <2>7. state' \in [Runs -> States]  BY <1>2 DEF Call, TypeOK, States
  <2>8. before' \in SUBSET (Runs \X Runs)  BY <1>2, <1>10 DEF TypeOK, Active
  <2> QED  BY <2>1, <2>2, <2>3, <2>4, <2>6, <2>7, <2>8 DEF TypeOK
<1>14. FifoExclusion'
  <2> SUFFICES ASSUME NEW x \in Runs, NEW y \in Runs, <<x, y>> \in before',
                      state'[y] = "running"
               PROVE  KeysOf(x)' \cap KeysOf(y)' = {}
    BY DEF FifoExclusion
  <2>1. y # r /\ state[y] = "running"  BY <1>2 DEF Call, TypeOK
  <2>2. <<x, y>> \in before  BY <1>11, <2>1
  <2>3. x # r  BY <1>12, <2>2
  <2>4. KeysOf(x)' = KeysOf(x) /\ KeysOf(y)' = KeysOf(y)
    BY <1>6, <2>1, <2>3 DEF KeysOf
  <2> QED  BY <2>1, <2>2, <2>4 DEF IInv, FifoExclusion
<1>15. LanesAreShared'
  <2> SUFFICES ASSUME NEW k \in Keys
               PROVE  /\ (lanes'[k] = NoLane) <=> (Holders(k)' = {})
                      /\ \A x \in Holders(k)' : held'[x][k] = lanes'[k]
    BY DEF LanesAreShared
  <2>1. /\ (lanes[k] = NoLane) <=> (Holders(k) = {})
        /\ \A x \in Holders(k) : held[x][k] = lanes[k]
    BY DEF IInv, LanesAreShared
  <2>2. CASE k \in ks
    <3>1. lanes'[k] = lane(k) /\ Holders(k)' = Holders(k) \cup {r}
      BY <1>7, <1>8, <2>2
    <3>2. \A x \in Holders(k) : held'[x][k] = lane(k)
      BY <1>4, <1>6, <2>1 DEF LaneOf, Holders
    <3>3. held'[r][k] = lane(k)  BY <1>6, <2>2
    <3> QED  BY <1>3, <3>1, <3>2, <3>3
  <2>3. CASE k \notin ks
    <3>1. \A x \in Holders(k) : held'[x][k] = held[x][k]
      BY <1>4, <1>6 DEF Holders
    <3> QED  BY <1>7, <1>8, <2>1, <2>3, <3>1
  <2> QED  BY <2>2, <2>3
<1>16. CallsAreOrdered'
  <2>1. before' \subseteq Active' \X Active'
    BY <1>5, <1>10 DEF IInv, CallsAreOrdered
  <2>2. \A x, y \in Active' :
          x # y => (<<x, y>> \in before' \/ <<y, x>> \in before')
    BY <1>5, <1>10 DEF IInv, CallsAreOrdered
  <2>3. \A x, y \in Runs : <<x, y>> \in before' => <<y, x>> \notin before'
    BY <1>2, <1>11, <1>12 DEF IInv, CallsAreOrdered
  <2>4. \A x, y, z \in Runs :
          <<x, y>> \in before' /\ <<y, z>> \in before' => <<x, z>> \in before'
    <3> SUFFICES ASSUME NEW x \in Runs, NEW y \in Runs, NEW z \in Runs,
                        <<x, y>> \in before', <<y, z>> \in before'
                 PROVE  <<x, z>> \in before'
      OBVIOUS
    <3>1. y # r  BY <1>2, <1>11, <1>12
    <3>2. <<x, y>> \in before  BY <1>11, <3>1
    <3>3. x \in Active  BY <3>2 DEF IInv, CallsAreOrdered
    <3> QED  BY <1>11, <3>2, <3>3 DEF IInv, CallsAreOrdered
  <2> QED  BY <2>1, <2>2, <2>3, <2>4 DEF CallsAreOrdered
<1>17. IdleHoldsNothing'
  <2> SUFFICES ASSUME NEW x \in Runs, state'[x] = "idle" PROVE KeysOf(x)' = {}
    BY DEF IdleHoldsNothing
  <2>1. x # r /\ state[x] = "idle"  BY <1>2 DEF Call, TypeOK
  <2>2. KeysOf(x)' = KeysOf(x)  BY <1>6, <2>1 DEF KeysOf
  <2> QED  BY <2>1, <2>2 DEF IInv, IdleHoldsNothing
<1>18. PendingCountsHolders'
  <2> SUFFICES ASSUME NEW k \in Keys, lanes'[k] # NoLane
               PROVE  pending'[k][lanes'[k]] = Cardinality(Holders(k)')
    BY DEF PendingCountsHolders
  <2>1. CASE k \in ks
    <3>1. lanes'[k] = lane(k) /\ Holders(k)' = Holders(k) \cup {r}
      BY <1>7, <1>8, <2>1
    <3>2. pending'[k][lane(k)] = Counted(k, lane(k))
      BY <1>1, <1>3, <2>1 DEF Reserve
    <3>3. Cardinality(Holders(k) \cup {r}) = Cardinality(Holders(k)) + 1
      BY <1>4, HoldersFinite, FS_AddElement
    <3>4. CASE lanes[k] = NoLane
      <4>1. Holders(k) = {}  BY <3>4 DEF IInv, LanesAreShared
      <4> QED  BY <3>1, <3>2, <3>3, <3>4, <4>1, FS_EmptySet DEF Counted
    <3>5. CASE lanes[k] # NoLane
      <4>1. pending[k][lane(k)] = Cardinality(Holders(k))
        BY <3>5 DEF IInv, PendingCountsHolders, LaneOf
      <4> QED  BY <3>1, <3>2, <3>3, <3>5, <4>1 DEF Counted
    <3> QED  BY <3>4, <3>5
  <2>2. CASE k \notin ks
    <3>1. lanes[k] \in Objects  BY <1>2, <1>8, <2>2 DEF TypeOK
    <3>2. pending'[k][lanes[k]] = pending[k][lanes[k]]
      BY <1>1, <2>2, <3>1 DEF Reserve
    <3> QED  BY <1>7, <1>8, <2>2, <3>2 DEF IInv, PendingCountsHolders
  <2> QED  BY <2>1, <2>2
<1>19. TailIsYoungest'
  <2> SUFFICES ASSUME NEW k \in Keys, lanes'[k] # NoLane
               PROVE  LET t == tail'[k][lanes'[k]] IN
                      /\ t \in Holders(k)'
                      /\ \A x \in Holders(k)' : x # t => <<x, t>> \in before'
    BY DEF TailIsYoungest
  <2>1. CASE k \in ks
    <3>1. lanes'[k] = lane(k) /\ Holders(k)' = Holders(k) \cup {r}
      BY <1>7, <1>8, <2>1
    <3>2. tail'[k][lane(k)] = r  BY <1>1, <1>3, <2>1 DEF Reserve
    <3>3. Holders(k) \subseteq Active  BY HoldersFinite
    <3> QED  BY <1>10, <3>1, <3>2, <3>3
  <2>2. CASE k \notin ks
    <3>1. lanes'[k] = lanes[k] /\ lanes[k] \in Objects
      BY <1>2, <1>8, <2>2 DEF TypeOK
    <3>2. tail'[k][lanes[k]] = tail[k][lanes[k]]
      BY <1>1, <2>2, <3>1 DEF Reserve
    <3> QED  BY <1>7, <1>10, <2>2, <3>1, <3>2 DEF IInv, TailIsYoungest
  <2> QED  BY <2>1, <2>2
<1>20. PreviousIsNextOlder'
  <2> SUFFICES ASSUME NEW k \in Keys, NEW y \in Holders(k)'
      PROVE  LET p == previous'[y][k] IN
             IF p = Resolved
             THEN \A x \in Holders(k)' : <<x, y>> \notin before'
             ELSE /\ p \in Holders(k)' /\ <<p, y>> \in before'
                  /\ \A x \in Holders(k)' :
                       x # p /\ <<x, y>> \in before' => <<x, p>> \in before'
    BY DEF PreviousIsNextOlder
  <2>0. y \in Runs /\ Holders(k) \subseteq Active /\ Holders(k) \subseteq Runs
    BY HoldersFinite DEF Holders
  <2>1. CASE y # r
    <3>1. y \in Holders(k) /\ Holders(k) \subseteq Holders(k)'
          /\ Holders(k)' \subseteq Holders(k) \cup {r}
      BY <1>7, <2>1
    <3>2. previous'[y][k] = previous[y][k]  BY <1>9, <2>0, <2>1
    <3>3. \A x \in Runs : <<x, y>> \in before' <=> <<x, y>> \in before
      BY <1>11, <2>0, <2>1
    <3>4. \A x \in Runs : <<x, y>> \in before => x # r  BY <1>12, <2>0
    <3>5. CASE previous[y][k] = Resolved
      <4>1. \A x \in Holders(k) : <<x, y>> \notin before
        BY <3>1, <3>5 DEF IInv, PreviousIsNextOlder
      <4> QED  BY <2>0, <3>1, <3>2, <3>3, <3>4, <3>5, <4>1
    <3>6. CASE previous[y][k] # Resolved
      <4> DEFINE p == previous[y][k]
      <4>1. /\ p \in Holders(k) /\ <<p, y>> \in before
            /\ \A x \in Holders(k) : x # p /\ <<x, y>> \in before => <<x, p>> \in before
        BY <3>1, <3>6 DEF IInv, PreviousIsNextOlder
      <4> HIDE DEF p
      <4>2. p \in Holders(k)' /\ <<p, y>> \in before'  BY <1>10, <3>1, <4>1
      <4>3. \A x \in Holders(k)' :
              x # p /\ <<x, y>> \in before' => <<x, p>> \in before'
        BY <1>10, <2>0, <3>1, <3>3, <3>4, <4>1
      <4> QED  BY <3>2, <3>6, <4>2, <4>3 DEF p
    <3> QED  BY <3>5, <3>6
  <2>2. CASE y = r
    <3>1. k \in ks  BY <1>4, <1>7, <2>2
    <3>2. previous'[r][k] = PreviousOf(k) /\ Holders(k)' = Holders(k) \cup {r}
      BY <1>7, <1>9, <3>1
    <3>3. \A x \in Runs : <<x, r>> \in before' => x # r  BY <1>2, <1>11, <1>12
    <3>4. CASE lanes[k] = NoLane
      <4>1. Holders(k) = {}  BY <3>4 DEF IInv, LanesAreShared
      <4>2. PreviousOf(k) = Resolved  BY <3>4 DEF PreviousOf
      <4> QED  BY <2>2, <3>2, <3>3, <4>1, <4>2
    <3>5. CASE lanes[k] # NoLane
      <4> DEFINE p == PreviousOf(k)
      <4>1. /\ p \in Holders(k)
            /\ \A x \in Holders(k) : x # p => <<x, p>> \in before
        BY <3>5 DEF IInv, TailIsYoungest, PreviousOf
      <4>2. p # Resolved  BY <2>0, <4>1, LanesAssumption
      <4> HIDE DEF p
      <4>3. p \in Active /\ <<p, r>> \in before'  BY <1>10, <2>0, <4>1
      <4>4. \A x \in Holders(k)' :
              x # p /\ <<x, r>> \in before' => <<x, p>> \in before'
        BY <1>10, <2>0, <3>2, <3>3, <4>1
      <4> QED  BY <2>2, <3>2, <4>1, <4>2, <4>3, <4>4 DEF p
    <3> QED  BY <3>4, <3>5
  <2> QED  BY <2>1, <2>2
<1> QED
  BY <1>13, <1>14, <1>15, <1>16, <1>17, <1>18, <1>19, <1>20 DEF IInv

(* A run that starts leaves its reservations alone; the runs called before  *)
(* it share no key with it, for its promises would otherwise be unresolved. *)
LEMMA StartExcludes ==
  ASSUME IInv, NEW r \in Runs, Start(r), NEW x \in Runs, <<x, r>> \in before
  PROVE  KeysOf(x) \cap KeysOf(r) = {}
<1> SUFFICES ASSUME NEW k \in KeysOf(x) \cap KeysOf(r) PROVE FALSE
  OBVIOUS
<1>1. k \in Keys /\ x \in Holders(k) /\ r \in Holders(k)
  BY DEF KeysOf, Holders
<1>2. previous[r][k] = Resolved  BY DEF Start
<1> QED  BY <1>1, <1>2 DEF IInv, PreviousIsNextOlder

LEMMA StartIInv ==
  ASSUME IInv, NEW r \in Runs, Start(r)
  PROVE  IInv'
<1>1. TypeOK /\ state[r] = "waiting"  BY DEF IInv, Start
<1>2. UNCHANGED <<lanes, tail, pending, held, previous, before>>  BY DEF Start
<1>3. \A x \in Runs : KeysOf(x)' = KeysOf(x)  BY <1>2 DEF KeysOf
<1>4. \A k \in Keys : Holders(k)' = Holders(k)  BY <1>2 DEF Holders
<1>5. Active' = Active  BY <1>1 DEF Start, Active, TypeOK
<1>6. TypeOK'  BY <1>1 DEF Start, TypeOK, States
<1>7. FifoExclusion'
  <2> SUFFICES ASSUME NEW x \in Runs, NEW y \in Runs, <<x, y>> \in before',
                      state'[y] = "running"
               PROVE  KeysOf(x)' \cap KeysOf(y)' = {}
    BY DEF FifoExclusion
  <2>1. CASE y = r  BY <1>2, <1>3, <2>1, StartExcludes
  <2>2. CASE y # r
    <3>1. state[y] = "running"  BY <1>1, <2>2 DEF Start, TypeOK
    <3> QED  BY <1>2, <1>3, <3>1 DEF IInv, FifoExclusion
  <2> QED  BY <2>1, <2>2
<1>8. LanesAreShared'  BY <1>2, <1>4 DEF IInv, LanesAreShared, Holders
<1>9. CallsAreOrdered'  BY <1>2, <1>5 DEF IInv, CallsAreOrdered
<1>10. IdleHoldsNothing'
  BY <1>1, <1>3 DEF IInv, IdleHoldsNothing, Start, TypeOK
<1>11. PendingCountsHolders'  BY <1>2, <1>4 DEF IInv, PendingCountsHolders
<1>12. TailIsYoungest'  BY <1>2, <1>4 DEF IInv, TailIsYoungest
<1>13. PreviousIsNextOlder'  BY <1>2, <1>4 DEF IInv, PreviousIsNextOlder
<1> QED
  BY <1>6, <1>7, <1>8, <1>9, <1>10, <1>11, <1>12, <1>13 DEF IInv

(* The run that settles is the oldest holder of each of its keys, so the    *)
(* run next in the chain of a key has no older holder left.                 *)
LEMMA SettleIInv ==
  ASSUME IInv, NEW r \in Runs, Settle(r)
  PROVE  IInv'
<1>1. TypeOK /\ state[r] = "running" /\ r \in Active  BY DEF IInv, Settle, Active
<1>2. Active' = Active \ {r}  BY <1>1 DEF Settle, Active, TypeOK
<1>3. \A x \in Runs, k \in Keys :
        held'[x][k] = IF x = r THEN NoLane ELSE held[x][k]
  BY <1>1 DEF Settle, TypeOK
<1>4. \A k \in Keys : Holders(k)' = Holders(k) \ {r}  BY <1>3 DEF Holders
<1>5. before' = {p \in before : p[1] # r /\ p[2] # r}  BY DEF Settle
<1>6. \A x, y \in Runs :
        <<x, y>> \in before' <=> <<x, y>> \in before /\ x # r /\ y # r
  BY <1>5
<1>7. \A x \in Runs, k \in Keys :
        previous'[x][k] = IF previous[x][k] = r THEN Resolved ELSE previous[x][k]
  BY DEF Settle, Resolve
<1>8. \A k \in Keys, o \in Objects :
        tail'[k][o] = IF tail[k][o] = r THEN Resolved ELSE tail[k][o]
  BY DEF Settle, Resolve
<1>9. \A k \in Keys :
        lanes'[k] = IF k \in Dropped(r) THEN NoLane ELSE lanes[k]
  BY DEF Settle
<1>10. \A k \in Keys : r \in Holders(k) =>
         /\ held[r][k] = lanes[k] /\ lanes[k] \in Objects
         /\ pending[k][lanes[k]] = Cardinality(Holders(k))
         /\ \A x \in Holders(k) : <<x, r>> \notin before
  <2> SUFFICES ASSUME NEW k \in Keys, r \in Holders(k)
      PROVE  /\ held[r][k] = lanes[k] /\ lanes[k] \in Objects
             /\ pending[k][lanes[k]] = Cardinality(Holders(k))
             /\ \A x \in Holders(k) : <<x, r>> \notin before
    OBVIOUS
  <2>1. held[r][k] = lanes[k] /\ lanes[k] \in Objects
    BY <1>1 DEF IInv, LanesAreShared, Holders, TypeOK
  <2>2. lanes[k] # NoLane  BY <2>1, LanesAssumption
  <2>3. pending[k][lanes[k]] = Cardinality(Holders(k))
    BY <2>2 DEF IInv, PendingCountsHolders
  <2>4. \A x \in Holders(k) : <<x, r>> \notin before
    <3> SUFFICES ASSUME NEW x \in Holders(k), <<x, r>> \in before PROVE FALSE
      OBVIOUS
    <3>1. x \in Runs /\ k \in KeysOf(x) \cap KeysOf(r)  BY DEF Holders, KeysOf
    <3> QED  BY <1>1, <3>1 DEF IInv, FifoExclusion
  <2> QED  BY <2>1, <2>3, <2>4
<1>11. \A k \in Keys : k \in Dropped(r) => Holders(k) = {r}
  <2> SUFFICES ASSUME NEW k \in Keys, k \in Dropped(r) PROVE Holders(k) = {r}
    OBVIOUS
  <2>1. r \in Holders(k) /\ pending[k][held[r][k]] = 1
    BY DEF Dropped, KeysOf, Holders
  <2>2. IsFiniteSet(Holders(k)) /\ Cardinality(Holders(k)) = 1
    BY <1>10, <2>1, HoldersFinite
  <2>3. PICK y : Holders(k) = {y}  BY <2>2, FS_Singleton
  <2> QED  BY <2>1, <2>3
<1>12. \A k \in Keys : r \in Holders(k) /\ k \notin Dropped(r)
                       => Holders(k) # {r}
  <2> SUFFICES ASSUME NEW k \in Keys, r \in Holders(k), Holders(k) = {r}
               PROVE  k \in Dropped(r)
    OBVIOUS
  <2>1. Cardinality(Holders(k)) = 1  BY FS_Singleton
  <2> QED  BY <1>10, <2>1 DEF Dropped, KeysOf, Holders
<1>13. \A k \in Keys : k \in Dropped(r) => r \in Holders(k)
  BY DEF Dropped, KeysOf, Holders
<1>14. TypeOK'
  <2>1. lanes' \in [Keys -> Objects \cup {NoLane}]  BY <1>1 DEF Settle, TypeOK
  <2>2. tail' \in [Keys -> [Objects -> Runs \cup {Resolved}]]
    BY <1>1 DEF Settle, Resolve, TypeOK
  <2>3. pending' \in [Keys -> [Objects -> Nat]]
    <3>1. \A k \in Keys, o \in Objects : held[r][k] = o => pending[k][o] - 1 \in Nat
      <4> SUFFICES ASSUME NEW k \in Keys, NEW o \in Objects, held[r][k] = o
                   PROVE  pending[k][o] - 1 \in Nat
        OBVIOUS
      <4>1. r \in Holders(k)  BY LanesAssumption DEF Holders
      <4>2. pending[k][o] = Cardinality(Holders(k))  BY <1>10, <4>1
      <4>3. Cardinality(Holders(k)) # 0  BY <4>1, HoldersFinite, FS_EmptySet
      <4>4. Cardinality(Holders(k)) \in Nat  BY HoldersFinite
      <4> QED  BY <4>2, <4>3, <4>4
    <3> QED  BY <1>1, <3>1 DEF Settle, TypeOK
  <2>4. held' \in [Runs -> [Keys -> Objects \cup {NoLane}]]
    BY <1>1 DEF Settle, TypeOK
  <2>5. previous' \in [Runs -> [Keys -> Runs \cup {Resolved}]]
    BY <1>1 DEF Settle, Resolve, TypeOK
  <2>6. state' \in [Runs -> States]  BY <1>1 DEF Settle, TypeOK, States
  <2>7. before' \in SUBSET (Runs \X Runs)  BY <1>1, <1>5 DEF TypeOK
  <2> QED  BY <2>1, <2>2, <2>3, <2>4, <2>5, <2>6, <2>7 DEF TypeOK
<1>15. FifoExclusion'
  <2> SUFFICES ASSUME NEW x \in Runs, NEW y \in Runs, <<x, y>> \in before',
                      state'[y] = "running"
               PROVE  KeysOf(x)' \cap KeysOf(y)' = {}
    BY DEF FifoExclusion
  <2>1. x # r /\ y # r /\ <<x, y>> \in before  BY <1>6
  <2>2. state[y] = "running"  BY <1>1, <2>1 DEF Settle, TypeOK
  <2>3. KeysOf(x)' = KeysOf(x) /\ KeysOf(y)' = KeysOf(y)
    BY <1>3, <2>1 DEF KeysOf
  <2> QED  BY <2>1, <2>2, <2>3 DEF IInv, FifoExclusion
<1>16. LanesAreShared'
  <2> SUFFICES ASSUME NEW k \in Keys
               PROVE  /\ (lanes'[k] = NoLane) <=> (Holders(k)' = {})
                      /\ \A x \in Holders(k)' : held'[x][k] = lanes'[k]
    BY DEF LanesAreShared
  <2>1. /\ (lanes[k] = NoLane) <=> (Holders(k) = {})
        /\ \A x \in Holders(k) : held[x][k] = lanes[k]
    BY DEF IInv, LanesAreShared
  <2>2. Holders(k)' = Holders(k) \ {r}  BY <1>4
  <2>3. CASE k \in Dropped(r)
    <3>1. Holders(k)' = {} /\ lanes'[k] = NoLane  BY <1>9, <1>11, <2>2, <2>3
    <3> QED  BY <3>1
  <2>4. CASE k \notin Dropped(r)
    <3>1. lanes'[k] = lanes[k]  BY <1>9, <2>4
    <3>2. (Holders(k) \ {r} = {}) <=> (Holders(k) = {})  BY <1>12, <2>4
    <3>3. \A x \in Holders(k)' : held'[x][k] = held[x][k]
      BY <1>3, <2>2 DEF Holders
    <3> QED  BY <2>1, <2>2, <3>1, <3>2, <3>3
  <2> QED  BY <2>3, <2>4
<1>17. CallsAreOrdered'
  <2>1. before' \subseteq Active' \X Active'
    <3> SUFFICES ASSUME NEW p \in before' PROVE p \in Active' \X Active'
      OBVIOUS
    <3>1. p \in before /\ p[1] # r /\ p[2] # r  BY <1>5
    <3>2. p \in Active \X Active  BY <3>1 DEF IInv, CallsAreOrdered
    <3> QED  BY <1>2, <3>1, <3>2
  <2>2. \A x, y \in Active' :
          x # y => (<<x, y>> \in before' \/ <<y, x>> \in before')
    BY <1>2, <1>5 DEF IInv, CallsAreOrdered
  <2>3. \A x, y \in Runs : <<x, y>> \in before' => <<y, x>> \notin before'
    BY <1>6 DEF IInv, CallsAreOrdered
  <2>4. \A x, y, z \in Runs :
          <<x, y>> \in before' /\ <<y, z>> \in before' => <<x, z>> \in before'
    BY <1>6 DEF IInv, CallsAreOrdered
  <2> QED  BY <2>1, <2>2, <2>3, <2>4 DEF CallsAreOrdered
<1>18. IdleHoldsNothing'
  <2> SUFFICES ASSUME NEW x \in Runs, state'[x] = "idle" PROVE KeysOf(x)' = {}
    BY DEF IdleHoldsNothing
  <2>1. CASE x = r  BY <1>3, <2>1 DEF KeysOf
  <2>2. CASE x # r
    <3>1. state[x] = "idle"  BY <1>1, <2>2 DEF Settle, TypeOK
    <3>2. KeysOf(x)' = KeysOf(x)  BY <1>3, <2>2 DEF KeysOf
    <3> QED  BY <3>1, <3>2 DEF IInv, IdleHoldsNothing
  <2> QED  BY <2>1, <2>2
<1>19. PendingCountsHolders'
  <2> SUFFICES ASSUME NEW k \in Keys, lanes'[k] # NoLane
               PROVE  pending'[k][lanes'[k]] = Cardinality(Holders(k)')
    BY DEF PendingCountsHolders
  <2>1. lanes'[k] = lanes[k] /\ lanes[k] # NoLane  BY <1>9
  <2>2. lanes[k] \in Objects  BY <1>1, <2>1 DEF TypeOK
  <2>3. pending[k][lanes[k]] = Cardinality(Holders(k))
    BY <2>1 DEF IInv, PendingCountsHolders
  <2>4. pending'[k][lanes[k]] = IF held[r][k] = lanes[k]
                                THEN pending[k][lanes[k]] - 1
                                ELSE pending[k][lanes[k]]
    BY <2>2 DEF Settle
  <2>5. CASE r \in Holders(k)
    <3>1. Cardinality(Holders(k) \ {r}) = Cardinality(Holders(k)) - 1
      BY <2>5, HoldersFinite, FS_RemoveElement
    <3> QED  BY <1>4, <1>10, <2>1, <2>3, <2>4, <2>5, <3>1
  <2>6. CASE r \notin Holders(k)
    <3>1. held[r][k] # lanes[k]  BY <2>1, <2>6 DEF Holders
    <3>2. Holders(k) \ {r} = Holders(k)  BY <2>6
    <3> QED  BY <1>4, <2>1, <2>3, <2>4, <3>1, <3>2
  <2> QED  BY <2>5, <2>6
<1>20. TailIsYoungest'
  <2> SUFFICES ASSUME NEW k \in Keys, lanes'[k] # NoLane
               PROVE  LET t == tail'[k][lanes'[k]] IN
                      /\ t \in Holders(k)'
                      /\ \A x \in Holders(k)' : x # t => <<x, t>> \in before'
    BY DEF TailIsYoungest
  <2>1. lanes'[k] = lanes[k] /\ lanes[k] # NoLane /\ k \notin Dropped(r)
    BY <1>9
  <2>2. lanes[k] \in Objects  BY <1>1, <2>1 DEF TypeOK
  <2> DEFINE t == tail[k][lanes[k]]
  <2>3. t \in Holders(k) /\ \A x \in Holders(k) : x # t => <<x, t>> \in before
    BY <2>1 DEF IInv, TailIsYoungest
  <2>4. tail'[k][lanes[k]] = IF t = r THEN Resolved ELSE t  BY <1>8, <2>2
  <2> HIDE DEF t
  <2>5. t # r
    <3> SUFFICES ASSUME t = r PROVE FALSE  OBVIOUS
    <3>1. Holders(k) # {r}  BY <1>12, <2>1, <2>3
    <3>2. PICK x \in Holders(k) : x # r  BY <2>3, <3>1
    <3> QED  BY <1>10, <2>3, <3>2
  <2>6. t \in Runs /\ Holders(k) \subseteq Runs  BY <2>3 DEF Holders
  <2>7. \A x \in Holders(k)' : x # t => <<x, t>> \in before'
    BY <1>4, <1>6, <2>3, <2>5, <2>6
  <2> QED  BY <1>4, <2>1, <2>3, <2>4, <2>5, <2>7
<1>21. PreviousIsNextOlder'
  <2> SUFFICES ASSUME NEW k \in Keys, NEW y \in Holders(k)'
      PROVE  LET p == previous'[y][k] IN
             IF p = Resolved
             THEN \A x \in Holders(k)' : <<x, y>> \notin before'
             ELSE /\ p \in Holders(k)' /\ <<p, y>> \in before'
                  /\ \A x \in Holders(k)' :
                       x # p /\ <<x, y>> \in before' => <<x, p>> \in before'
    BY DEF PreviousIsNextOlder
  <2>1. y \in Holders(k) /\ y # r /\ y \in Runs  BY <1>4 DEF Holders
  <2>2. Holders(k) \subseteq Runs  BY DEF Holders
  <2> DEFINE p == previous[y][k]
  <2>3. previous'[y][k] = IF p = r THEN Resolved ELSE p  BY <1>7, <2>1
  <2>4. p = Resolved => \A x \in Holders(k) : <<x, y>> \notin before
    BY <2>1 DEF IInv, PreviousIsNextOlder
  <2>5. p # Resolved =>
          /\ p \in Holders(k) /\ <<p, y>> \in before
          /\ \A x \in Holders(k) :
               x # p /\ <<x, y>> \in before => <<x, p>> \in before
    BY <2>1 DEF IInv, PreviousIsNextOlder
  <2> HIDE DEF p
  <2>6. CASE p = Resolved
    <3>1. previous'[y][k] = Resolved  BY <2>3, <2>6
    <3>2. \A x \in Holders(k)' : <<x, y>> \notin before'
      BY <1>4, <1>5, <2>4, <2>6
    <3> QED  BY <3>1, <3>2
  <2>7. CASE p = r
    <3>1. p # Resolved  BY <2>7, LanesAssumption
    <3>2. previous'[y][k] = Resolved  BY <2>3, <2>7
    <3>3. \A x \in Holders(k)' : <<x, y>> \notin before'
      BY <1>4, <1>5, <1>10, <2>5, <2>7, <3>1
    <3> QED  BY <3>2, <3>3
  <2>8. CASE p # Resolved /\ p # r
    <3>1. previous'[y][k] = p  BY <2>3, <2>8
    <3>2. p \in Holders(k)' /\ <<p, y>> \in before'
      BY <1>4, <1>6, <2>1, <2>2, <2>5, <2>8
    <3>3. \A x \in Holders(k)' :
            x # p /\ <<x, y>> \in before' => <<x, p>> \in before'
      BY <1>4, <1>6, <2>1, <2>2, <2>5, <2>8
    <3> QED  BY <2>8, <3>1, <3>2, <3>3
  <2> QED  BY <2>6, <2>7, <2>8
<1> QED
  BY <1>14, <1>15, <1>16, <1>17, <1>18, <1>19, <1>20, <1>21 DEF IInv

-----------------------------------------------------------------------------
(* The invariant holds of every reachable state.                            *)
THEOREM InductiveInvariant == Spec => []IInv
<1>1. IInv /\ [Next]_vars => IInv'
  <2> SUFFICES ASSUME IInv, [Next]_vars PROVE IInv'  OBVIOUS
  <2>1. CASE Next  BY <2>1, CallIInv, StartIInv, SettleIInv DEF Next
  <2>2. CASE UNCHANGED vars
    BY <2>2 DEF vars, IInv, TypeOK, FifoExclusion, LanesAreShared,
       CallsAreOrdered, IdleHoldsNothing, PendingCountsHolders,
       TailIsYoungest, PreviousIsNextOlder, KeysOf, Holders, Active
  <2> QED  BY <2>1, <2>2
<1> QED  BY InitIInv, <1>1, PTL DEF Spec

(* The types of the scheduler's variables; in particular no lane's counter  *)
(* is ever decremented below zero.                                          *)
THEOREM TypeCorrect == Spec => []TypeOK
<1>1. IInv => TypeOK  BY DEF IInv
<1> QED  BY <1>1, InductiveInvariant, PTL

(* Operations that share a key never overlap, whatever the number of runs   *)
(* and keys, and they run in the order of their calls.                      *)
THEOREM Exclusion == Spec => []FifoExclusion
<1>1. IInv => FifoExclusion  BY DEF IInv
<1> QED  BY <1>1, InductiveInvariant, PTL

(* The map holds exactly the lanes in use, each shared by all its holders.  *)
THEOREM NoLaneLeaks == Spec => []LanesAreShared
<1>1. IInv => LanesAreShared  BY DEF IInv
<1> QED  BY <1>1, InductiveInvariant, PTL

(* Chained promises implement waiting for every older run that shares a     *)
(* key: each step of the scheduler is a step of FifoLanes.                  *)
THEOREM Refinement == Spec => ImplementsFifoLanes
<1> DEFINE runKeys == [r \in Runs |-> KeysOf(r)]
<1>1. Init => Promise!Init
  <2> SUFFICES ASSUME Init PROVE Promise!Init  OBVIOUS
  <2>1. \A r \in Runs : KeysOf(r) = {}  BY LanesAssumption DEF Init, KeysOf
  <2> QED  BY <2>1 DEF Init, Promise!Init
<1>2. IInv /\ IInv' /\ [Next]_vars => [Promise!Next]_(Promise!vars)
  <2> SUFFICES ASSUME IInv, IInv', Next PROVE Promise!Next
    BY DEF vars, Promise!vars, KeysOf
  <2>1. PICK r \in Runs : \/ \E ks \in SUBSET Keys : Call(r, ks)
                          \/ Start(r)
                          \/ Settle(r)
    BY DEF Next
  <2>2. CASE \E ks \in SUBSET Keys : Call(r, ks)
    <3>1. PICK ks \in SUBSET Keys : Call(r, ks)  BY <2>2
    <3>2. PICK fresh \in [Keys -> Objects] : Reserve(r, ks, fresh)
      BY <3>1 DEF Call
    <3>3. TypeOK  BY DEF IInv
    <3>4. \A k \in Keys : LaneOf(k, fresh) # NoLane
      BY <3>3, LanesAssumption DEF LaneOf, TypeOK
    <3>5. \A x \in Runs : KeysOf(x)' = IF x = r THEN ks ELSE KeysOf(x)
      BY <3>2, <3>3, <3>4 DEF Reserve, KeysOf, TypeOK
    <3>6. runKeys' = [runKeys EXCEPT ![r] = ks]  BY <3>5
    <3>7. Promise!Call(r, ks)
      BY <3>1, <3>6 DEF Call, Promise!Call, Promise!Active, Active
    <3> QED  BY <3>7 DEF Promise!Next
  <2>3. CASE Start(r)
    <3>1. runKeys' = runKeys  BY <2>3 DEF Start, KeysOf
    <3>2. \A x \in Runs : <<x, r>> \in before => runKeys[x] \cap runKeys[r] = {}
      BY <2>3, StartExcludes
    <3>3. Promise!Start(r)  BY <2>3, <3>1, <3>2 DEF Start, Promise!Start
    <3> QED  BY <3>3 DEF Promise!Next
  <2>4. CASE Settle(r)
    <3>1. TypeOK  BY DEF IInv
    <3>2. \A x \in Runs : KeysOf(x)' = IF x = r THEN {} ELSE KeysOf(x)
      BY <2>4, <3>1 DEF Settle, KeysOf, TypeOK
    <3>3. runKeys' = [runKeys EXCEPT ![r] = {}]  BY <3>2
    <3>4. Promise!Settle(r)  BY <2>4, <3>3 DEF Settle, Promise!Settle
    <3> QED  BY <3>4 DEF Promise!Next
  <2> QED  BY <2>1, <2>2, <2>3, <2>4
<1> QED
  BY <1>1, <1>2, InductiveInvariant, PTL DEF Spec, ImplementsFifoLanes, Promise!Spec


-----------------------------------------------------------------------------
(* The command router: the inductive invariant of its lanes.               *)

Lanes == {CallOf[c].key : c \in Calls}
Joined(c) == phase[c] \notin {"new", "refused"}
Entered(c) == phase[c] \in {"before", "done", "failed"}
SameLane(c, d) == CallOf[c].key = CallOf[d].key

InboundTypeOK ==
  /\ phase \in [Calls -> {"new", "queued", "before", "done", "failed", "refused"}]
  /\ inFlightByKey \in [Lanes -> Calls \cup {NoCall}]
  /\ waitsFor \in [Calls -> Calls \cup {NoCall}]
  /\ gateOf \in [Calls -> Calls \cup {NoCall}]
  /\ released \in SUBSET (Calls \cup {NoCall})
  /\ arrivals \in Seq(Calls)

\* The history names every call that joined, once.
ArrivalsAreCalls ==
  /\ \A c \in Calls : Joined(c) <=> \E i \in DOMAIN arrivals : arrivals[i] = c
  /\ \A i, j \in DOMAIN arrivals : arrivals[i] = arrivals[j] => i = j

\* The call in flight is the last of its lane; none is when all have settled.
LaneEnds ==
  \A k \in Lanes, c \in Calls : CallOf[c].key = k /\ Joined(c) =>
    /\ inFlightByKey[k] = NoCall => Settled(c)
    /\ \A x \in Calls : inFlightByKey[k] = x => c = x \/ Before(c, x)

LaneEndsAreOpen ==
  \A k \in Lanes : inFlightByKey[k] # NoCall =>
    /\ CallOf[inFlightByKey[k]].key = k
    /\ phase[inFlightByKey[k]] \in {"queued", "before"}

\* A queued call waits for the one before it, or has none to wait for.
ChainHolds ==
  \A c, d \in Calls : phase[d] = "queued" /\ Before(c, d) /\ SameLane(c, d) =>
    /\ waitsFor[d] = NoCall => Settled(c)
    /\ \A x \in Calls : waitsFor[d] = x => c = x \/ Before(c, x)

ChainStays ==
  \A d \in Calls : phase[d] = "queued" /\ waitsFor[d] # NoCall => SameLane(waitsFor[d], d)

LanesInOrder ==
  \A c, d \in Calls : Before(c, d) /\ SameLane(c, d) /\ Entered(d) => Settled(c)

OrderInv ==
  /\ InboundTypeOK /\ ArrivalsAreCalls /\ LaneEnds /\ LaneEndsAreOpen
  /\ ChainHolds /\ ChainStays /\ LanesInOrder

\* The calls behind a gate.
Members(g) == {d \in Calls : gateOf[d] = g}

\* A gate counts no more arrivals than there were, and is released by enough.
GatesCount ==
  /\ \A c \in Calls : gateOf[c] # NoCall => Joined(c)
  /\ \A g \in Calls : IsFiniteSet(Members(g))
  /\ \A step \in DOMAIN barriers :
       barriers[step] \in [gate : Calls, arrived : Nat, required : Nat]
  /\ \A step \in DOMAIN barriers, g \in Calls : barriers[step].gate = g =>
       /\ barriers[step].arrived <= Cardinality(Members(g))
       /\ CallOf[g].barrier \notin {NoBarrier, NoStep}
       /\ barriers[step].required = CallOf[g].barrier.size
  /\ \A g \in released \ {NoCall} :
       /\ CallOf[g].barrier \notin {NoBarrier, NoStep}
       /\ Cardinality(Members(g)) >= CallOf[g].barrier.size
  /\ \A c \in Calls : Entered(c) => gateOf[c] \in released

-----------------------------------------------------------------------------
(* The inductive invariant of the aggregates.                              *)

Commands == {CallOf[c].command : c \in Calls}
Ids == {NoSaga} \cup {m.id : m \in {n \in Commands : n.type = "createInstance"}}

State == [id : Ids, lifecycle : Lifecycles, version : Nat,
          totals : [Windows -> Nat], recent : [Windows -> Seq(Commands)]]

\* The trail of one state, and a state nothing was recorded in yet.
TrailIsContinuous(saga) ==
  LET trail == saga.recent["transitions"]
  IN /\ \A i \in 1..Len(trail) - 1 : trail[i].from = trail[i + 1].to
     /\ \A i \in DOMAIN trail : trail[i].from \notin TerminalLifecycles
     /\ trail # <<>> => trail[1].to = saga.lifecycle

CountsRecords(saga) ==
  /\ Created(saga) =>
       saga.version = 1 + saga.totals["transitions"] + saga.totals["events"]
                         + saga.totals["intents"] + saga.totals["activities"]
  /\ ~Created(saga) =>
       /\ saga.version = 0 /\ \A w \in Windows : saga.totals[w] = 0
       /\ saga.recent["transitions"] = <<>>

Sound(saga) == TrailIsContinuous(saga) /\ CountsRecords(saga)

InboundIInv ==
  /\ OrderInv /\ GatesCount
  /\ instance \in [Sagas -> State] /\ \A s \in Sagas : Sound(instance[s])

-----------------------------------------------------------------------------
(* The order of the lanes.                                                 *)

(* Who is before whom has joined, and nobody is before itself.             *)
LEMMA BeforeJoined ==
  ASSUME OrderInv, NEW c \in Calls, NEW d \in Calls, Before(c, d)
  PROVE  Joined(c) /\ Joined(d) /\ c # d
<1>1. PICK i, j \in DOMAIN arrivals : i < j /\ arrivals[i] = c /\ arrivals[j] = d
  BY DEF Before
<1>2. i # j
  <2>1. i \in Int /\ j \in Int  BY DEF OrderInv, InboundTypeOK
  <2> QED  BY <1>1, <2>1
<1> QED  BY <1>1, <1>2 DEF OrderInv, ArrivalsAreCalls

(* A call that joins comes after those that have, and changes no other.    *)
LEMMA JoiningIsLast ==
  ASSUME OrderInv, NEW c \in Calls, JoinLane(c)
  PROVE  /\ ~Joined(c) /\ \A a \in Calls : Joined(a)' <=> Joined(a) \/ a = c
         /\ \A a, b \in Calls : Before(a, b)' <=> Before(a, b) \/ (b = c /\ Joined(a))
         /\ ArrivalsAreCalls'
         /\ arrivals' \in Seq(Calls)
<1> DEFINE n == Len(arrivals)
<1>1. arrivals \in Seq(Calls) /\ n \in Nat /\ DOMAIN arrivals = 1 .. n
  BY DEF OrderInv, InboundTypeOK
<1>2. /\ arrivals' \in Seq(Calls) /\ DOMAIN arrivals' = 1 .. n + 1
      /\ \A i \in 1 .. n : arrivals'[i] = arrivals[i]
      /\ arrivals'[n + 1] = c
  BY <1>1, AppendProperties DEF JoinLane
<1>3. phase[c] = "new" /\ \A a \in Calls : phase'[a] = IF a = c THEN "queued" ELSE phase[a]
  BY DEF JoinLane, OrderInv, InboundTypeOK
<1>4. ~Joined(c) /\ \A a \in Calls : Joined(a)' <=> Joined(a) \/ a = c
  BY <1>3 DEF Joined
<1>5. /\ \A a \in Calls : Joined(a) <=> \E i \in 1 .. n : arrivals[i] = a
      /\ \A i, j \in 1 .. n : arrivals[i] = arrivals[j] => i = j
  BY <1>1 DEF OrderInv, ArrivalsAreCalls
<1>6. ArrivalsAreCalls'
  <2>1. \A i, j \in 1 .. n + 1 : arrivals'[i] = arrivals'[j] => i = j
    <3> SUFFICES ASSUME NEW i \in 1 .. n + 1, NEW j \in 1 .. n + 1, arrivals'[i] = arrivals'[j]
                 PROVE  i = j
      OBVIOUS
    <3>1. i \in 1 .. n \/ i = n + 1  BY <1>1
    <3>2. j \in 1 .. n \/ j = n + 1  BY <1>1
    <3>3. \A x \in 1 .. n : arrivals[x] # c  BY <1>4, <1>5
    <3> QED  BY <1>2, <1>5, <3>1, <3>2, <3>3
  <2>2. ASSUME NEW a \in Calls
        PROVE  Joined(a)' <=> \E i \in 1 .. n + 1 : arrivals'[i] = a
    <3>1. (\E i \in 1 .. n + 1 : arrivals'[i] = a) <=> (\E i \in 1 .. n : arrivals[i] = a) \/ a = c
      <4>1. \A i \in 1 .. n + 1 : i \in 1 .. n \/ i = n + 1  BY <1>1
      <4>2. n + 1 \in 1 .. n + 1 /\ \A i \in 1 .. n : i \in 1 .. n + 1  BY <1>1
      <4> QED  BY <1>2, <4>1, <4>2
    <3> QED  BY <1>4, <1>5, <3>1
  <2> QED  BY <1>2, <2>1, <2>2 DEF ArrivalsAreCalls
<1>7. ASSUME NEW a \in Calls, NEW b \in Calls
      PROVE  Before(a, b)' <=> Before(a, b) \/ (b = c /\ Joined(a))
  <2>1. Before(a, b)' <=> \E i, j \in 1 .. n + 1 : i < j /\ arrivals'[i] = a /\ arrivals'[j] = b
    BY <1>2 DEF Before
  <2>2. Before(a, b) <=> \E i, j \in 1 .. n : i < j /\ arrivals[i] = a /\ arrivals[j] = b
    BY <1>1 DEF Before
  <2>3. ASSUME Before(a, b)'  PROVE Before(a, b) \/ (b = c /\ Joined(a))
    <3>1. PICK i, j \in 1 .. n + 1 : i < j /\ arrivals'[i] = a /\ arrivals'[j] = b
      BY <2>1, <2>3
    <3>2. i \in 1 .. n /\ (j \in 1 .. n \/ j = n + 1)  BY <1>1, <3>1
    <3> QED  BY <1>2, <1>5, <2>2, <3>1, <3>2
  <2>4. ASSUME Before(a, b)  PROVE Before(a, b)'
    <3>1. PICK i, j \in 1 .. n : i < j /\ arrivals[i] = a /\ arrivals[j] = b
      BY <2>2, <2>4
    <3>2. i \in 1 .. n + 1 /\ j \in 1 .. n + 1  BY <1>1
    <3> QED  BY <1>2, <2>1, <3>1, <3>2
  <2>5. ASSUME b = c, Joined(a)  PROVE Before(a, b)'
    <3>1. PICK i \in 1 .. n : arrivals[i] = a  BY <1>5, <2>5
    <3>2. i \in 1 .. n + 1 /\ n + 1 \in 1 .. n + 1 /\ i < n + 1  BY <1>1
    <3> QED  BY <1>2, <2>1, <2>5, <3>1, <3>2
  <2> QED  BY <2>3, <2>4, <2>5
<1> QED  BY <1>2, <1>4, <1>6, <1>7

(* The lane of a call that joins ends in it, and it waits for the end it   *)
(* found.                                                                  *)
LEMMA JoinKeepsOrder ==
  ASSUME OrderInv, NEW c \in Calls, JoinLane(c),
         gateOf' \in [Calls -> Calls \cup {NoCall}], released' \in SUBSET (Calls \cup {NoCall})
  PROVE  OrderInv'
<1>1. /\ ~Joined(c) /\ \A a \in Calls : Joined(a)' <=> Joined(a) \/ a = c
      /\ \A a, b \in Calls : Before(a, b)' <=> Before(a, b) \/ (b = c /\ Joined(a))
      /\ ArrivalsAreCalls' /\ arrivals' \in Seq(Calls)
  BY JoiningIsLast
<1> DEFINE lane == CallOf[c].key
<1>2. lane \in Lanes /\ c # NoCall  BY InboundAssumption DEF Lanes
<1>3. /\ \A k \in Lanes : inFlightByKey'[k] = IF k = lane THEN c ELSE inFlightByKey[k]
      /\ \A a \in Calls : waitsFor'[a] = IF a = c THEN inFlightByKey[lane] ELSE waitsFor[a]
      /\ phase[c] = "new" /\ \A a \in Calls : phase'[a] = IF a = c THEN "queued" ELSE phase[a]
  BY <1>2 DEF JoinLane, OrderInv, InboundTypeOK
<1>4. InboundTypeOK'
  BY <1>1, <1>2 DEF JoinLane, OrderInv, InboundTypeOK
<1>5. \A a \in Calls : (Settled(a)' <=> Settled(a)) /\ (Entered(a)' <=> Entered(a))
  BY <1>3 DEF Settled, Entered
<1>6. \A a, b \in Calls : Before(a, b) => Joined(a) /\ Joined(b) /\ a # b
  BY BeforeJoined
<1>7. LaneEnds'
  <2> SUFFICES ASSUME NEW k \in Lanes, NEW a \in Calls, CallOf[a].key = k, Joined(a)'
               PROVE  /\ inFlightByKey'[k] = NoCall => Settled(a)'
                      /\ \A x \in Calls : inFlightByKey'[k] = x => a = x \/ Before(a, x)'
    BY DEF LaneEnds
  <2>1. CASE k = lane  BY <1>1, <1>2, <1>3, <2>1
  <2>2. CASE k # lane
    <3>1. Joined(a) /\ inFlightByKey'[k] = inFlightByKey[k]
          /\ inFlightByKey[k] \in Calls \cup {NoCall}
      BY <1>1, <1>3, <2>2 DEF OrderInv, InboundTypeOK
    <3> QED  BY <1>1, <1>5, <3>1 DEF OrderInv, LaneEnds
  <2> QED  BY <2>1, <2>2
<1>8. LaneEndsAreOpen'
  <2> SUFFICES ASSUME NEW k \in Lanes, inFlightByKey'[k] # NoCall
               PROVE  /\ CallOf[inFlightByKey'[k]].key = k
                      /\ phase'[inFlightByKey'[k]] \in {"queued", "before"}
    BY DEF LaneEndsAreOpen
  <2>1. inFlightByKey[k] \in Calls \cup {NoCall}  BY DEF OrderInv, InboundTypeOK
  <2> QED  BY <1>3, <2>1 DEF OrderInv, LaneEndsAreOpen
<1>9. ChainHolds'
  <2> SUFFICES ASSUME NEW d \in Calls, phase'[d] = "queued",
                      NEW a \in Calls, Before(a, d)', SameLane(a, d)
               PROVE  /\ waitsFor'[d] = NoCall => Settled(a)'
                      /\ \A x \in Calls : waitsFor'[d] = x => a = x \/ Before(a, x)'
    BY DEF ChainHolds, SameLane
  <2>1. CASE d = c
    <3>1. Joined(a) /\ CallOf[a].key = lane  BY <1>1, <1>6, <2>1 DEF SameLane
    <3>2. waitsFor'[d] = inFlightByKey[lane] /\ inFlightByKey[lane] \in Calls \cup {NoCall}
      BY <1>2, <1>3, <2>1 DEF OrderInv, InboundTypeOK
    <3>3. /\ inFlightByKey[lane] = NoCall => Settled(a)
          /\ \A x \in Calls : inFlightByKey[lane] = x => a = x \/ Before(a, x)
      BY <1>2, <3>1 DEF OrderInv, LaneEnds
    <3> QED  BY <1>1, <1>5, <3>2, <3>3
  <2>2. CASE d # c
    <3>1. Before(a, d) /\ phase[d] = "queued" /\ waitsFor'[d] = waitsFor[d]
          /\ waitsFor[d] \in Calls \cup {NoCall}
      BY <1>1, <1>3, <2>2 DEF OrderInv, InboundTypeOK
    <3>2. /\ waitsFor[d] = NoCall => Settled(a)
          /\ \A x \in Calls : waitsFor[d] = x => a = x \/ Before(a, x)
      BY <3>1 DEF OrderInv, ChainHolds
    <3> QED  BY <1>1, <1>5, <3>1, <3>2
  <2> QED  BY <2>1, <2>2
<1>10. ChainStays'
  <2> SUFFICES ASSUME NEW d \in Calls, phase'[d] = "queued", waitsFor'[d] # NoCall
               PROVE  SameLane(waitsFor'[d], d)
    BY DEF ChainStays, SameLane
  <2>1. CASE d = c
    BY <1>2, <1>3, <2>1 DEF OrderInv, LaneEndsAreOpen, SameLane
  <2>2. CASE d # c  BY <1>3, <2>2 DEF OrderInv, ChainStays
  <2> QED  BY <2>1, <2>2
<1>11. LanesInOrder'
  BY <1>1, <1>3, <1>5 DEF OrderInv, LanesInOrder, SameLane, Entered
<1> QED  BY <1>1, <1>4, <1>7, <1>8, <1>9, <1>10, <1>11 DEF OrderInv

(* A call enters when those before it have settled: the one it waits for,  *)
(* and with it those before that one.                                      *)
LEMMA EnterKeepsOrder ==
  ASSUME OrderInv, NEW c \in Calls, EnterCall(c)
  PROVE  OrderInv'
<1>1. /\ phase[c] = "queued" /\ (waitsFor[c] # NoCall => Settled(waitsFor[c]))
      /\ \A a \in Calls : phase'[a] = IF a = c THEN "before" ELSE phase[a]
      /\ UNCHANGED <<inFlightByKey, waitsFor, gateOf, released, arrivals>>
  BY DEF EnterCall, Waits, OrderInv, InboundTypeOK
<1>2. InboundTypeOK'  BY DEF EnterCall, OrderInv, InboundTypeOK
<1>3. \A a \in Calls : (Settled(a)' <=> Settled(a)) /\ (Joined(a)' <=> Joined(a))
  BY <1>1 DEF Settled, Joined
<1>4. \A a, b : Before(a, b)' <=> Before(a, b)  BY <1>1 DEF Before
<1>5. \A a, b \in Calls : Before(a, b) => Joined(a) /\ Joined(b) /\ a # b
  BY BeforeJoined
<1>6. ArrivalsAreCalls'  BY <1>1, <1>3 DEF OrderInv, ArrivalsAreCalls
<1>7. LaneEnds'  BY <1>1, <1>3, <1>4 DEF OrderInv, LaneEnds
<1>8. LaneEndsAreOpen'
  <2>1. \A k \in Lanes : inFlightByKey[k] \in Calls \cup {NoCall}
    BY DEF OrderInv, InboundTypeOK
  <2> QED  BY <1>1, <2>1 DEF OrderInv, LaneEndsAreOpen
<1>9. ChainHolds'  BY <1>1, <1>3, <1>4 DEF OrderInv, ChainHolds, SameLane
<1>10. ChainStays'  BY <1>1 DEF OrderInv, ChainStays, SameLane
<1>11. ASSUME NEW a \in Calls, Before(a, c), SameLane(a, c)  PROVE Settled(a)
  <2>1. CASE waitsFor[c] = NoCall  BY <1>1, <1>11, <2>1 DEF OrderInv, ChainHolds
  <2>2. CASE waitsFor[c] # NoCall
    <3>1. waitsFor[c] \in Calls  BY <2>2 DEF OrderInv, InboundTypeOK
    <3>2. SameLane(waitsFor[c], c) /\ Settled(waitsFor[c])
      BY <1>1, <2>2 DEF OrderInv, ChainStays
    <3>3. a = waitsFor[c] \/ Before(a, waitsFor[c])
      BY <1>1, <1>11, <2>2, <3>1 DEF OrderInv, ChainHolds
    <3>4. CASE Before(a, waitsFor[c])
      <4>1. Joined(waitsFor[c])  BY <1>5, <3>1, <3>4
      <4>2. Entered(waitsFor[c])  BY <3>2, <4>1 DEF Joined, Entered, Settled
      <4>3. SameLane(a, waitsFor[c])  BY <1>11, <3>2 DEF SameLane
      <4> QED  BY <3>1, <3>4, <4>2, <4>3 DEF OrderInv, LanesInOrder
    <3> QED  BY <3>2, <3>3, <3>4
  <2> QED  BY <2>1, <2>2
<1>12. LanesInOrder'
  BY <1>1, <1>3, <1>4, <1>11 DEF OrderInv, LanesInOrder, SameLane, Entered
<1> QED  BY <1>2, <1>6, <1>7, <1>8, <1>9, <1>10, <1>12 DEF OrderInv

(* A lane is forgotten by its last call only, when all of it has settled.  *)
LEMMA SettleKeepsOrder ==
  ASSUME OrderInv, NEW c \in Calls, NEW how \in {"done", "failed"}, SettleCall(c, how)
  PROVE  OrderInv'
<1> DEFINE lane == CallOf[c].key
<1>1. lane \in Lanes /\ c # NoCall  BY InboundAssumption DEF Lanes
<1>2. /\ phase[c] = "before" /\ \A a \in Calls : phase'[a] = IF a = c THEN how ELSE phase[a]
      /\ \A k \in Lanes : inFlightByKey'[k] =
           IF k = lane /\ inFlightByKey[k] = c THEN NoCall ELSE inFlightByKey[k]
      /\ UNCHANGED <<waitsFor, gateOf, released, arrivals>>
  BY <1>1 DEF SettleCall, Cleared, OrderInv, InboundTypeOK
<1>3. InboundTypeOK'
  <2>1. inFlightByKey' \in [Lanes -> Calls \cup {NoCall}]
    BY <1>1 DEF SettleCall, Cleared, OrderInv, InboundTypeOK
  <2> QED  BY <2>1 DEF SettleCall, OrderInv, InboundTypeOK
<1>4. \A a \in Calls : /\ Settled(a)' <=> Settled(a) \/ a = c
                       /\ Joined(a)' <=> Joined(a)
                       /\ Entered(a)' <=> Entered(a)
  BY <1>2 DEF Settled, Joined, Entered
<1>5. \A a, b : Before(a, b)' <=> Before(a, b)  BY <1>2 DEF Before
<1>6. ArrivalsAreCalls'  BY <1>2, <1>4 DEF OrderInv, ArrivalsAreCalls
<1>7. \A a \in Calls : Before(a, c) /\ SameLane(a, c) => Settled(a)
  BY <1>2 DEF OrderInv, LanesInOrder, Entered
<1>8. LaneEnds'
  <2> SUFFICES ASSUME NEW k \in Lanes, NEW a \in Calls, CallOf[a].key = k, Joined(a)'
               PROVE  /\ inFlightByKey'[k] = NoCall => Settled(a)'
                      /\ \A x \in Calls : inFlightByKey'[k] = x => a = x \/ Before(a, x)'
    BY DEF LaneEnds
  <2>1. /\ inFlightByKey[k] = NoCall => Settled(a)
        /\ \A x \in Calls : inFlightByKey[k] = x => a = x \/ Before(a, x)
    BY <1>4 DEF OrderInv, LaneEnds
  <2>2. CASE k = lane /\ inFlightByKey[k] = c
    <3>1. a = c \/ Before(a, c)  BY <2>1, <2>2
    <3>2. SameLane(a, c)  BY <2>2 DEF SameLane
    <3>3. Settled(a)'  BY <1>4, <1>7, <3>1, <3>2
    <3>4. inFlightByKey'[k] = NoCall  BY <1>2, <2>2
    <3> QED  BY <3>3, <3>4, InboundAssumption
  <2>3. CASE ~(k = lane /\ inFlightByKey[k] = c)
    BY <1>2, <1>4, <1>5, <2>1, <2>3
  <2> QED  BY <2>2, <2>3
<1>9. LaneEndsAreOpen'
  <2> SUFFICES ASSUME NEW k \in Lanes, inFlightByKey'[k] # NoCall
               PROVE  /\ CallOf[inFlightByKey'[k]].key = k
                      /\ phase'[inFlightByKey'[k]] \in {"queued", "before"}
    BY DEF LaneEndsAreOpen
  <2>1. inFlightByKey'[k] = inFlightByKey[k] /\ inFlightByKey[k] \in Calls
        /\ ~(k = lane /\ inFlightByKey[k] = c)
    BY <1>2 DEF OrderInv, InboundTypeOK
  <2>2. CallOf[inFlightByKey[k]].key = k /\ phase[inFlightByKey[k]] \in {"queued", "before"}
    BY <2>1, InboundAssumption DEF OrderInv, LaneEndsAreOpen
  <2> QED  BY <1>2, <2>1, <2>2
<1>10. ChainHolds'
  BY <1>2, <1>4, <1>5 DEF OrderInv, ChainHolds, SameLane
<1>11. ChainStays'  BY <1>2 DEF OrderInv, ChainStays, SameLane
<1>12. LanesInOrder'  BY <1>2, <1>4, <1>5 DEF OrderInv, LanesInOrder, SameLane
<1> QED  BY <1>3, <1>6, <1>8, <1>9, <1>10, <1>11, <1>12 DEF OrderInv

LEMMA RefuseKeepsOrder ==
  ASSUME OrderInv, NEW c \in Calls, RouteRefused(c)
  PROVE  OrderInv'
<1>1. /\ phase[c] = "new" /\ \A a \in Calls : phase'[a] = IF a = c THEN "refused" ELSE phase[a]
      /\ UNCHANGED <<inFlightByKey, waitsFor, gateOf, released, arrivals>>
  BY DEF RouteRefused, OrderInv, InboundTypeOK
<1>2. InboundTypeOK'  BY DEF RouteRefused, OrderInv, InboundTypeOK
<1>3. \A a \in Calls : /\ Settled(a)' <=> Settled(a) \/ a = c
                       /\ Joined(a)' <=> Joined(a)
                       /\ Entered(a)' <=> Entered(a)
  BY <1>1 DEF Settled, Joined, Entered
<1>4. \A a, b : Before(a, b)' <=> Before(a, b)  BY <1>1 DEF Before
<1>5. ArrivalsAreCalls'  BY <1>1, <1>3 DEF OrderInv, ArrivalsAreCalls
<1>6. LaneEnds'  BY <1>1, <1>3, <1>4 DEF OrderInv, LaneEnds
<1>7. LaneEndsAreOpen'
  <2>1. \A k \in Lanes : inFlightByKey[k] \in Calls \cup {NoCall}
    BY DEF OrderInv, InboundTypeOK
  <2> QED  BY <1>1, <2>1 DEF OrderInv, LaneEndsAreOpen
<1>8. ChainHolds'  BY <1>1, <1>3, <1>4 DEF OrderInv, ChainHolds, SameLane
<1>9. ChainStays'  BY <1>1 DEF OrderInv, ChainStays, SameLane
<1>10. LanesInOrder'  BY <1>1, <1>3, <1>4 DEF OrderInv, LanesInOrder, SameLane
<1> QED  BY <1>2, <1>5, <1>6, <1>7, <1>8, <1>9, <1>10 DEF OrderInv

-----------------------------------------------------------------------------
(* The gates.                                                              *)

(* A step that opens, counts and releases nothing.                         *)
LEMMA GatesRest ==
  ASSUME OrderInv, GatesCount, UNCHANGED <<barriers, gateOf, released>>,
         \A c \in Calls : Joined(c) => Joined(c)',
         \A c \in Calls : Entered(c)' => Entered(c) \/ gateOf[c] \in released
  PROVE  GatesCount'
<1>1. \A g \in Calls : Members(g)' = Members(g)  BY DEF Members
<1>2. \A g \in released \ {NoCall} : g \in Calls  BY DEF OrderInv, InboundTypeOK
<1>3. \A c \in Calls : gateOf'[c] # NoCall => Joined(c)'  BY DEF GatesCount
<1>4. \A g \in Calls : IsFiniteSet(Members(g)')  BY <1>1 DEF GatesCount
<1>5. \A c \in Calls : Entered(c)' => gateOf'[c] \in released'  BY DEF GatesCount
<1>6. \A step \in DOMAIN barriers', g \in Calls : barriers'[step].gate = g =>
        /\ barriers'[step].arrived <= Cardinality(Members(g)')
        /\ CallOf[g].barrier \notin {NoBarrier, NoStep}
        /\ barriers'[step].required = CallOf[g].barrier.size
  BY <1>1 DEF GatesCount
<1>7. \A g \in released' \ {NoCall} :
        /\ CallOf[g].barrier \notin {NoBarrier, NoStep}
        /\ Cardinality(Members(g)') >= CallOf[g].barrier.size
  BY <1>1, <1>2 DEF GatesCount
<1> QED  BY <1>3, <1>4, <1>5, <1>6, <1>7 DEF GatesCount

(* One more arrival at a barrier changes nothing else of it.                *)
LEMMA OneMoreArrived ==
  ASSUME NEW G, NEW old \in [gate : G, arrived : Nat, required : Nat]
  PROVE  LET new == [old EXCEPT !.arrived = @ + 1]
         IN /\ new \in [gate : G, arrived : Nat, required : Nat]
            /\ new.gate = old.gate /\ new.required = old.required /\ new.arrived = old.arrived + 1
OBVIOUS

(* An arrival is one more call behind its gate, which counts it.           *)
LEMMA BarrierCounts ==
  ASSUME OrderInv, GatesCount, NEW c \in Calls, RouteToBarrier(c)
  PROVE  /\ GatesCount'
         /\ gateOf' \in [Calls -> Calls \cup {NoCall}]
         /\ released' \in SUBSET (Calls \cup {NoCall})
<1> DEFINE step == <<CallOf[c].key, CallOf[c].barrier.step>>
           next == Arrived(c, step)
           kept == IF Releases(next) THEN DOMAIN barriers \ {step}
                   ELSE DOMAIN barriers \cup {step}
<1>0. PICK g : g = next.gate  OBVIOUS
<1>1. /\ JoinLane(c) /\ CallOf[c].barrier \notin {NoBarrier, NoStep}
      /\ gateOf' = [gateOf EXCEPT ![c] = g]
      /\ released' = IF Releases(next) THEN released \cup {g} ELSE released
      /\ barriers' = [s \in kept |-> IF s = step THEN next ELSE barriers[s]]
  BY <1>0 DEF RouteToBarrier
<1>2. ~Joined(c) /\ \A a \in Calls : Joined(a)' <=> Joined(a) \/ a = c
  BY <1>1, JoiningIsLast
<1>3. \A a \in Calls : Entered(a)' => Entered(a)
  BY <1>1 DEF JoinLane, OrderInv, InboundTypeOK, Entered
<1>4. gateOf[c] = NoCall  BY <1>2 DEF GatesCount, OrderInv, InboundTypeOK
<1>5. /\ g \in Calls /\ g # NoCall /\ next.arrived \in Nat
      /\ CallOf[g].barrier \notin {NoBarrier, NoStep}
      /\ next.required = CallOf[g].barrier.size /\ next.required \in Nat
      /\ next \in [gate : Calls, arrived : Nat, required : Nat]
      /\ IF step \in DOMAIN barriers
         THEN g = barriers[step].gate /\ next.arrived = barriers[step].arrived + 1
         ELSE g = c /\ next.arrived = 1
  <2>1. CASE step \in DOMAIN barriers
    <3> DEFINE old == barriers[step]
    <3>1. next = [old EXCEPT !.arrived = @ + 1]  BY <2>1 DEF Arrived
    <3>2. /\ old.gate \in Calls /\ old.arrived \in Nat
          /\ CallOf[old.gate].barrier \notin {NoBarrier, NoStep}
          /\ old.required = CallOf[old.gate].barrier.size
          /\ old \in [gate : Calls, arrived : Nat, required : Nat]
      BY <2>1 DEF GatesCount
    <3>3. /\ next.gate = old.gate /\ next.required = old.required /\ next.arrived = old.arrived + 1
          /\ next \in [gate : Calls, arrived : Nat, required : Nat]
      <4> PICK was \in [gate : Calls, arrived : Nat, required : Nat] : was = old
        BY <3>2
      <4>1. next = [was EXCEPT !.arrived = @ + 1]
        BY <3>1
      <4> HIDE DEF next
      <4>2. /\ next \in [gate : Calls, arrived : Nat, required : Nat]
            /\ next.gate = was.gate /\ next.required = was.required /\ next.arrived = was.arrived + 1
        BY ONLY SMTT(30), <4>1, was \in [gate : Calls, arrived : Nat, required : Nat], OneMoreArrived
      <4> QED
        BY ONLY <4>2, was = old
    <3>4. CallOf[old.gate].barrier.size \in Nat /\ old.gate # NoCall
      BY <3>2, InboundAssumption
    <3>5. next.arrived \in Nat /\ next.required \in Nat
      <4> HIDE DEF old, next
      <4> QED
        BY <3>2, <3>3, <3>4
    <3> QED  BY <1>0, <2>1, <3>2, <3>3, <3>4, <3>5
  <2>2. CASE step \notin DOMAIN barriers
    <3>1. next = [gate |-> c, arrived |-> 1, required |-> CallOf[c].barrier.size]
      BY <2>2 DEF Arrived
    <3> QED  BY <1>0, <1>1, <2>2, <3>1, InboundAssumption
  <2> QED  BY SMTT(60), <2>1, <2>2
<1>6. \A a \in Calls : gateOf'[a] = IF a = c THEN g ELSE gateOf[a]
  BY <1>1 DEF OrderInv, InboundTypeOK
<1>7. gateOf' \in [Calls -> Calls \cup {NoCall}] /\ released' \in SUBSET (Calls \cup {NoCall})
  BY <1>1, <1>5 DEF OrderInv, InboundTypeOK
<1>8. \A h \in Calls : Members(h)' = IF h = g THEN Members(h) \cup {c} ELSE Members(h)
  BY <1>4, <1>6, InboundAssumption DEF Members
<1>9. \A h \in Calls : c \notin Members(h)  BY <1>4, InboundAssumption DEF Members
<1>10. \A h \in Calls : IsFiniteSet(Members(h)) /\ Cardinality(Members(h)) \in Nat
  BY FS_CardinalityType DEF GatesCount
<1>11. ASSUME NEW h \in Calls
       PROVE  /\ IsFiniteSet(Members(h)')
              /\ Cardinality(Members(h)') =
                   IF h = g THEN Cardinality(Members(h)) + 1 ELSE Cardinality(Members(h))
  <2>1. IsFiniteSet(Members(h) \cup {c})
        /\ Cardinality(Members(h) \cup {c}) = Cardinality(Members(h)) + 1
    BY <1>9, <1>10, FS_AddElement
  <2> QED  BY <1>8, <1>10, <2>1
<1>12. next.arrived <= Cardinality(Members(g)')
  <2>1. Cardinality(Members(g)') = Cardinality(Members(g)) + 1  BY <1>5, <1>11
  <2>2. Cardinality(Members(g)) \in Nat  BY <1>5, <1>10
  <2>3. step \in DOMAIN barriers => barriers[step].arrived <= Cardinality(Members(g))
                                    /\ barriers[step].arrived \in Nat
    <3> SUFFICES ASSUME step \in DOMAIN barriers
                 PROVE  /\ barriers[step].arrived <= Cardinality(Members(g))
                        /\ barriers[step].arrived \in Nat
      OBVIOUS
    <3>1. barriers[step].gate = g /\ g \in Calls  BY <1>5
    <3>2. barriers[step] \in [gate : Calls, arrived : Nat, required : Nat]  BY DEF GatesCount
    <3> QED  BY <3>1, <3>2 DEF GatesCount
  <2> QED  BY <1>5, <2>1, <2>2, <2>3
<1>13. ASSUME NEW a \in Calls, gateOf'[a] # NoCall  PROVE Joined(a)'
  BY <1>2, <1>6, <1>13 DEF GatesCount
<1>14. ASSUME NEW s \in DOMAIN barriers'
       PROVE  /\ barriers'[s] \in [gate : Calls, arrived : Nat, required : Nat]
              /\ \A h \in Calls : barriers'[s].gate = h =>
                   /\ barriers'[s].arrived <= Cardinality(Members(h)')
                   /\ CallOf[h].barrier \notin {NoBarrier, NoStep}
                   /\ barriers'[s].required = CallOf[h].barrier.size
  <2>1. s \in kept /\ barriers'[s] = IF s = step THEN next ELSE barriers[s]  BY <1>1
  <2>2. CASE s = step  BY <1>0, <1>5, <1>12, <2>1, <2>2
  <2>3. CASE s # step
    <3>1. s \in DOMAIN barriers /\ barriers'[s] = barriers[s]  BY <2>1, <2>3
    <3>2. barriers[s] \in [gate : Calls, arrived : Nat, required : Nat]
      BY <3>1 DEF GatesCount
    <3>3. ASSUME NEW h \in Calls, barriers[s].gate = h
          PROVE  /\ barriers[s].arrived <= Cardinality(Members(h)')
                 /\ CallOf[h].barrier \notin {NoBarrier, NoStep}
                 /\ barriers[s].required = CallOf[h].barrier.size
      <4>1. /\ barriers[s].arrived <= Cardinality(Members(h)) /\ barriers[s].arrived \in Nat
            /\ CallOf[h].barrier \notin {NoBarrier, NoStep}
            /\ barriers[s].required = CallOf[h].barrier.size
        BY <3>1, <3>2, <3>3 DEF GatesCount
      <4>2. Cardinality(Members(h)) \in Nat
            /\ Cardinality(Members(h)') = IF h = g THEN Cardinality(Members(h)) + 1
                                           ELSE Cardinality(Members(h))
        BY <1>10, <1>11
      <4> QED  BY <4>1, <4>2
    <3> QED  BY <3>1, <3>2, <3>3
  <2> QED  BY <2>2, <2>3
<1>15. ASSUME NEW h \in released' \ {NoCall}
       PROVE  /\ CallOf[h].barrier \notin {NoBarrier, NoStep}
              /\ Cardinality(Members(h)') >= CallOf[h].barrier.size
  <2>1. h \in Calls  BY <1>7
  <2>2. CASE h \in released
    <3>1. /\ CallOf[h].barrier \notin {NoBarrier, NoStep}
          /\ Cardinality(Members(h)) >= CallOf[h].barrier.size
      BY <1>15, <2>2 DEF GatesCount
    <3>2. CallOf[h].barrier.size \in Nat  BY <2>1, <3>1, InboundAssumption
    <3>3. Cardinality(Members(h)) \in Nat
          /\ Cardinality(Members(h)') = IF h = g THEN Cardinality(Members(h)) + 1
                                         ELSE Cardinality(Members(h))
      BY <1>10, <1>11, <2>1
    <3> QED  BY <3>1, <3>2, <3>3
  <2>3. CASE h \notin released
    <3>1. h = g /\ Releases(next)  BY <1>1, <2>3
    <3>2. next.arrived >= next.required  BY <3>1 DEF Releases
    <3>3. Cardinality(Members(g)') \in Nat  BY <1>5, <1>11, FS_CardinalityType
    <3> QED  BY <1>5, <1>12, <3>1, <3>2, <3>3
  <2> QED  BY <2>2, <2>3
<1>16. ASSUME NEW a \in Calls, Entered(a)'  PROVE gateOf'[a] \in released'
  <2>1. Entered(a) /\ gateOf[a] \in released  BY <1>3, <1>16 DEF GatesCount
  <2>2. a # c  BY <1>2, <2>1 DEF Entered, Joined
  <2> QED  BY <1>1, <1>6, <2>1, <2>2
<1>17. \A h \in Calls : IsFiniteSet(Members(h)')  BY <1>11
<1>18. GatesCount'
  BY <1>13, <1>14, <1>15, <1>16, <1>17 DEF GatesCount
<1> QED  BY <1>7, <1>18

-----------------------------------------------------------------------------
(* The aggregates.                                                         *)

(* What appendRecentWindow returns: the new record, then the window it was *)
(* given, as far as the limit goes (SagaAggregate.ts:307-314).             *)
LEMMA AppendRecentWindowIs ==
  ASSUME NEW S, NEW window \in Seq(S), NEW value \in S
  PROVE  LET grown == AppendRecentWindow(window, value)
         IN /\ grown \in Seq(S)
            /\ Len(grown) = IF Len(window) < WindowLimit THEN Len(window) + 1 ELSE WindowLimit
            /\ \A i \in 1 .. Len(grown) :
                 grown[i] = IF i = 1 THEN value ELSE window[i - 1]
<1> DEFINE w == <<value>> \o window
           n == IF Len(w) < WindowLimit THEN Len(w) ELSE WindowLimit
<1>1. Len(window) \in Nat /\ WindowLimit \in Nat  BY WindowAssumption
<1>2. <<value>> \in Seq(S) /\ Len(<<value>>) = 1 /\ <<value>>[1] = value  OBVIOUS
<1>3. /\ w \in Seq(S) /\ Len(w) = 1 + Len(window)
      /\ \A i \in 1 .. 1 + Len(window) : w[i] = IF i <= 1 THEN <<value>>[i] ELSE window[i - 1]
  BY <1>2, ConcatProperties
<1>4. n \in Nat /\ n <= Len(w)  BY <1>1, <1>3
<1>5. \A i \in 1 .. n : w[i] \in S
  <2>1. \A i \in 1 .. Len(w) : w[i] \in S  BY <1>3, ElementOfSeq
  <2> QED  BY <1>1, <1>3, <1>4, <2>1
<1>6. /\ SubSeq(w, 1, n) \in Seq(S)
      /\ Len(SubSeq(w, 1, n)) = IF 1 <= n THEN n - 1 + 1 ELSE 0
      /\ \A i \in 1 .. n - 1 + 1 : SubSeq(w, 1, n)[i] = w[1 + i - 1]
  BY <1>4, <1>5, SubSeqProperties
<1>7. Len(SubSeq(w, 1, n)) = n  BY <1>4, <1>6
<1>8. ASSUME NEW i \in 1 .. n
      PROVE  SubSeq(w, 1, n)[i] = IF i = 1 THEN value ELSE window[i - 1]
  <2>1. SubSeq(w, 1, n)[i] = w[i]  BY <1>4, <1>6
  <2>2. i \in 1 .. 1 + Len(window)  BY <1>1, <1>3, <1>4
  <2>3. w[i] = IF i <= 1 THEN <<value>>[i] ELSE window[i - 1]  BY <1>3, <2>2
  <2> QED  BY <1>2, <1>4, <2>1, <2>3
<1>9. n = IF Len(window) < WindowLimit THEN Len(window) + 1 ELSE WindowLimit
  BY <1>1, <1>3
<1> QED  BY <1>6, <1>7, <1>8, <1>9 DEF AppendRecentWindow

(* A transition that is not rejected starts where the trail ends, so that  *)
(* the window it is put in front of stays a trail.                         *)
LEMMA AppliedIsSound ==
  ASSUME NEW saga \in State, Sound(saga), NEW c \in Calls,
         ~Rejects(saga, CallOf[c].command)
  PROVE  /\ Applied(saga, CallOf[c].command) \in State
         /\ Sound(Applied(saga, CallOf[c].command))
<1> DEFINE command == CallOf[c].command
           next == Applied(saga, command)
           trail == saga.recent["transitions"]
<1>1. command \in Commands  BY DEF Commands
<1>2. saga.version \in Nat /\ saga.totals \in [Windows -> Nat]
      /\ saga.recent \in [Windows -> Seq(Commands)]
      /\ saga.lifecycle \in Lifecycles /\ saga.id \in Ids
  BY DEF State
<1>3. CASE command.type = "createInstance"
  <2>1. /\ next = [saga EXCEPT !.id = command.id, !.lifecycle = command.lifecycle,
                                !.version = @ + 1]
        /\ ~Created(saga)
    BY <1>3 DEF Applied, Rejects
  <2>2. command.id \in Ids /\ command.id # NoSaga /\ command.lifecycle \in Lifecycles
    BY <1>1, <1>3, InboundAssumption DEF Ids
  <2>3. next \in State
    <3>1. next = [id |-> command.id, lifecycle |-> command.lifecycle,
                  version |-> saga.version + 1, totals |-> saga.totals,
                  recent |-> saga.recent]
      BY <2>1 DEF State
    <3> QED  BY <1>2, <2>2, <3>1 DEF State
  <2>4. /\ next.id = command.id /\ next.recent = saga.recent
        /\ next.totals = saga.totals /\ next.version = saga.version + 1
    BY <2>1 DEF State
  <2>5. trail = <<>> /\ saga.version = 0 /\ \A w \in Windows : saga.totals[w] = 0
    BY <2>1 DEF Sound, CountsRecords
  <2>6. TrailIsContinuous(next)
    <3>1. next.recent["transitions"] = <<>>  BY <2>4, <2>5
    <3> QED  BY <3>1 DEF TrailIsContinuous
  <2>7. CountsRecords(next)
    BY <2>2, <2>4, <2>5 DEF CountsRecords, Created, Windows
  <2> QED  BY <2>3, <2>6, <2>7 DEF Sound
<1>4. CASE command.type # "createInstance"
  <2> DEFINE w == WindowOf(command)
             record == AppendRecentWindow(saga.recent[w], command)
             to == IF w = "transitions" THEN command.to ELSE saga.lifecycle
  <2>1. /\ command.type = "observeSourceEvent" => w = "events"
        /\ command.type = "recordStateTransition" => w = "transitions"
        /\ command.type = "recordIntentLifecycle" => w = "intents"
        /\ command.type = "recordActivityLifecycle" => w = "activities"
    BY DEF WindowOf
  <2>2. w \in Windows /\ (w = "transitions" <=> command.type = "recordStateTransition")
    BY <1>4, <2>1, InboundAssumption DEF Windows
  <2>3. to \in Lifecycles  BY <1>2, <2>2, InboundAssumption
  <2>4. /\ record \in Seq(Commands)
        /\ Len(record) = IF Len(saga.recent[w]) < WindowLimit THEN Len(saga.recent[w]) + 1
                         ELSE WindowLimit
        /\ \A i \in 1 .. Len(record) :
             record[i] = IF i = 1 THEN command ELSE saga.recent[w][i - 1]
    <3>1. saga.recent[w] \in Seq(Commands)  BY <1>2, <2>2
    <3>2. PICK win : win = saga.recent[w]  OBVIOUS
    <3>3. PICK m : m = command  OBVIOUS
    <3>4. win \in Seq(Commands) /\ m \in Commands  BY <1>1, <3>1, <3>2, <3>3
    <3>5. LET grown == AppendRecentWindow(win, m)
          IN /\ grown \in Seq(Commands)
             /\ Len(grown) = IF Len(win) < WindowLimit THEN Len(win) + 1 ELSE WindowLimit
             /\ \A i \in 1 .. Len(grown) : grown[i] = IF i = 1 THEN m ELSE win[i - 1]
      BY <3>4, AppendRecentWindowIs
    <3> QED  BY <3>2, <3>3, <3>5
  <2>5. next = [saga EXCEPT !.lifecycle = IF w = "transitions" THEN command.to ELSE @,
                             !.version = @ + 1,
                             !.totals[w] = @ + 1,
                             !.recent[w] = AppendRecentWindow(@, command)]
    BY <1>4 DEF Applied
  <2>6. next = [id |-> saga.id, lifecycle |-> to, version |-> saga.version + 1,
                totals |-> [saga.totals EXCEPT ![w] = @ + 1],
                recent |-> [saga.recent EXCEPT ![w] = record]]
    BY <1>2, <2>2, <2>5 DEF State
  <2>7. next \in State
    <3>1. [saga.totals EXCEPT ![w] = @ + 1] \in [Windows -> Nat]  BY <1>2, <2>2
    <3>2. [saga.recent EXCEPT ![w] = record] \in [Windows -> Seq(Commands)]
      BY <1>2, <2>2, <2>4
    <3> QED  BY <1>2, <2>3, <2>6, <3>1, <3>2 DEF State
  <2>8. Created(saga) /\ Created(next)
    BY <1>4, <2>6 DEF Rejects, Created
  <2>9. CountsRecords(next)
    <3>1. saga.version = 1 + saga.totals["transitions"] + saga.totals["events"]
                            + saga.totals["intents"] + saga.totals["activities"]
      BY <2>8 DEF Sound, CountsRecords
    <3>2. next.version = saga.version + 1
          /\ \A v \in Windows : next.totals[v] = IF v = w THEN saga.totals[v] + 1
                                                ELSE saga.totals[v]
      BY <1>2, <2>2, <2>6
    <3>3. next.version = 1 + next.totals["transitions"] + next.totals["events"]
                           + next.totals["intents"] + next.totals["activities"]
      <4>1. /\ saga.totals["transitions"] \in Nat /\ saga.totals["events"] \in Nat
            /\ saga.totals["intents"] \in Nat /\ saga.totals["activities"] \in Nat
        BY <1>2 DEF Windows
      <4>2. w \in {"transitions", "events", "intents", "activities"}
        BY <2>2 DEF Windows
      <4>3. \A v \in {"transitions", "events", "intents", "activities"} :
              next.totals[v] = IF v = w THEN saga.totals[v] + 1 ELSE saga.totals[v]
        BY <3>2 DEF Windows
      <4> HIDE DEF w, next
      <4>4. CASE w = "transitions"
        <5>1. /\ next.totals["transitions"] = saga.totals["transitions"] + 1
              /\ next.totals["events"] = saga.totals["events"]
              /\ next.totals["intents"] = saga.totals["intents"]
              /\ next.totals["activities"] = saga.totals["activities"]
          BY <4>3, <4>4
        <5>2. next.version = saga.version + 1 /\ saga.version \in Nat  BY <1>2, <3>2
        <5> QED  BY <3>1, <4>1, <5>1, <5>2
      <4>5. CASE w = "events"
        <5>1. /\ next.totals["transitions"] = saga.totals["transitions"]
              /\ next.totals["events"] = saga.totals["events"] + 1
              /\ next.totals["intents"] = saga.totals["intents"]
              /\ next.totals["activities"] = saga.totals["activities"]
          BY <4>3, <4>5
        <5>2. next.version = saga.version + 1 /\ saga.version \in Nat  BY <1>2, <3>2
        <5> QED  BY <3>1, <4>1, <5>1, <5>2
      <4>6. CASE w = "intents"
        <5>1. /\ next.totals["transitions"] = saga.totals["transitions"]
              /\ next.totals["events"] = saga.totals["events"]
              /\ next.totals["intents"] = saga.totals["intents"] + 1
              /\ next.totals["activities"] = saga.totals["activities"]
          BY <4>3, <4>6
        <5>2. next.version = saga.version + 1 /\ saga.version \in Nat  BY <1>2, <3>2
        <5> QED  BY <3>1, <4>1, <5>1, <5>2
      <4>7. CASE w = "activities"
        <5>1. /\ next.totals["transitions"] = saga.totals["transitions"]
              /\ next.totals["events"] = saga.totals["events"]
              /\ next.totals["intents"] = saga.totals["intents"]
              /\ next.totals["activities"] = saga.totals["activities"] + 1
          BY <4>3, <4>7
        <5>2. next.version = saga.version + 1 /\ saga.version \in Nat  BY <1>2, <3>2
        <5> QED  BY <3>1, <4>1, <5>1, <5>2
      <4> QED  BY <4>2, <4>4, <4>5, <4>6, <4>7
    <3> QED  BY <2>8, <3>3 DEF CountsRecords
  <2>10. TrailIsContinuous(next)
    <3>1. TrailIsContinuous(saga)  BY DEF Sound
    <3>2. CASE w # "transitions"
      <4>1. next.recent["transitions"] = trail /\ next.lifecycle = saga.lifecycle
        BY SMTT(60), <1>2, <2>6, <3>2 DEF Windows
      <4> QED  BY <3>1, <4>1 DEF TrailIsContinuous
    <3>3. CASE w = "transitions"
      <4>1. next.recent["transitions"] = record /\ next.lifecycle = command.to
        BY <1>2, <2>6, <3>3 DEF Windows
      <4>2. command.from = saga.lifecycle /\ saga.lifecycle \notin TerminalLifecycles
        BY <2>2, <3>3 DEF Rejects
      <4>3. Len(trail) \in Nat /\ WindowLimit \in Nat /\ trail \in Seq(Commands)
        BY <1>2, WindowAssumption DEF Windows
      <4>4. /\ DOMAIN record = 1 .. Len(record) /\ Len(record) \in Nat
            /\ Len(record) <= Len(trail) + 1
            /\ \A i \in 1 .. Len(record) : record[i] = IF i = 1 THEN command ELSE trail[i - 1]
        BY <2>4, <3>3, <4>3
      <4>5. /\ \A i \in 1 .. Len(trail) - 1 : trail[i].from = trail[i + 1].to
            /\ \A i \in 1 .. Len(trail) : trail[i].from \notin TerminalLifecycles
            /\ trail # <<>> => trail[1].to = saga.lifecycle
        BY <3>1, <4>3 DEF TrailIsContinuous
      <4>6. ASSUME NEW i \in 1 .. Len(record) - 1  PROVE record[i].from = record[i + 1].to
        <5>1. i \in 1 .. Len(record) /\ i + 1 \in 1 .. Len(record) /\ i \in 1 .. Len(trail)
          BY <4>3, <4>4
        <5>2. record[i + 1] = trail[i]  BY <4>4, <5>1
        <5>3. CASE i = 1
          <6>1. trail # <<>>  BY <4>3, <5>1
          <6> QED  BY <4>2, <4>4, <4>5, <5>1, <5>2, <5>3, <6>1
        <5>4. CASE i # 1
          <6>1. record[i] = trail[i - 1] /\ i - 1 \in 1 .. Len(trail) - 1
            BY <4>3, <4>4, <5>1, <5>4
          <6>2. trail[i - 1].from = trail[(i - 1) + 1].to  BY <4>5, <6>1
          <6> QED  BY <5>1, <5>2, <6>1, <6>2
        <5> QED  BY <5>3, <5>4
      <4>7. ASSUME NEW i \in 1 .. Len(record)
            PROVE  record[i].from \notin TerminalLifecycles
        <5>1. CASE i = 1  BY <4>2, <4>4, <5>1
        <5>2. CASE i # 1
          <6>1. record[i] = trail[i - 1] /\ i - 1 \in 1 .. Len(trail)
            BY <4>3, <4>4, <5>2
          <6> QED  BY <4>5, <6>1
        <5> QED  BY <5>1, <5>2
      <4>8. ASSUME record # <<>>  PROVE record[1].to = command.to
        <5>1. 1 \in 1 .. Len(record)  BY <2>4, <4>4, <4>8
        <5> QED  BY <4>4, <5>1
      <4> QED  BY <4>1, <4>4, <4>6, <4>7, <4>8 DEF TrailIsContinuous
    <3> QED  BY <3>2, <3>3
  <2> QED  BY <2>7, <2>9, <2>10 DEF Sound
<1> QED  BY <1>3, <1>4

-----------------------------------------------------------------------------
(* The theorems.                                                           *)

LEMMA InitInboundIInv == InboundInit => InboundIInv
<1> SUFFICES ASSUME InboundInit PROVE InboundIInv  OBVIOUS
<1>1. /\ \A c \in Calls : phase[c] = "new" /\ gateOf[c] = NoCall /\ waitsFor[c] = NoCall
      /\ arrivals = <<>> /\ \A c, d : ~Before(c, d)
  BY DEF InboundInit, Before
<1>2. InboundTypeOK  BY DEF InboundInit, InboundTypeOK, Lanes
<1>3. OrderInv
  BY <1>1, <1>2 DEF InboundInit, OrderInv, ArrivalsAreCalls, LaneEnds, LaneEndsAreOpen,
     ChainHolds, ChainStays, LanesInOrder, Joined, Entered, Lanes
<1>4. GatesCount
  <2>1. \A g \in Calls : Members(g) = {}  BY <1>1, InboundAssumption DEF Members
  <2>2. DOMAIN barriers = {} /\ released = {NoCall}  BY DEF InboundInit
  <2> QED  BY <1>1, <2>1, <2>2, FS_EmptySet DEF GatesCount, Entered
<1>5. CreateInitialState \in State /\ Sound(CreateInitialState)
  <2>1. [w \in Windows |-> <<>>] \in [Windows -> Seq(Commands)]  OBVIOUS
  <2>2. CreateInitialState \in State
    BY <2>1 DEF CreateInitialState, State, Ids, Lifecycles
  <2>3. /\ CreateInitialState.recent["transitions"] = <<>>
        /\ CreateInitialState.version = 0 /\ CreateInitialState.id = NoSaga
        /\ \A w \in Windows : CreateInitialState.totals[w] = 0
    BY DEF CreateInitialState, Windows
  <2> QED  BY <2>2, <2>3 DEF Sound, TrailIsContinuous, CountsRecords, Created
<1> QED  BY <1>3, <1>4, <1>5 DEF InboundIInv, InboundInit

LEMMA NextInboundIInv == InboundIInv /\ [InboundNext]_inboundVars => InboundIInv'
<1> SUFFICES ASSUME InboundIInv, [InboundNext]_inboundVars PROVE InboundIInv'  OBVIOUS
<1> USE DEF InboundIInv
<1>1. CASE UNCHANGED inboundVars
  BY SMTT(60), <1>1 DEF inboundVars, OrderInv, InboundTypeOK, ArrivalsAreCalls, LaneEnds,
     LaneEndsAreOpen, ChainHolds, ChainStays, LanesInOrder, GatesCount, Members, Joined,
     Entered, Settled, Before
<1>2. ASSUME NEW c \in Calls, RouteRefused(c)  PROVE InboundIInv'
  <2>1. OrderInv'  BY <1>2, RefuseKeepsOrder
  <2>2. \A a \in Calls : (Joined(a) => Joined(a)') /\ (Entered(a)' => Entered(a))
    BY <1>2 DEF RouteRefused, OrderInv, InboundTypeOK, Joined, Entered
  <2>3. GatesCount'  BY <1>2, <2>2, GatesRest DEF RouteRefused
  <2> QED  BY <1>2, <2>1, <2>3 DEF RouteRefused
<1>3. ASSUME NEW c \in Calls, Route(c)  PROVE InboundIInv'
  <2>1. JoinLane(c) /\ UNCHANGED <<barriers, gateOf, released>>  BY <1>3 DEF Route
  <2>2. OrderInv'  BY <2>1, JoinKeepsOrder DEF OrderInv, InboundTypeOK
  <2>3. \A a \in Calls : (Joined(a) => Joined(a)') /\ (Entered(a)' => Entered(a))
    BY <2>1 DEF JoinLane, OrderInv, InboundTypeOK, Joined, Entered
  <2>4. GatesCount'  BY <2>1, <2>3, GatesRest
  <2> QED  BY <2>1, <2>2, <2>4 DEF JoinLane
<1>4. ASSUME NEW c \in Calls, RouteToBarrier(c)  PROVE InboundIInv'
  <2>1. /\ GatesCount' /\ gateOf' \in [Calls -> Calls \cup {NoCall}]
        /\ released' \in SUBSET (Calls \cup {NoCall})
    BY <1>4, BarrierCounts
  <2>2. JoinLane(c)  BY <1>4 DEF RouteToBarrier
  <2>3. OrderInv'  BY <2>1, <2>2, JoinKeepsOrder
  <2> QED  BY <2>1, <2>2, <2>3 DEF JoinLane
<1>5. ASSUME NEW c \in Calls, EnterCall(c)  PROVE InboundIInv'
  <2>1. OrderInv'  BY <1>5, EnterKeepsOrder
  <2>2. \A a \in Calls : (Joined(a) => Joined(a)')
          /\ (Entered(a)' => Entered(a) \/ gateOf[a] \in released)
    BY <1>5 DEF EnterCall, OrderInv, InboundTypeOK, Joined, Entered
  <2>3. GatesCount'  BY <1>5, <2>2, GatesRest DEF EnterCall
  <2> QED  BY <1>5, <2>1, <2>3 DEF EnterCall
<1>6. ASSUME NEW c \in Calls, NEW how \in {"done", "failed"}, SettleCall(c, how)
      PROVE  OrderInv' /\ GatesCount'
  <2>1. OrderInv'  BY <1>6, SettleKeepsOrder
  <2>2. \A a \in Calls : (Joined(a) => Joined(a)') /\ (Entered(a)' => Entered(a))
    BY <1>6 DEF SettleCall, OrderInv, InboundTypeOK, Joined, Entered
  <2>3. GatesCount'  BY <1>6, <2>2, GatesRest DEF SettleCall
  <2> QED  BY <2>1, <2>3
<1>7. ASSUME NEW c \in Calls, Fail(c)  PROVE InboundIInv'
  BY <1>6, <1>7 DEF Fail
<1>8. ASSUME NEW c \in Calls, Process(c)  PROVE InboundIInv'
  <2> DEFINE s == CallOf[c].saga
             next == Applied(instance[s], CallOf[c].command)
  <2>1. SettleCall(c, "done") /\ ~Rejects(instance[s], CallOf[c].command)
        /\ instance' = [instance EXCEPT ![s] = next]
    BY <1>8 DEF Process
  <2>2. s \in Sagas /\ instance[s] \in State /\ Sound(instance[s])  BY DEF Sagas
  <2>3. next \in State /\ Sound(next)  BY <2>1, <2>2, AppliedIsSound
  <2>4. instance' \in [Sagas -> State] /\ \A t \in Sagas : Sound(instance'[t])
    BY <2>1, <2>2, <2>3
  <2> QED  BY <1>6, <2>1, <2>4
<1> QED  BY <1>1, <1>2, <1>3, <1>4, <1>5, <1>7, <1>8 DEF InboundNext

(* Single flight: no command's beforeProcess() is entered before every     *)
(* command routed earlier under its key has settled, nor before its step   *)
(* is complete (inboundRouter.ts:137-225).                                 *)
THEOREM InboundKeepsOrder == InboundSpec => []InboundInOrder
<1>1. InboundIInv => InboundInOrder
  <2> SUFFICES ASSUME InboundIInv PROVE InboundInOrder  OBVIOUS
  <2>1. \A c, d \in Calls : Before(c, d) /\ CallOf[c].key = CallOf[d].key
          /\ phase[d] \in {"before", "done", "failed"} => Settled(c)
    BY DEF InboundIInv, OrderInv, LanesInOrder, SameLane, Entered
  <2>2. ASSUME NEW c \in Calls, phase[c] \in {"before", "done", "failed"},
               StepIncomplete(c)
        PROVE  FALSE
    <3> DEFINE g == gateOf[c]
    <3>1. g \in Calls /\ g \in released \ {NoCall}
      BY <2>2 DEF InboundIInv, OrderInv, InboundTypeOK, GatesCount, Entered, StepIncomplete
    <3>2. Cardinality(Members(g)) >= CallOf[g].barrier.size
          /\ CallOf[g].barrier \notin {NoBarrier, NoStep} /\ IsFiniteSet(Members(g))
      BY <3>1 DEF InboundIInv, GatesCount
    <3>3. Cardinality(Members(g)) \in Nat /\ CallOf[g].barrier.size \in Nat
      BY <3>1, <3>2, FS_CardinalityType, InboundAssumption
    <3>4. Cardinality(Members(g)) < CallOf[g].barrier.size
      BY <2>2 DEF StepIncomplete, Members
    <3> QED  BY <3>2, <3>3, <3>4
  <2> QED  BY <2>1, <2>2 DEF InboundInOrder
<1> QED  BY <1>1, InitInboundIInv, NextInboundIInv, PTL DEF InboundSpec

(* The audit trail of every saga follows from one another, ends in the     *)
(* lifecycle the saga is in and counts every record, however its commands  *)
(* meet in the router (SagaAggregate.ts:307-314, 374-407, 440-456).        *)
THEOREM AuditTrailsAreContinuous == InboundSpec => []AuditTrailIsContinuous
<1>1. InboundIInv => AuditTrailIsContinuous
  BY DEF InboundIInv, AuditTrailIsContinuous, Sound, TrailIsContinuous, CountsRecords
<1> QED  BY <1>1, InitInboundIInv, NextInboundIInv, PTL DEF InboundSpec

-----------------------------------------------------------------------------
(* Induction over natural numbers.                                         *)

LEMMA LeastNatural ==
  ASSUME NEW T \in SUBSET Nat, T # {}
  PROVE  \E x \in T : \A y \in T : x <= y
<1>1. \E x \in T : \A y \in T : ~ (<<y, x>> \in OpToRel(<, Nat))
  BY NatLessThanWellFounded, WFMin
<1>2. ASSUME NEW x \in T, NEW y \in T, ~ (<<y, x>> \in OpToRel(<, Nat)) PROVE x <= y
  <2>1. x \in Nat /\ y \in Nat
    OBVIOUS
  <2>2. ~ (y < x)
    BY <1>2, <2>1 DEF OpToRel
  <2> QED
    BY <2>1, <2>2
<1> QED
  BY <1>1, <1>2

(* A set of naturals that holds 0 and, up to n, the successors of its        *)
(* members, holds all of them up to n.                                       *)
LEMMA UpTo ==
  ASSUME NEW n \in Nat, NEW T, 0 \in T, \A k \in Nat : k < n /\ k \in T => k + 1 \in T
  PROVE  \A k \in 0..n : k \in T
<1> DEFINE missing == {k \in 0..n : k \notin T}
<1>1. SUFFICES ASSUME missing # {} PROVE FALSE
  OBVIOUS
<1>2. PICK k \in missing : \A j \in missing : k <= j
  <2>1. missing \in SUBSET Nat
    OBVIOUS
  <2> HIDE DEF missing
  <2> QED
    BY <1>1, <2>1, LeastNatural
<1>3. k \in Nat /\ k # 0 /\ k <= n /\ k \notin T
  OBVIOUS
<1>4. k - 1 \in Nat /\ k - 1 < n /\ k - 1 \in 0..n /\ ~ (k <= k - 1) /\ (k - 1) + 1 = k
  BY <1>3
<1>5. k - 1 \in T
  BY <1>2, <1>4
<1> QED
  BY <1>3, <1>4, <1>5

-----------------------------------------------------------------------------
(* The choices of SchedulerPolicy.                                         *)

PolicyTenants == [weight : Nat, queue : Seq(Nat), deficit : Int, skipped : Nat,
                  remaining : Nat, selected : Nat]

PolicyTypeOK ==
  /\ tenants \in [Tenants -> PolicyTenants]
  /\ capacity \in Nat
  /\ selected \in Seq(Tenants \X Nat) /\ Len(selected) <= capacity

WeightStep(f, s) ==
  IF s = {} THEN 0 ELSE f[s \ {CHOOSE x \in s : TRUE}] + tenants[CHOOSE x \in s : TRUE].weight

(* The sum of the weights is a number, whichever order it is taken in.       *)
LEMMA TotalIsNumber ==
  ASSUME tenants \in [Tenants -> PolicyTenants], NEW E \in SUBSET Tenants
  PROVE  TotalWeight(E) \in Nat
<1>0. IsFiniteSet(E) /\ Cardinality(E) \in Nat
  BY PolicyAssumption, FS_Subset, FS_CardinalityType
<1>a. ASSUME NEW s \in SUBSET E
      PROVE  IsFiniteSet(s) /\ Cardinality(s) \in Nat /\ Cardinality(s) <= Cardinality(E)
  BY <1>0, FS_Subset, FS_CardinalityType
<1>b. ASSUME NEW s \in SUBSET E, s # {}
      PROVE  /\ (CHOOSE x \in s : TRUE) \in s
             /\ s \ {CHOOSE x \in s : TRUE} \in SUBSET E
             /\ Cardinality(s \ {CHOOSE x \in s : TRUE}) = Cardinality(s) - 1
             /\ Cardinality(s) \in Nat \ {0}
  <2>1. (CHOOSE x \in s : TRUE) \in s
    BY <1>b
  <2>2. IsFiniteSet(s)
    BY <1>a
  <2>3. Cardinality(s) # 0
    BY <2>2, <1>b, FS_EmptySet
  <2> QED
    BY <2>1, <2>2, <2>3, <1>a, FS_RemoveElement
<1> DEFINE Follows(f, n) == \A s \in SUBSET E : Cardinality(s) <= n => f[s] = WeightStep(f, s)
           T == {n \in Nat : \E f : f = [s \in SUBSET E |-> f[s]] /\ Follows(f, n)}
<1>1. 0 \in T
  <2> DEFINE f == [s \in SUBSET E |-> 0]
  <2>1. ASSUME NEW s \in SUBSET E, Cardinality(s) <= 0 PROVE f[s] = WeightStep(f, s)
    <3>1. s = {}
      <4>1. IsFiniteSet(s) /\ Cardinality(s) = 0
        BY <2>1, <1>a
      <4> QED
        BY <4>1, FS_EmptySet
    <3> QED
      BY <3>1 DEF WeightStep
  <2> QED
    BY <2>1
<1>2. ASSUME NEW n \in Nat, n < Cardinality(E), n \in T PROVE n + 1 \in T
  <2>1. PICK f : f = [s \in SUBSET E |-> f[s]] /\ Follows(f, n)
    BY <1>2
  <2> DEFINE g == [s \in SUBSET E |-> WeightStep(f, s)]
  <2>2. ASSUME NEW s \in SUBSET E, Cardinality(s) <= n + 1 PROVE g[s] = WeightStep(g, s)
    <3>1. CASE s = {}
      BY <3>1 DEF WeightStep
    <3>2. CASE s # {}
      <4> DEFINE r == s \ {CHOOSE x \in s : TRUE}
      <4>1. r \in SUBSET E /\ Cardinality(r) <= n
        BY <3>2, <2>2, <1>b
      <4>2. f[r] = WeightStep(f, r) /\ g[r] = WeightStep(f, r)
        BY <4>1, <2>1
      <4> QED
        BY <4>2, <3>2 DEF WeightStep
    <3> QED
      BY <3>1, <3>2
  <2>3. Follows(g, n + 1) /\ g = [s \in SUBSET E |-> g[s]]
    BY <2>2
  <2> HIDE DEF g, Follows
  <2>4. \E h : h = [s \in SUBSET E |-> h[s]] /\ Follows(h, n + 1)
    BY <2>3
  <2> QED
    BY <2>4
<1> HIDE DEF T
<1>3. Cardinality(E) \in T
  <2>1. \A k \in 0..Cardinality(E) : k \in T
    BY <1>0, <1>1, <1>2, UpTo
  <2> QED
    BY <2>1, <1>0
<1>4. \E f : f = [s \in SUBSET E |-> WeightStep(f, s)]
  <2>1. PICK f : f = [s \in SUBSET E |-> f[s]] /\ Follows(f, Cardinality(E))
    BY <1>3 DEF T
  <2>2. \A s \in SUBSET E : f[s] = WeightStep(f, s)
    BY <2>1, <1>a
  <2> HIDE DEF Follows
  <2>3. f = [s \in SUBSET E |-> WeightStep(f, s)]
    BY <2>1, <2>2
  <2> QED
    BY <2>3
<1> DEFINE it == CHOOSE f : f = [s \in SUBSET E |-> WeightStep(f, s)]
<1>5. it = [s \in SUBSET E |-> WeightStep(it, s)]
  BY <1>4
<1>6. TotalWeight(E) = it[E]
  BY DEF TotalWeight, FoldSet, MapThenFoldSet, WeightStep
<1> HIDE DEF it
<1> DEFINE U == {n \in Nat : \A s \in SUBSET E : Cardinality(s) <= n => it[s] \in Nat}
<1>7. 0 \in U
  <2>1. ASSUME NEW s \in SUBSET E, Cardinality(s) <= 0 PROVE it[s] \in Nat
    <3>1. s = {}
      <4>1. IsFiniteSet(s) /\ Cardinality(s) = 0
        BY <2>1, <1>a
      <4> QED
        BY <4>1, FS_EmptySet
    <3>2. it[s] = WeightStep(it, s)
      BY <1>5
    <3> QED
      BY <3>1, <3>2 DEF WeightStep
  <2> QED
    BY <2>1
<1>8. ASSUME NEW n \in Nat, n < Cardinality(E), n \in U PROVE n + 1 \in U
  <2>1. ASSUME NEW s \in SUBSET E, Cardinality(s) <= n + 1 PROVE it[s] \in Nat
    <3>2. it[s] = WeightStep(it, s)
      BY <1>5
    <3>1. CASE s = {}
      BY <3>1, <3>2 DEF WeightStep
    <3>3. CASE s # {}
      <4> DEFINE x == CHOOSE x \in s : TRUE
      <4>1. s \ {x} \in SUBSET E /\ Cardinality(s \ {x}) <= n /\ x \in s
        BY <3>3, <2>1, <1>b
      <4>2. it[s \ {x}] \in Nat
        BY <4>1, <1>8
      <4>3. tenants[x].weight \in Nat
        BY <4>1 DEF PolicyTenants
      <4> QED
        BY <4>2, <4>3, <3>2, <3>3 DEF WeightStep
    <3> QED
      BY <3>1, <3>3
  <2> QED
    BY <2>1
<1> HIDE DEF U
<1>9. Cardinality(E) \in U
  <2>1. \A k \in 0..Cardinality(E) : k \in U
    BY <1>0, <1>7, <1>8, UpTo
  <2> QED
    BY <2>1, <1>0
<1> QED
  BY <1>9, <1>6, <1>0 DEF U

(* A finite set that a relation orders strictly and totally has a first.     *)
LEMMA FirstOf ==
  ASSUME NEW S, IsFiniteSet(S), S # {}, NEW R,
         \A x, y \in S : x # y => <<x, y>> \in R \/ <<y, x>> \in R,
         \A x, y, z \in S : <<x, y>> \in R /\ <<y, z>> \in R => <<x, z>> \in R
  PROVE  \E x \in S : \A y \in S \ {x} : <<x, y>> \in R
<1>0. Cardinality(S) \in Nat \ {0}
  BY FS_CardinalityType, FS_EmptySet
<1> DEFINE T == {n \in Nat : \A A \in SUBSET S : Cardinality(A) = n + 1 =>
                               \E x \in A : \A y \in A \ {x} : <<x, y>> \in R}
<1>1. 0 \in T
  <2>1. ASSUME NEW A \in SUBSET S, Cardinality(A) = 1
        PROVE  \E x \in A : \A y \in A \ {x} : <<x, y>> \in R
    <3>1. IsFiniteSet(A)
      BY FS_Subset
    <3>2. PICK x : A = {x}
      BY <3>1, <2>1, FS_Singleton
    <3> QED
      BY <3>2
  <2> QED
    BY <2>1
<1>2. ASSUME NEW n \in Nat, n < Cardinality(S), n \in T PROVE n + 1 \in T
  <2>1. ASSUME NEW A \in SUBSET S, Cardinality(A) = (n + 1) + 1
        PROVE  \E x \in A : \A y \in A \ {x} : <<x, y>> \in R
    <3>1. IsFiniteSet(A) /\ A # {}
      BY <2>1, FS_Subset, FS_EmptySet
    <3>2. PICK a \in A : TRUE
      BY <3>1
    <3>3. Cardinality(A \ {a}) = n + 1 /\ A \ {a} \in SUBSET S
      <4>1. Cardinality(A \ {a}) = Cardinality(A) - 1
        BY <3>1, <3>2, FS_RemoveElement
      <4> QED
        BY <4>1, <2>1
    <3>4. PICK b \in A \ {a} : \A y \in (A \ {a}) \ {b} : <<b, y>> \in R
      BY <3>3, <1>2
    <3>5. CASE <<b, a>> \in R
      BY <3>4, <3>5
    <3>6. CASE <<b, a>> \notin R
      <4>1. <<a, b>> \in R
        BY <3>6, <3>4
      <4>2. \A y \in A \ {a} : <<a, y>> \in R
        BY <4>1, <3>4
      <4> QED
        BY <4>2
    <3> QED
      BY <3>5, <3>6
  <2> QED
    BY <2>1
<1> HIDE DEF T
<1>3. Cardinality(S) - 1 \in T
  <2>1. Cardinality(S) - 1 \in Nat
    BY <1>0
  <2>2. \A k \in Nat : k < Cardinality(S) - 1 => k < Cardinality(S)
    BY <1>0
  <2>3. \A k \in 0..(Cardinality(S) - 1) : k \in T
    BY <2>1, <2>2, <1>1, <1>2, UpTo
  <2> QED
    BY <2>1, <2>3
<1> QED
  BY <1>3, <1>0 DEF T

CreditOf(r, a, b) == [r EXCEPT !.skipped = a, !.deficit = b]

LEMMA CreditedRecord ==
  ASSUME NEW r \in PolicyTenants, NEW a \in Nat, NEW b \in Int
  PROVE  /\ CreditOf(r, a, b).skipped = a
         /\ CreditOf(r, a, b).deficit = b
         /\ CreditOf(r, a, b).queue = r.queue
         /\ CreditOf(r, a, b).remaining = r.remaining
         /\ CreditOf(r, a, b) \in PolicyTenants
BY DEF PolicyTenants, CreditOf

ServedOf(r, q, m, n, b) ==
  [r EXCEPT !.queue = q, !.skipped = 0, !.remaining = m, !.selected = n, !.deficit = b]

LEMMA ServedRecord ==
  ASSUME NEW r \in PolicyTenants, NEW q \in Seq(Nat), NEW m \in Nat, NEW n \in Nat, NEW b \in Int
  PROVE  /\ ServedOf(r, q, m, n, b).skipped = 0
         /\ ServedOf(r, q, m, n, b) \in PolicyTenants
BY DEF PolicyTenants, ServedOf

LEMMA CreditedIs ==
  ASSUME tenants \in [Tenants -> PolicyTenants], NEW t \in Tenants
  PROVE  /\ Credited(t).skipped = tenants[t].skipped + 1
         /\ Credited(t).deficit = tenants[t].deficit + tenants[t].weight
         /\ Credited(t).queue = tenants[t].queue
         /\ Credited(t).remaining = tenants[t].remaining
         /\ Credited(t) \in PolicyTenants
<1> DEFINE r == tenants[t]
           a == tenants[t].skipped + 1
           b == tenants[t].deficit + tenants[t].weight
<1>1. r \in PolicyTenants /\ a \in Nat /\ b \in Int
  BY DEF PolicyTenants
<1>2. Credited(t) = CreditOf(r, a, b)
  BY DEF Credited, CreditOf
<1> HIDE DEF r, a, b
<1>3. /\ Credited(t).skipped = a /\ Credited(t).deficit = b
      /\ Credited(t).queue = r.queue /\ Credited(t) \in PolicyTenants
      /\ Credited(t).remaining = r.remaining
  BY <1>1, <1>2, CreditedRecord
<1> QED
  BY <1>3 DEF r, a, b

(* compareTenantRuntimeState() orders the tenants that may run.              *)
LEMMA PrecedesIsAnOrder ==
  ASSUME tenants \in [Tenants -> PolicyTenants], NEW m \in Nat,
         NEW x \in Eligible, NEW y \in Eligible, NEW z \in Eligible
  PROVE  /\ x # y => Precedes(x, y, m) \/ Precedes(y, x, m)
         /\ Precedes(x, y, m) /\ Precedes(y, z, m) => Precedes(x, z, m)
<1>1. ASSUME NEW t \in Eligible
      PROVE  /\ t \in Tenants /\ t \in Nat
             /\ Credited(t).skipped \in Nat /\ Credited(t).deficit \in Int
             /\ Head(Credited(t).queue) \in Nat
  <2>1. t \in Tenants /\ tenants[t].queue \in Seq(Nat) /\ tenants[t].queue # <<>>
    BY <1>1 DEF Eligible, PolicyTenants
  <2>2. Head(tenants[t].queue) \in Nat
    BY <2>1, HeadTailProperties
  <2>3. t \in Nat
    <3>1. Cardinality(Tenants) \in Nat
      BY PolicyAssumption, FS_CardinalityType
    <3> QED
      BY <2>1, <3>1, PolicyAssumption
  <2> QED
    BY <2>1, <2>2, <2>3, CreditedIs DEF PolicyTenants
<1> DEFINE sk(t) == Credited(t).skipped
           de(t) == Credited(t).deficit
           he(t) == Head(Credited(t).queue)
<1>2. \A t, u : Precedes(t, u, m) <=>
        IF (sk(t) >= m) # (sk(u) >= m) THEN sk(t) >= m
        ELSE IF de(t) # de(u) THEN de(t) > de(u)
        ELSE IF he(t) # he(u) THEN he(t) < he(u)
        ELSE t < u
  BY DEF Precedes
<1>3. \A t \in Eligible : t \in Nat /\ sk(t) \in Nat /\ de(t) \in Int /\ he(t) \in Nat
  BY <1>1
<1> HIDE DEF sk, de, he
<1> QED
  BY <1>2, <1>3

EligibleCount == Cardinality(Eligible)

LEMMA EligibleIsFinite ==
  /\ IsFiniteSet(Eligible) /\ EligibleCount \in Nat
  /\ Cardinality(Tenants) \in Nat /\ EligibleCount <= Cardinality(Tenants)
  /\ Eligible # {} => EligibleCount >= 1
<1>1. Eligible \in SUBSET Tenants
  BY DEF Eligible
<1>2. IsFiniteSet(Eligible) /\ EligibleCount <= Cardinality(Tenants)
  BY <1>1, PolicyAssumption, FS_Subset DEF EligibleCount
<1>3. EligibleCount \in Nat /\ Cardinality(Tenants) \in Nat
  BY <1>2, PolicyAssumption, FS_CardinalityType DEF EligibleCount
<1>4. Eligible # {} => EligibleCount # 0
  BY <1>2, FS_EmptySet DEF EligibleCount
<1> QED
  BY <1>2, <1>3, <1>4

(* The winner may run and comes before all others that may.                  *)
LEMMA WinnerIsFirst ==
  ASSUME tenants \in [Tenants -> PolicyTenants], Eligible # {}
  PROVE  /\ Winner(Eligible) \in Eligible
         /\ \A u \in Eligible \ {Winner(Eligible)} :
              Precedes(Winner(Eligible), u, StarvationThreshold(Eligible))
<1> DEFINE m == StarvationThreshold(Eligible)
           R == {p \in Eligible \X Eligible : Precedes(p[1], p[2], m)}
<1>1. IsFiniteSet(Eligible) /\ m \in Nat
  BY EligibleIsFinite DEF StarvationThreshold, EligibleCount
<1> HIDE DEF m
<1>2. \A x, y \in Eligible : <<x, y>> \in R <=> Precedes(x, y, m)
  OBVIOUS
<1>3. \A x, y \in Eligible : x # y => <<x, y>> \in R \/ <<y, x>> \in R
  BY <1>1, <1>2, PrecedesIsAnOrder
<1>4. \A x, y, z \in Eligible : <<x, y>> \in R /\ <<y, z>> \in R => <<x, z>> \in R
  BY <1>1, <1>2, PrecedesIsAnOrder
<1> HIDE DEF R
<1>5. \E x \in Eligible : \A y \in Eligible \ {x} : <<x, y>> \in R
  BY <1>1, <1>3, <1>4, FirstOf
<1>6. \E x \in Eligible : \A y \in Eligible \ {x} : Precedes(x, y, m)
  BY <1>2, <1>5
<1> QED
  BY <1>6 DEF Winner, m

(* When a tenant that has starved is passed over, so has the winner.         *)
LEMMA StarvedComeFirst ==
  ASSUME tenants \in [Tenants -> PolicyTenants],
         NEW t \in Eligible, t # Winner(Eligible),
         tenants[t].skipped + 1 >= 2 * EligibleCount
  PROVE  tenants[Winner(Eligible)].skipped + 1 >= 2 * EligibleCount
<1> DEFINE w == Winner(Eligible)
<1>1. w \in Eligible /\ Precedes(w, t, StarvationThreshold(Eligible))
  BY WinnerIsFirst
<1>2. t \in Tenants /\ w \in Tenants
  BY <1>1 DEF Eligible
<1>3. StarvationThreshold(Eligible) = 2 * EligibleCount
  BY DEF StarvationThreshold, EligibleCount
<1>4. Credited(t).skipped = tenants[t].skipped + 1 /\ Credited(w).skipped = tenants[w].skipped + 1
  BY <1>2, CreditedIs
<1> HIDE DEF w
<1>5. Credited(t).skipped >= 2 * EligibleCount
  BY <1>4
<1>6. Credited(w).skipped >= 2 * EligibleCount
  BY <1>1, <1>3, <1>5 DEF Precedes
<1> QED
  BY <1>4, <1>6 DEF w

-----------------------------------------------------------------------------
(* How long a tenant waits.                                                *)

\* The rounds a tenant may have been passed over when no more than so many
\* tenants may still run.
WaitBound(m) ==
  IF m = Cardinality(Tenants) THEN 2 * Cardinality(Tenants) - 2
  ELSE 5 * Cardinality(Tenants) - 5 - 2 * m

\* The others that may run and were served within the last m rounds.
ServedWithin(t, m) == {u \in Eligible \ {t} : tenants[u].skipped < m}

\* A tenant that has waited beyond the bound of m tenants has seen a different
\* tenant served in each round since, and those still run, except for the ones
\* that have run out; as far back as no tenant can be served twice.
WaitsAreSeen ==
  /\ \A t \in Tenants \ Eligible : tenants[t].skipped = 0
  /\ \A t \in Eligible : \A m \in EligibleCount..Cardinality(Tenants) :
       \A k \in 1..(2 * EligibleCount - 1) :
         k <= tenants[t].skipped - WaitBound(m) =>
           Cardinality(ServedWithin(t, k)) >= k - (m - EligibleCount)

\* What was deferred for capacity was so when all of it was used.
DeferredIsRight ==
  \A i \in DOMAIN deferred :
    deferred[i].reason = "global_capacity_exhausted" => Len(selected) = capacity

PolicyIInv == PolicyTypeOK /\ WaitsAreSeen /\ DeferredIsRight

LEMMA WaitBoundIs ==
  ASSUME NEW m \in Nat, m <= Cardinality(Tenants)
  PROVE  /\ WaitBound(m) \in Int
         /\ Tenants # {} => WaitBound(m) >= 2 * Cardinality(Tenants) - 2
         /\ m = Cardinality(Tenants) => WaitBound(m) = 2 * Cardinality(Tenants) - 2
         /\ m # Cardinality(Tenants) => WaitBound(m) = 5 * Cardinality(Tenants) - 5 - 2 * m
<1>1. Cardinality(Tenants) \in Nat
  BY PolicyAssumption, FS_CardinalityType
<1> QED
  BY <1>1 DEF WaitBound

LEMMA ServedWithinIs ==
  ASSUME NEW t \in Eligible, NEW k \in Int
  PROVE  /\ IsFiniteSet(ServedWithin(t, k)) /\ Cardinality(ServedWithin(t, k)) \in Nat
         /\ Cardinality(ServedWithin(t, k)) <= EligibleCount - 1
         /\ Cardinality(ServedWithin(t, k)) = EligibleCount - 1 => ServedWithin(t, k) = Eligible \ {t}
<1>1. IsFiniteSet(Eligible \ {t}) /\ Cardinality(Eligible \ {t}) = EligibleCount - 1
  BY EligibleIsFinite, FS_RemoveElement DEF EligibleCount
<1>2. ServedWithin(t, k) \in SUBSET (Eligible \ {t})
  BY DEF ServedWithin
<1> QED
  BY <1>1, <1>2, FS_Subset, FS_CardinalityType

(* The bound itself: by the count of those served since, at k = EligibleCount. *)
LEMMA WaitsAreBounded ==
  ASSUME PolicyTypeOK, WaitsAreSeen, NEW t \in Tenants
  PROVE  tenants[t].skipped <= LongestWait
<1> DEFINE N == Cardinality(Tenants)
<1>1. N \in Nat /\ N >= 1
  <2>1. IsFiniteSet(Tenants) /\ Tenants # {}
    BY PolicyAssumption
  <2> QED
    BY <2>1, FS_CardinalityType, FS_EmptySet
<1>2. tenants[t].skipped \in Nat
  BY DEF PolicyTypeOK, PolicyTenants
<1>3. CASE t \notin Eligible
  <2>1. tenants[t].skipped = 0
    BY <1>3 DEF WaitsAreSeen
  <2> QED
    BY <2>1, <1>1 DEF LongestWait
<1>4. CASE t \in Eligible
  <2> DEFINE n == EligibleCount
  <2>1. n \in Nat /\ n >= 1 /\ n <= N
    BY <1>4, EligibleIsFinite
  <2>2. Cardinality(ServedWithin(t, n)) <= n - 1 /\ Cardinality(ServedWithin(t, n)) \in Nat
    BY <1>4, <2>1, ServedWithinIs
  <2>3. n \in n..N /\ n \in 1..(2 * n - 1)
    BY <2>1, <1>1
  <2>4. n <= tenants[t].skipped - WaitBound(n) => Cardinality(ServedWithin(t, n)) >= n - (n - n)
    BY <1>4, <2>3 DEF WaitsAreSeen
  <2>5. WaitBound(n) \in Int /\ (n = N => WaitBound(n) = 2 * N - 2) /\ (n # N => WaitBound(n) = 5 * N - 5 - 2 * n)
    BY <2>1, WaitBoundIs
  <2> HIDE DEF N, n
  <2>6. tenants[t].skipped < n + WaitBound(n)
    BY <2>1, <2>2, <2>4, <2>5, <1>2
  <2> DEFINE s == tenants[t].skipped
             b == WaitBound(n)
  <2>7. s \in Nat /\ b \in Int /\ s < n + b /\ (n = N => b = 2 * N - 2) /\ (n # N => b = 5 * N - 5 - 2 * n)
    BY <2>5, <2>6, <1>2
  <2> HIDE DEF s, b
  <2>8. CASE n = N
    <3>1. s <= 3 * N - 3
      BY <2>7, <2>8, <1>1
    <3> QED
      BY <3>1, <2>7, <1>1 DEF LongestWait, N, s
  <2>9. CASE n # N
    <3>1. s <= 5 * N - 6 - n /\ N # 1
      BY <2>7, <2>9, <2>1, <1>1
    <3>2. s <= 5 * N - 7
      BY <3>1, <2>7, <2>1, <1>1
    <3> QED
      BY <3>1, <3>2 DEF LongestWait, N, s
  <2> QED
    BY <2>8, <2>9
<1> QED
  BY <1>3, <1>4

-----------------------------------------------------------------------------
(* A round.                                                                *)

LEMMA WinnerIsServed ==
  ASSUME PolicyTypeOK, NEW w \in Eligible,
         NEW c, c = [Credited(w) EXCEPT !.queue = Tail(@), !.skipped = 0, !.remaining = @ - 1,
                                        !.selected = @ + 1, !.deficit = @ - TotalWeight(Eligible)]
  PROVE  c \in PolicyTenants /\ c.skipped = 0
<1> DEFINE r == Credited(w)
<1>1. w \in Tenants /\ tenants[w].queue # <<>> /\ tenants[w].remaining > 0
  BY DEF Eligible
<1>2. r \in PolicyTenants /\ r.queue = tenants[w].queue /\ r.remaining = tenants[w].remaining
  BY <1>1, CreditedIs DEF PolicyTypeOK
<1>3. TotalWeight(Eligible) \in Nat
  BY TotalIsNumber DEF PolicyTypeOK, Eligible
<1>4. c = ServedOf(r, Tail(r.queue), r.remaining - 1, r.selected + 1, r.deficit - TotalWeight(Eligible))
  BY DEF ServedOf
<1> HIDE DEF r
<1>5. r.queue \in Seq(Nat) /\ r.queue # <<>> /\ r.remaining \in Nat \ {0} /\ r.selected \in Nat /\ r.deficit \in Int
  BY <1>1, <1>2 DEF PolicyTenants
<1>6. Tail(r.queue) \in Seq(Nat)
  BY <1>5, HeadTailProperties
<1>7. r.remaining - 1 \in Nat /\ r.selected + 1 \in Nat /\ r.deficit - TotalWeight(Eligible) \in Int
  BY <1>3, <1>5
<1> DEFINE q == Tail(r.queue)
           m == r.remaining - 1
           n == r.selected + 1
           b == r.deficit - TotalWeight(Eligible)
<1>8. c = ServedOf(r, q, m, n, b) /\ q \in Seq(Nat) /\ m \in Nat /\ n \in Nat /\ b \in Int
  BY <1>4, <1>6, <1>7
<1> HIDE DEF q, m, n, b
<1> QED
  BY <1>2, <1>8, ServedRecord

(* What a round does to the tenants: one is served, the others wait.         *)
LEMMA RoundServes ==
  ASSUME PolicyTypeOK, Round
  PROVE  /\ Winner(Eligible) \in Eligible
         /\ tenants' \in [Tenants -> PolicyTenants]
         /\ tenants'[Winner(Eligible)].skipped = 0
         /\ \A t \in Tenants \ {Winner(Eligible)} :
              /\ t \in Eligible' <=> t \in Eligible
              /\ t \in Eligible => tenants'[t].skipped = tenants[t].skipped + 1
              /\ t \notin Eligible => tenants'[t].skipped = tenants[t].skipped
<1> DEFINE w == Winner(Eligible)
           served == [Credited(w) EXCEPT !.queue = Tail(@), !.skipped = 0, !.remaining = @ - 1,
                                         !.selected = @ + 1, !.deficit = @ - TotalWeight(Eligible)]
<1>1. tenants \in [Tenants -> PolicyTenants] /\ Eligible # {}
  BY DEF PolicyTypeOK, Round
<1>2. w \in Eligible /\ w \in Tenants
  BY <1>1, WinnerIsFirst DEF Eligible
<1>3. tenants' = [t \in Tenants |-> IF t = w THEN served
                                   ELSE IF t \in Eligible THEN Credited(t) ELSE tenants[t]]
  BY DEF Round
<1>4. served \in PolicyTenants /\ served.skipped = 0
  BY <1>2, WinnerIsServed
<1> HIDE DEF w, served
<1>5. \A t \in Tenants : Credited(t) \in PolicyTenants /\ tenants[t] \in PolicyTenants
  BY <1>1, CreditedIs
<1>6. tenants' \in [Tenants -> PolicyTenants]
  BY <1>3, <1>4, <1>5
<1>7. ASSUME NEW t \in Tenants \ {w}
      PROVE  /\ t \in Eligible' <=> t \in Eligible
             /\ t \in Eligible => tenants'[t].skipped = tenants[t].skipped + 1
             /\ t \notin Eligible => tenants'[t].skipped = tenants[t].skipped
  <2>1. tenants'[t] = IF t \in Eligible THEN Credited(t) ELSE tenants[t]
    BY <1>3, <1>7
  <2>2. /\ Credited(t).skipped = tenants[t].skipped + 1 /\ Credited(t).queue = tenants[t].queue
        /\ Credited(t).remaining = tenants[t].remaining
    BY <1>1, <1>7, CreditedIs
  <2>3. tenants'[t].queue = tenants[t].queue /\ tenants'[t].remaining = tenants[t].remaining
    BY <2>1, <2>2
  <2>4. t \in Eligible' <=> tenants'[t].queue # <<>> /\ tenants'[t].remaining > 0
    BY <1>7 DEF Eligible
  <2>5. t \in Eligible <=> tenants[t].queue # <<>> /\ tenants[t].remaining > 0
    BY <1>7 DEF Eligible
  <2>6. t \in Eligible' <=> t \in Eligible
    BY <2>3, <2>4, <2>5
  <2> QED
    BY <2>1, <2>2, <2>6
<1>8. tenants'[w].skipped = 0
  BY <1>2, <1>3, <1>4
<1> QED
  BY <1>2, <1>6, <1>7, <1>8 DEF w

(* A tenant that is passed over sees the winner served: those it has seen     *)
(* served within k rounds, it has now seen served within k + 1, and with them *)
(* the winner, unless the winner has run out.                                 *)
LEMMA SeenServed ==
  ASSUME PolicyTypeOK, Round, NEW t \in Eligible, t # Winner(Eligible), NEW k \in Nat
  PROVE  /\ ServedWithin(t, k) \ {Winner(Eligible)} \subseteq ServedWithin(t, k + 1)'
         /\ Winner(Eligible) \in Eligible' => Winner(Eligible) \in ServedWithin(t, k + 1)'
<1> DEFINE w == Winner(Eligible)
<1>1. ServedWithin(t, k + 1)' = {u \in Eligible' \ {t} : tenants'[u].skipped < k + 1}
  BY DEF ServedWithin
<1>2. ASSUME NEW u \in ServedWithin(t, k), u # w
      PROVE  u \in ServedWithin(t, k + 1)'
  <2>1. u \in Eligible /\ u # t /\ tenants[u].skipped < k /\ u \in Tenants
    BY DEF ServedWithin, Eligible
  <2>2. u \in Eligible' /\ tenants'[u].skipped = tenants[u].skipped + 1
    BY <2>1, <1>2, RoundServes
  <2>3. tenants[u].skipped \in Nat
    BY <2>1 DEF PolicyTypeOK, PolicyTenants
  <2> QED
    BY <1>1, <2>1, <2>2, <2>3
<1>3. w \in Eligible' => w \in ServedWithin(t, k + 1)'
  <2>1. tenants'[w].skipped = 0
    BY RoundServes
  <2> HIDE DEF w
  <2> QED
    BY <1>1, <2>1 DEF w
<1> HIDE DEF w
<1> QED
  BY <1>2, <1>3 DEF w

(* While a tenant waits beyond its bound, nobody it has seen served wins.     *)
LEMMA NotServedTwice ==
  ASSUME PolicyTypeOK, Round, NEW t \in Eligible, t # Winner(Eligible),
         NEW m \in EligibleCount..Cardinality(Tenants), NEW k \in 0..(2 * EligibleCount - 1),
         k <= tenants[t].skipped - WaitBound(m)
  PROVE  Winner(Eligible) \notin ServedWithin(t, k)
<1> DEFINE w == Winner(Eligible) n == EligibleCount N == Cardinality(Tenants)
<1>1. n \in Nat /\ N \in Nat /\ n >= 1 /\ n <= N
  BY EligibleIsFinite
<1>2. w \in Tenants /\ t \in Tenants /\ tenants[w].skipped \in Nat /\ tenants[t].skipped \in Nat
  BY RoundServes DEF PolicyTypeOK, PolicyTenants, Eligible
<1>3. WaitBound(m) \in Int /\ WaitBound(m) >= 2 * N - 2
  <2>1. Tenants # {} /\ m \in Nat /\ m <= N
    BY <1>1, <1>2
  <2> QED
    BY <2>1, WaitBoundIs
<1>4. CASE k = 0
  <2>1. ServedWithin(t, k) = {}
    <3>1. \A u \in Eligible : ~ (tenants[u].skipped < k)
      BY SMTT(30), <1>4 DEF PolicyTypeOK, PolicyTenants, Eligible
    <3> QED
      BY <3>1 DEF ServedWithin
  <2> QED
    BY <2>1
<1>5. CASE k # 0
  <2>1. tenants[t].skipped + 1 >= 2 * n
    BY <1>1, <1>2, <1>3, <1>5
  <2>2. tenants[w].skipped + 1 >= 2 * n
    BY <2>1, StarvedComeFirst DEF PolicyTypeOK
  <2>3. ~ (tenants[w].skipped < k)
    BY <1>1, <1>2, <2>2
  <2> HIDE DEF w, n
  <2> QED
    BY <2>3 DEF ServedWithin, w
<1> QED
  BY <1>4, <1>5

LEMMA RoundKeepsWaits ==
  ASSUME PolicyTypeOK, WaitsAreSeen, Round
  PROVE  WaitsAreSeen'
<1> DEFINE w == Winner(Eligible) n == EligibleCount N == Cardinality(Tenants)
<1>1. n \in Nat /\ N \in Nat /\ n >= 1 /\ n <= N /\ IsFiniteSet(Eligible)
  <2>1. Eligible # {}
    BY DEF Round
  <2> QED
    BY <2>1, EligibleIsFinite
<1>2. /\ w \in Eligible /\ w \in Tenants /\ tenants'[w].skipped = 0
      /\ \A t \in Tenants \ {w} :
           /\ t \in Eligible' <=> t \in Eligible
           /\ t \in Eligible => tenants'[t].skipped = tenants[t].skipped + 1
           /\ t \notin Eligible => tenants'[t].skipped = tenants[t].skipped
  BY RoundServes DEF Eligible
<1>3. Eligible' \in SUBSET Tenants /\ Eligible \in SUBSET Tenants
  BY DEF Eligible
<1>4. (w \in Eligible' => Eligible' = Eligible /\ EligibleCount' = n)
      /\ (w \notin Eligible' => Eligible' = Eligible \ {w} /\ EligibleCount' = n - 1)
  <2>1. CASE w \in Eligible'
    <3>1. \A u \in Tenants : u \in Eligible' <=> u \in Eligible
      <4> HIDE DEF w
      <4> QED
        BY <2>1, <1>2
    <3>2. Eligible' = Eligible
      BY <3>1, <1>3
    <3> QED
      BY <2>1, <3>2 DEF EligibleCount
  <2>2. CASE w \notin Eligible'
    <3>1. Eligible' = Eligible \ {w}
      BY <2>2, <1>2, <1>3
    <3>2. Cardinality(Eligible \ {w}) = n - 1
      BY <1>1, <1>2, FS_RemoveElement DEF EligibleCount
    <3> QED
      BY <2>2, <3>1, <3>2 DEF EligibleCount
  <2> QED
    BY <2>1, <2>2
<1>5. ASSUME NEW t \in Tenants \ Eligible' PROVE tenants'[t].skipped = 0
  <2>1. CASE t = w
    BY <2>1, <1>2
  <2>2. CASE t # w
    <3>1. t \in Tenants \ Eligible /\ tenants'[t].skipped = tenants[t].skipped
      BY <2>2, <1>5, <1>2
    <3> QED
      BY <3>1 DEF WaitsAreSeen
  <2> QED
    BY <2>1, <2>2
<1>6. ASSUME NEW t \in Eligible', NEW m \in EligibleCount'..N,
             NEW k \in 1..(2 * EligibleCount' - 1),
             k <= tenants'[t].skipped - WaitBound(m)
      PROVE  Cardinality(ServedWithin(t, k)') >= k - (m - EligibleCount')
  <2>0. EligibleCount' \in Nat /\ EligibleCount' <= n /\ m \in Nat /\ m <= N /\ k \in Nat
        /\ k >= 1 /\ k <= 2 * n - 1 /\ n - 1 <= EligibleCount'
    BY <1>1, <1>4
  <2>1. WaitBound(m) \in Int /\ WaitBound(m) >= 2 * N - 2
    <3>1. Tenants # {}
      BY <1>2
    <3> QED
      BY <2>0, <3>1, WaitBoundIs
  <2>2. t # w
    BY <2>0, <2>1, <1>1, <1>2, <1>6
  <2>3. t \in Eligible /\ tenants'[t].skipped = tenants[t].skipped + 1 /\ tenants[t].skipped \in Nat
    <3>1. t \in Tenants
      BY <1>3, <1>6
    <3> QED
      BY <3>1, <2>2, <1>2, <1>6 DEF PolicyTypeOK, PolicyTenants
  <2> DEFINE j == k - 1
             seen == ServedWithin(t, j)
             later == ServedWithin(t, k)'
  <2>4. j \in Nat /\ j + 1 = k /\ j <= 2 * n - 1 /\ j <= tenants[t].skipped - WaitBound(m)
    <3>1. k <= (tenants[t].skipped + 1) - WaitBound(m)
      BY <2>3, <1>6
    <3>2. j \in Nat /\ j + 1 = k /\ j <= 2 * n - 1
      BY <2>0, <1>1
    <3>3. j <= tenants[t].skipped - WaitBound(m)
      BY <3>1, <2>0, <2>1, <2>3
    <3> QED
      BY <3>2, <3>3
  <2>5. IsFiniteSet(seen) /\ Cardinality(seen) \in Nat
    BY <2>3, <2>4, ServedWithinIs
  <2>6. seen \ {w} \subseteq later /\ (w \in Eligible' => w \in later)
    <3>1. /\ ServedWithin(t, j) \ {Winner(Eligible)} \subseteq ServedWithin(t, j + 1)'
          /\ Winner(Eligible) \in Eligible' => Winner(Eligible) \in ServedWithin(t, j + 1)'
      BY <2>2, <2>3, <2>4, SeenServed
    <3> QED
      BY <3>1, <2>4
  <2>7. IsFiniteSet(later) /\ Cardinality(later) \in Nat
    <3>1. IsFiniteSet(Eligible')
      BY <1>1, <1>4, FS_RemoveElement
    <3>2. later \in SUBSET Eligible'
      BY DEF ServedWithin
    <3> HIDE DEF later
    <3> QED
      BY <3>1, <3>2, FS_Subset, FS_CardinalityType
  <2>8. ASSUME m >= n
        PROVE  w \notin seen /\ Cardinality(seen) >= j - (m - n)
    <3>1. m \in EligibleCount..Cardinality(Tenants)
      BY <2>0, <2>8, <1>1
    <3>2. w \notin seen
      BY <3>1, <2>2, <2>3, <2>4, <1>1, NotServedTwice
    <3>3. CASE j = 0
      BY <3>2, <3>3, <2>5, <2>8, <2>0, <1>1
    <3>4. CASE j # 0
      <4>1. j \in 1..(2 * EligibleCount - 1)
        BY <3>4, <2>4, <1>1
      <4>2. Cardinality(ServedWithin(t, j)) >= j - (m - EligibleCount)
        BY <3>1, <4>1, <2>3, <2>4 DEF WaitsAreSeen
      <4> QED
        BY <3>2, <4>2
    <3> QED
      BY <3>3, <3>4
  <2>9. CASE w \in Eligible'
    <3>1. EligibleCount' = n /\ m >= n
      BY <2>9, <1>4, <1>6, <1>1
    <3>2. w \notin seen /\ Cardinality(seen) >= j - (m - n)
      BY <3>1, <2>8
    <3>3. seen \cup {w} \subseteq later
      BY <2>6, <2>9
    <3> HIDE DEF seen, later, w
    <3>4. IsFiniteSet(seen \cup {w}) /\ Cardinality(seen \cup {w}) = Cardinality(seen) + 1
      BY <2>5, <3>2, FS_AddElement
    <3>5. Cardinality(seen \cup {w}) <= Cardinality(later)
      BY <2>7, <3>3, FS_Subset
    <3>6. Cardinality(later) >= j - (m - n) + 1
      BY <3>2, <3>4, <3>5, <2>5, <2>7, <2>4, <2>0, <1>1
    <3>7. Cardinality(later) >= k - (m - EligibleCount')
      BY <3>6, <3>1, <2>4, <2>0, <2>7, <1>1
    <3> QED
      BY <3>7 DEF later
  <2>10. CASE w \notin Eligible' /\ m >= n
    <3>1. EligibleCount' = n - 1
      BY <2>10, <1>4
    <3>2. w \notin seen /\ Cardinality(seen) >= j - (m - n)
      BY <2>10, <2>8
    <3>3. seen \subseteq later
      BY <3>2, <2>6
    <3> HIDE DEF seen, later
    <3>4. Cardinality(seen) <= Cardinality(later)
      BY <2>7, <3>3, FS_Subset
    <3>5. Cardinality(later) >= k - (m - EligibleCount')
      BY <3>1, <3>2, <3>4, <2>5, <2>7, <2>4, <2>0, <1>1
    <3> QED
      BY <3>5 DEF later
  <2>11. CASE w \notin Eligible' /\ ~ (m >= n)
    <3>1. EligibleCount' = n - 1 /\ m = n - 1 /\ n >= 2
      BY <2>11, <1>4, <1>1, <2>0
    <3>2. WaitBound(m) = 5 * N - 5 - 2 * m
      BY <3>1, <2>0, <1>1, WaitBoundIs
    <3> DEFINE M == IF 2 * n - 1 <= N THEN 2 * n - 1 ELSE N
               i == M - 1
    <3>3. M \in n..N /\ M \in Nat /\ M <= N /\ i \in 1..(2 * n - 1) /\ i \in 0..(2 * n - 1)
      BY <3>1, <1>1
    <3>4. WaitBound(M) \in Int /\ (M = N => WaitBound(M) = 2 * N - 2)
          /\ (M # N => WaitBound(M) = 5 * N - 5 - 2 * M)
      <4> HIDE DEF M
      <4> QED
        BY <3>3, WaitBoundIs
    <3>5. i > tenants[t].skipped - WaitBound(M)
      <4>1. SUFFICES ASSUME i <= tenants[t].skipped - WaitBound(M) PROVE FALSE
        BY <2>3, <3>3, <3>4
      <4>2. Cardinality(ServedWithin(t, i)) >= i - (M - n)
        BY <4>1, <3>3, <2>3 DEF WaitsAreSeen
      <4>3. Cardinality(ServedWithin(t, i)) <= n - 1
            /\ (Cardinality(ServedWithin(t, i)) = n - 1 => ServedWithin(t, i) = Eligible \ {t})
            /\ Cardinality(ServedWithin(t, i)) \in Nat
        BY <2>3, <3>3, ServedWithinIs
      <4>4. Cardinality(ServedWithin(t, i)) = n - 1
        BY <4>2, <4>3, <3>3, <1>1
      <4>5. w \in ServedWithin(t, i)
        BY <4>3, <4>4, <1>2, <2>2
      <4>6. w \notin ServedWithin(t, i)
        BY <4>1, <3>3, <2>2, <2>3, NotServedTwice
      <4> QED
        BY <4>5, <4>6
    <3>6. tenants[t].skipped + 1 <= 5 * N - 5 - 2 * (n - 1)
      <4>1. CASE 2 * n - 1 <= N /\ 2 * n - 1 # N
        BY <4>1, <3>1, <3>4, <3>5, <2>3, <1>1
      <4>2. CASE ~ (2 * n - 1 <= N) \/ 2 * n - 1 = N
        BY <4>2, <3>1, <3>4, <3>5, <2>3, <1>1
      <4> QED
        BY <4>1, <4>2
    <3> QED
      BY <3>1, <3>2, <3>6, <2>0, <2>3, <1>6, <1>1
  <2> QED
    BY <2>9, <2>10, <2>11
<1> QED
  BY <1>5, <1>6 DEF WaitsAreSeen

-----------------------------------------------------------------------------
(* What is left, and the theorem.                                          *)

FlattenStep(seqs, f, i) == IF i = 1 THEN seqs[i] ELSE f[i - 1] \o seqs[i]

(* A flattened sequence is what the concatenations of its parts come to.    *)
LEMMA FlattenedStepwise ==
  ASSUME NEW S, NEW n \in Nat, n # 0, NEW seqs \in [1..n -> Seq(S)]
  PROVE  \E f : /\ FlattenSeq(seqs) = f[n] /\ \A i \in 1..n : f[i] = FlattenStep(seqs, f, i)
<1>1. seqs \in Seq(Seq(S)) /\ Len(seqs) = n /\ DOMAIN seqs = 1..n
  OBVIOUS
<1> DEFINE Folds(f, m) == f = [i \in 1..m |-> FlattenStep(seqs, f, i)]
           T == {m \in Nat : \E f : Folds(f, m)}
<1>2. 0 \in T
  <2>1. Folds([i \in 1..0 |-> 0], 0)
    OBVIOUS
  <2> QED
    BY <2>1
<1>3. ASSUME NEW m \in Nat, m < n, m \in T PROVE m + 1 \in T
  <2>1. PICK f : Folds(f, m)
    BY <1>3
  <2> DEFINE g == [i \in 1..(m + 1) |-> FlattenStep(seqs, f, i)]
  <2>2. ASSUME NEW i \in 1..(m + 1) PROVE g[i] = FlattenStep(seqs, g, i)
    <3>1. CASE i = 1
      BY <3>1 DEF FlattenStep
    <3>2. CASE i # 1
      <4>1. i - 1 \in 1..m /\ i - 1 \in 1..(m + 1)
        BY <3>2
      <4>2. f[i - 1] = g[i - 1]
        BY <2>1, <4>1
      <4> QED
        BY <3>2, <4>2 DEF FlattenStep
    <3> QED
      BY <3>1, <3>2
  <2>3. Folds(g, m + 1)
    BY <2>2
  <2> HIDE DEF Folds, g
  <2>4. \E h : Folds(h, m + 1)
    BY <2>3
  <2> QED
    BY <2>4
<1> HIDE DEF T
<1>4. n \in T
  <2>1. \A k \in 0..n : k \in T
    BY <1>2, <1>3, UpTo
  <2> QED
    BY <2>1
<1> DEFINE f == CHOOSE f : Folds(f, n)
<1>5. Folds(f, n)
  BY <1>4 DEF T
<1>6. FlattenSeq(seqs) = f[n]
  BY <1>1 DEF FlattenSeq, FlattenStep
<1> HIDE DEF f
<1>7. \A i \in 1..n : f[i] = FlattenStep(seqs, f, i)
  BY <1>5
<1> QED
  BY <1>6, <1>7

(* What a flattened sequence of sequences holds is in one of them.           *)
LEMMA FlattenedIsOf ==
  ASSUME NEW S, NEW n \in Nat, NEW seqs \in [1..n -> Seq(S)]
  PROVE  FlattenSeq(seqs) \in Seq(S)
<1>1. seqs \in Seq(Seq(S)) /\ Len(seqs) = n /\ DOMAIN seqs = 1..n
  OBVIOUS
<1>2. CASE n = 0
  <2>1. seqs = <<>>
    BY <1>1, <1>2
  <2>2. FlattenSeq(seqs) = seqs
    BY <1>1, <1>2 DEF FlattenSeq
  <2>3. <<>> \in Seq(S)
    OBVIOUS
  <2> QED
    BY <2>1, <2>2, <2>3
<1>3. CASE n # 0
  <2>1. PICK f : FlattenSeq(seqs) = f[n] /\ \A i \in 1..n : f[i] = FlattenStep(seqs, f, i)
    BY <1>3, FlattenedStepwise
  <2> DEFINE U == {m \in Nat : m + 1 \in 1..n => f[m + 1] \in Seq(S)}
  <2>7. 0 \in U
    BY <2>1, <1>3 DEF FlattenStep
  <2>8. ASSUME NEW m \in Nat, m < n, m \in U PROVE m + 1 \in U
    <3>1. ASSUME (m + 1) + 1 \in 1..n PROVE f[(m + 1) + 1] \in Seq(S)
      <4>1. m + 1 \in 1..n /\ (m + 1) + 1 # 1 /\ ((m + 1) + 1) - 1 = m + 1
        BY <3>1
      <4>2. f[m + 1] \in Seq(S) /\ seqs[(m + 1) + 1] \in Seq(S)
        BY <4>1, <3>1, <2>8
      <4>3. f[(m + 1) + 1] = f[m + 1] \o seqs[(m + 1) + 1]
        BY <2>1, <3>1, <4>1 DEF FlattenStep
      <4> QED
        BY <4>2, <4>3
    <3> QED
      BY <3>1
  <2> HIDE DEF U
  <2>9. n - 1 \in U
    <3>1. \A k \in 0..n : k \in U
      BY <2>7, <2>8, UpTo
    <3> QED
      BY <3>1, <1>3
  <2>10. f[(n - 1) + 1] \in Seq(S)
    BY <2>9, <1>3 DEF U
  <2> QED
    BY <2>1, <2>10
<1> QED
  BY <1>2, <1>3

LEMMA DeferIsRight ==
  ASSUME PolicyTypeOK, Defer
  PROVE  DeferredIsRight'
<1> DEFINE Rest(t) == [i \in DOMAIN tenants[t].queue |->
                         [candidate |-> <<t, tenants[t].queue[i]>>, reason |-> Reason(t)]]
           Right == {d \in [candidate : Tenants \X Nat, reason : {"tenant_rate_limited", "global_capacity_exhausted"}] :
                       d.reason = "global_capacity_exhausted" => Len(selected) = capacity}
<1>1. ASSUME NEW t \in Tenants PROVE Rest(t) \in Seq(Right)
  <2>1. tenants[t].queue \in Seq(Nat) /\ tenants[t].remaining \in Nat
    BY DEF PolicyTypeOK, PolicyTenants
  <2>2. ASSUME NEW i \in DOMAIN tenants[t].queue
        PROVE  [candidate |-> <<t, tenants[t].queue[i]>>, reason |-> Reason(t)] \in Right
    <3>1. tenants[t].queue # <<>> /\ tenants[t].queue[i] \in Nat
      BY <2>1, <2>2
    <3>2. Reason(t) = "global_capacity_exhausted" => tenants[t].remaining > 0
      BY <2>1 DEF Reason
    <3>3. Reason(t) = "global_capacity_exhausted" => Len(selected) = capacity
      <4>1. ASSUME tenants[t].remaining > 0 PROVE Len(selected) = capacity
        <5>1. t \in Eligible
          BY <3>1, <4>1 DEF Eligible
        <5>2. Len(selected) >= capacity /\ Len(selected) <= capacity /\ Len(selected) \in Nat /\ capacity \in Nat
          BY <5>1 DEF Defer, PolicyTypeOK
        <5> QED
          BY <5>2
      <4> QED
        BY <3>2, <4>1
    <3>4. Reason(t) \in {"tenant_rate_limited", "global_capacity_exhausted"}
      BY DEF Reason
    <3> HIDE DEF Reason
    <3> QED
      BY <3>1, <3>3, <3>4
  <2>3. DOMAIN tenants[t].queue = 1..Len(tenants[t].queue) /\ Len(tenants[t].queue) \in Nat
    BY <2>1
  <2> HIDE DEF Right
  <2> QED
    BY <2>2, <2>3
<1> DEFINE seqs == [t \in Tenants |-> Rest(t)]
<1>2. Cardinality(Tenants) \in Nat /\ Tenants = 1..Cardinality(Tenants)
  BY PolicyAssumption, FS_CardinalityType
<1>3. deferred' = FlattenSeq(seqs)
  BY DEF Defer
<1> HIDE DEF Rest
<1>4. seqs \in [Tenants -> Seq(Right)]
  BY <1>1
<1> HIDE DEF Right, seqs
<1>5. deferred' \in Seq(Right)
  BY <1>2, <1>3, <1>4, FlattenedIsOf
<1>6. \A i \in DOMAIN deferred' : deferred'[i] \in Right
  BY <1>5
<1>7. \A i \in DOMAIN deferred' : deferred'[i].reason = "global_capacity_exhausted" => Len(selected) = capacity
  BY <1>6 DEF Right
<1>8. selected' = selected /\ capacity' = capacity
  BY DEF Defer
<1> QED
  BY <1>7, <1>8 DEF DeferredIsRight

LEMMA PolicyInitIInv == PolicyInit => PolicyIInv
<1> SUFFICES ASSUME PolicyInit PROVE PolicyIInv
  OBVIOUS
<1>1. PICK weight \in [Tenants -> Weights], length \in [Tenants -> QueueLengths],
           first \in [Tenants -> FirstRanks], limit \in [Tenants -> Limits] :
         tenants = [t \in Tenants |-> NewTenant(weight[t], length[t], first[t], limit[t])]
  BY DEF PolicyInit
<1>2. ASSUME NEW t \in Tenants
      PROVE  tenants[t] \in PolicyTenants /\ tenants[t].skipped = 0
  <2>1. weight[t] \in Nat /\ length[t] \in Nat /\ first[t] \in Nat /\ limit[t] \in Nat
    BY PolicyAssumption
  <2>2. tenants[t] = NewTenant(weight[t], length[t], first[t], limit[t])
    BY <1>1
  <2>3. [i \in 1..length[t] |-> first[t] + i] \in Seq(Nat)
    BY <2>1
  <2> QED
    BY <2>1, <2>2, <2>3 DEF NewTenant, PolicyTenants
<1>3. PolicyTypeOK
  <2>1. tenants \in [Tenants -> PolicyTenants]
    BY <1>1, <1>2
  <2>2. capacity \in Nat /\ selected = <<>>
    BY PolicyAssumption DEF PolicyInit
  <2> QED
    BY <2>1, <2>2 DEF PolicyTypeOK
<1>4. WaitsAreSeen
  <2>1. \A t \in Tenants \ Eligible : tenants[t].skipped = 0
    BY <1>2
  <2>2. ASSUME NEW t \in Eligible, NEW m \in EligibleCount..Cardinality(Tenants), NEW k \in 1..(2 * EligibleCount - 1)
        PROVE  ~ (k <= tenants[t].skipped - WaitBound(m))
    <3>1. t \in Tenants /\ tenants[t].skipped = 0
      BY <1>2 DEF Eligible
    <3>2. EligibleCount \in Nat /\ EligibleCount >= 1 /\ Cardinality(Tenants) \in Nat
      BY EligibleIsFinite
    <3>3. m \in Nat /\ m <= Cardinality(Tenants)
      BY <3>2
    <3>4. WaitBound(m) \in Int /\ WaitBound(m) >= 2 * Cardinality(Tenants) - 2
      BY <3>1, <3>3, WaitBoundIs
    <3> QED
      BY <3>1, <3>2, <3>3, <3>4
  <2> QED
    BY <2>1, <2>2 DEF WaitsAreSeen
<1>5. DeferredIsRight
  BY DEF PolicyInit, DeferredIsRight
<1> QED
  BY <1>3, <1>4, <1>5 DEF PolicyIInv

LEMMA PolicyRests ==
  ASSUME PolicyTypeOK, WaitsAreSeen, UNCHANGED <<tenants, capacity, selected>>
  PROVE  PolicyTypeOK' /\ WaitsAreSeen'
<1>1. PolicyTypeOK'
  BY DEF PolicyTypeOK
<1>2. Eligible' = Eligible
  BY DEF Eligible
<1>3. EligibleCount' = EligibleCount
  BY <1>2 DEF EligibleCount
<1>4. \A t, k : ServedWithin(t, k)' = ServedWithin(t, k)
  BY <1>2 DEF ServedWithin
<1>5. \A t : tenants'[t] = tenants[t]
  OBVIOUS
<1>6. ASSUME NEW t \in Eligible', NEW m \in EligibleCount'..Cardinality(Tenants),
             NEW k \in 1..(2 * EligibleCount' - 1),
             k <= tenants'[t].skipped - WaitBound(m)
      PROVE  Cardinality(ServedWithin(t, k)') >= k - (m - EligibleCount')
  <2>1. Cardinality(ServedWithin(t, k)) >= k - (m - EligibleCount)
    BY <1>2, <1>3, <1>5, <1>6 DEF WaitsAreSeen
  <2> QED
    BY <2>1, <1>3, <1>4
<1>7. \A t \in Tenants \ Eligible' : tenants'[t].skipped = 0
  BY <1>2, <1>5 DEF WaitsAreSeen
<1> QED
  BY <1>1, <1>6, <1>7 DEF WaitsAreSeen

LEMMA PolicyNextIInv == PolicyIInv /\ [PolicyNext]_policyVars => PolicyIInv'
<1> SUFFICES ASSUME PolicyIInv, [PolicyNext]_policyVars PROVE PolicyIInv'
  OBVIOUS
<1>0. PolicyTypeOK /\ WaitsAreSeen /\ DeferredIsRight
  BY DEF PolicyIInv
<1>1. CASE Round
  <2>1. PolicyTypeOK'
    <3>1. tenants' \in [Tenants -> PolicyTenants] /\ Winner(Eligible) \in Eligible
      BY <1>0, <1>1, RoundServes
    <3>2. Winner(Eligible) \in Tenants /\ tenants[Winner(Eligible)].queue # <<>>
      BY <3>1 DEF Eligible
    <3>3. tenants[Winner(Eligible)].queue \in Seq(Nat)
      BY <1>0, <3>2 DEF PolicyTypeOK, PolicyTenants
    <3>4. Head(tenants[Winner(Eligible)].queue) \in Nat
      BY <3>2, <3>3, HeadTailProperties
    <3>5. /\ selected' = Append(selected, <<Winner(Eligible), Head(tenants[Winner(Eligible)].queue)>>)
          /\ capacity' = capacity /\ Len(selected) < capacity
      BY <1>1 DEF Round
    <3> DEFINE x == <<Winner(Eligible), Head(tenants[Winner(Eligible)].queue)>>
    <3>6. x \in Tenants \X Nat
      BY <3>2, <3>4
    <3> HIDE DEF x
    <3>7. selected' \in Seq(Tenants \X Nat) /\ Len(selected') <= capacity'
      <4>1. selected \in Seq(Tenants \X Nat) /\ capacity \in Nat
        BY <1>0 DEF PolicyTypeOK
      <4>2. selected' = Append(selected, x)
        BY <3>5 DEF x
      <4>3. Len(Append(selected, x)) = Len(selected) + 1 /\ Append(selected, x) \in Seq(Tenants \X Nat)
        BY <4>1, <3>6
      <4>4. Len(selected) \in Nat
        BY <4>1
      <4> QED
        BY <4>1, <4>2, <4>3, <4>4, <3>5
    <3> QED
      BY <1>0, <3>1, <3>5, <3>7 DEF PolicyTypeOK
  <2>2. WaitsAreSeen'
    BY <1>0, <1>1, RoundKeepsWaits
  <2>3. deferred' = <<>>
    BY <1>1 DEF Round
  <2> QED
    BY <2>1, <2>2, <2>3 DEF PolicyIInv, DeferredIsRight
<1>2. CASE Defer
  <2>1. UNCHANGED <<tenants, capacity, selected>>
    BY <1>2 DEF Defer
  <2>2. PolicyTypeOK' /\ WaitsAreSeen'
    BY <1>0, <2>1, PolicyRests
  <2>3. DeferredIsRight'
    BY <1>0, <1>2, DeferIsRight
  <2> QED
    BY <2>2, <2>3 DEF PolicyIInv
<1>3. CASE UNCHANGED policyVars
  <2>1. PolicyTypeOK' /\ WaitsAreSeen'
    BY <1>0, <1>3, PolicyRests DEF policyVars
  <2>2. DeferredIsRight'
    BY <1>0, <1>3 DEF policyVars, DeferredIsRight
  <2> QED
    BY <2>1, <2>2 DEF PolicyIInv
<1> QED
  BY <1>1, <1>2, <1>3 DEF PolicyNext

(* However many tenants there are, whatever they weigh, queue and may         *)
(* consume: none that may run is passed over for longer than LongestWait      *)
(* rounds, no limit is exceeded, and nothing is deferred for capacity while    *)
(* capacity is left (schedulerPolicyEvaluator.ts:182-235).                    *)
THEOREM NoneStarves == PolicySpec => []NoTenantStarves
<1>1. PolicyIInv => NoTenantStarves
  <2> SUFFICES ASSUME PolicyIInv PROVE NoTenantStarves
    OBVIOUS
  <2>1. PolicyTypeOK /\ WaitsAreSeen /\ DeferredIsRight
    BY DEF PolicyIInv
  <2>2. \A t \in Tenants : tenants[t].skipped <= LongestWait
    BY <2>1, WaitsAreBounded
  <2>3. \A t \in Tenants : tenants[t].remaining >= 0
    BY <2>1 DEF PolicyTypeOK, PolicyTenants
  <2> QED
    BY <2>1, <2>2, <2>3 DEF NoTenantStarves, DeferredIsRight
<1> QED
  BY <1>1, PolicyInitIInv, PolicyNextIInv, PTL DEF PolicySpec

-----------------------------------------------------------------------------
(* The dispatches of SagaBridge, over the adapters.                        *)

HandlerRuns == Dispatches \X Nat
ExecutionIds == BridgeSagas \X Nat
ExecutionRecords == [owner : HandlerRuns \X Nat, status : {"in_progress", "succeeded", "failed"}]

\* What the counts of an aggregate need of its state.
Tallied(a) ==
  /\ {"id", "version", "totals"} \subseteq DOMAIN a
  /\ a.version \in Nat /\ a.totals \in [Windows -> Nat]

TurnRecords == [phase : {"new", "handler", "effects", "failed", "done"}, match : Nat, state : Seq(HandlerRuns)]

\* The turn whose next handler is awaited.
Advanced(t) == [phase |-> "handler", match |-> t.match + 1, state |-> t.state]

BridgeTypeOK ==
  /\ sagaState \in [BridgeSagas -> Seq(HandlerRuns)]
  /\ DOMAIN aggregateState = BridgeSagas /\ \A s \in BridgeSagas : Tallied(aggregateState[s])
  /\ intentSequence \in [BridgeSagas -> Nat]
  /\ DOMAIN executions \subseteq ExecutionIds /\ \A id \in DOMAIN executions : executions[id] \in ExecutionRecords
  /\ turn \in [Dispatches -> TurnRecords]
  /\ effects \subseteq ExecutionIds \X (HandlerRuns \X Nat)
  /\ restarts \in Nat
  /\ writes \in [BridgeSagas -> Seq(HandlerRuns)]
  /\ intentCount \in [BridgeSagas -> Nat]

\* Two dispatches of a saga in flight are known to overlap; one that overlaps
\* no other works on all that was written.
FoldsInHand ==
  /\ \A d, e \in Dispatches : d # e /\ InFlight(d) /\ InFlight(e) /\ DispatchOf[d].saga = DispatchOf[e].saga =>
       DispatchOf[d].saga \in overlapped
  /\ \A d \in Dispatches : InFlight(d) /\ DispatchOf[d].saga \notin overlapped =>
       turn[d].state = writes[DispatchOf[d].saga]

Begun(s) == {d \in Dispatches : DispatchOf[d].saga = s /\ turn[d].match > 0}

\* A dispatch is counted when it begins, with which its saga is created.
CountsInOrder ==
  /\ \A d \in Dispatches : turn[d].phase = "new" => turn[d].match = 0
  /\ \A d \in Dispatches : InFlight(d) => turn[d].match > 0
  /\ \A s \in BridgeSagas : Created(aggregateState[s]) <=> Begun(s) # {}

\* A run of a handler that has returned.
Past(run) ==
  \/ run[2] < turn[run[1]].match
  \/ run[2] = turn[run[1]].match /\ turn[run[1]].phase # "handler"

\* An effect that runs is in progress, under an id given since the restart and
\* for an owner of its own.
EffectsInHand ==
  /\ \A e \in effects : /\ e[1] \in DOMAIN executions /\ e[1][2] <= intentSequence[e[1][1]]
                        /\ executions[e[1]].owner = e[2] /\ executions[e[1]].status = "in_progress"
  /\ \A i, j \in DOMAIN executions : executions[i].owner = executions[j].owner => i = j
  /\ \A i \in DOMAIN executions : Past(executions[i].owner[1])

BridgeIInv ==
  /\ BridgeTypeOK /\ FoldsInHand /\ StateIsFolded
  /\ CountsInOrder /\ EverythingIsCounted
  /\ EffectsInHand /\ ExecutionsAreHonest

-----------------------------------------------------------------------------
(* The intents recorded in an aggregate, one by one.                       *)

RecordOne(a, intent) == Applied(a, [type |-> "recordIntentLifecycle", intent |-> intent.type])

RecordingTrace(it, base, n, q) ==
  /\ it[0] = base
  /\ \A k \in 1..n : it[k] = RecordOne(it[k - 1], q[k])
  /\ IntentsRecorded(base, q) = it[n]

LEMMA MaxOfPrefix ==
  ASSUME NEW m \in Nat, NEW x \in SUBSET (1..(m + 1)), m + 1 \in x
  PROVE  Max(x) = m + 1 /\ x \ {m + 1} \in SUBSET (1..m)
<1>1. \A y \in x : y \in Nat /\ y <= m + 1
  OBVIOUS
<1>2. \A y \in x : (\A z \in x : y >= z) => y = m + 1
  BY <1>1
<1>3. \A z \in x : m + 1 >= z
  BY <1>1
<1>4. Max(x) = m + 1
  BY <1>2, <1>3 DEF Max
<1> QED
  BY <1>1, <1>4

LEMMA RecordingFolds ==
  ASSUME NEW base, NEW n \in Nat, NEW q, DOMAIN q = 1..n
  PROVE  \E it : RecordingTrace(it, base, n, q)
<1> DEFINE Step(r, k) == RecordOne(r, q[k])
           Folds(f, m) == f = [x \in SUBSET (1..m) |->
                                 IF x = {} THEN base ELSE Step(f[x \ {Max(x)}], Max(x))]
           T == {m \in Nat : \E f : Folds(f, m)}
<1>1. 0 \in T
  <2>1. Folds([x \in SUBSET (1..0) |-> base], 0)
    OBVIOUS
  <2> QED
    BY <2>1
<1>2. ASSUME NEW m \in Nat, m \in T PROVE m + 1 \in T
  <2>1. PICK f : Folds(f, m)
    BY <1>2
  <2> HIDE DEF Step
  <2>2. \A x \in SUBSET (1..m) : f[x] = IF x = {} THEN base ELSE Step(f[x \ {Max(x)}], Max(x))
    BY <2>1
  <2> DEFINE g == [x \in SUBSET (1..(m + 1)) |->
                     IF m + 1 \in x THEN Step(f[x \ {m + 1}], m + 1) ELSE f[x]]
  <2>3. ASSUME NEW x \in SUBSET (1..(m + 1))
        PROVE  g[x] = IF x = {} THEN base ELSE Step(g[x \ {Max(x)}], Max(x))
    <3>1. CASE m + 1 \in x
      <4>1. Max(x) = m + 1 /\ x \ {m + 1} \in SUBSET (1..m) /\ m + 1 \notin x \ {m + 1}
        BY <3>1, MaxOfPrefix
      <4>2. x \ {m + 1} \in SUBSET (1..(m + 1))
        OBVIOUS
      <4> QED
        BY <3>1, <4>1, <4>2
    <3>2. CASE m + 1 \notin x
      <4>0. \A y \in 1..(m + 1) : y # m + 1 => y \in 1..m
        OBVIOUS
      <4>1. x \in SUBSET (1..m) /\ x \ {Max(x)} \in SUBSET (1..(m + 1)) /\ m + 1 \notin x \ {Max(x)}
        BY <3>2, <4>0
      <4> QED
        BY <3>2, <4>1, <2>2
    <3> QED
      BY <3>1, <3>2
  <2>4. Folds(g, m + 1)
    BY <2>3
  <2> HIDE DEF Folds, g
  <2>5. \E h : Folds(h, m + 1)
    BY <2>4
  <2> QED
    BY <2>5
<1> HIDE DEF T
<1>3. n \in T
  <2>1. \A k \in 0..n : k \in T
    BY <1>1, <1>2, UpTo
  <2> QED
    BY <2>1
<1> DEFINE f == CHOOSE f : Folds(f, n)
<1>4. Folds(f, n)
  BY <1>3 DEF T
<1>5. IntentsRecorded(base, q) = f[1..n]
  BY DEF IntentsRecorded, RecordOne, FoldLeft, MapThenFoldSet
<1> HIDE DEF f, Step
<1>6. \A x \in SUBSET (1..n) : f[x] = IF x = {} THEN base ELSE Step(f[x \ {Max(x)}], Max(x))
  BY <1>4
<1> DEFINE it == [k \in 0..n |-> f[1..k]]
<1>7. it[0] = base
  <2>1. 1..0 = {} /\ 1..0 \in SUBSET (1..n)
    OBVIOUS
  <2>2. f[1..0] = base
    BY <2>1, <1>6
  <2> QED
    BY <2>2
<1>8. ASSUME NEW k \in 1..n PROVE it[k] = Step(it[k - 1], k)
  <2>1. k - 1 \in Nat /\ (k - 1) + 1 = k
    OBVIOUS
  <2>2. 1..k \in SUBSET (1..((k - 1) + 1)) /\ (k - 1) + 1 \in 1..k
    BY <2>1
  <2>3. Max(1..k) = k
    BY <2>1, <2>2, MaxOfPrefix
  <2>4. (1..k) \ {k} = 1..(k - 1) /\ 1..k \in SUBSET (1..n) /\ 1..k # {} /\ k - 1 \in 0..n
    BY <2>1
  <2>5. f[1..k] = Step(f[1..(k - 1)], k)
    BY <2>3, <2>4, <1>6
  <2>6. it[k] = f[1..k] /\ it[k - 1] = f[1..(k - 1)]
    BY <2>4
  <2> QED
    BY <2>5, <2>6
<1>9. it[n] = f[1..n]
  OBVIOUS
<1> QED
  BY <1>5, <1>7, <1>8, <1>9 DEF Step, RecordingTrace


Events(a) == a.totals["events"]
Intents(a) == a.totals["intents"]

LEMMA TalliedCounts ==
  ASSUME NEW a, Tallied(a)
  PROVE  a.version \in Nat /\ Events(a) \in Nat /\ Intents(a) \in Nat
BY DEF Tallied, Events, Intents, Windows

\* What a record adds to the counts of an aggregate.
Grown(a, b, events, intents) ==
  /\ Tallied(b) /\ b.id = a.id /\ b.version = a.version + events + intents
  /\ Events(b) = Events(a) + events
  /\ Intents(b) = Intents(a) + intents

LEMMA RecordOneGrows ==
  ASSUME NEW a, Tallied(a), NEW intent
  PROVE  Grown(a, RecordOne(a, intent), 0, 1)
<1> DEFINE command == [type |-> "recordIntentLifecycle", intent |-> intent.type]
<1>1. command.type = "recordIntentLifecycle" /\ WindowOf(command) = "intents"
  BY DEF WindowOf
<1> HIDE DEF command
<1>2. Applied(a, command) = [a EXCEPT !.lifecycle = @, !.version = @ + 1, !.totals["intents"] = @ + 1,
                                      !.recent["intents"] = AppendRecentWindow(@, command)]
  BY <1>1 DEF Applied
<1>3. /\ a.version \in Nat /\ a.totals \in [Windows -> Nat] /\ "intents" \in Windows /\ "events" \in Windows
      /\ "id" \in DOMAIN a /\ "version" \in DOMAIN a /\ "totals" \in DOMAIN a
  BY DEF Tallied, Windows
<1> PICK b : b = Applied(a, command)
  OBVIOUS
<1>4. DOMAIN b = DOMAIN a
  BY <1>2
<1>5. b.id = a.id /\ b.version = a.version + 1 /\ b.totals = [a.totals EXCEPT !["intents"] = @ + 1]
  BY <1>2, <1>3
<1>6. b.totals \in [Windows -> Nat] /\ Intents(b) = Intents(a) + 1 /\ Events(b) = Events(a)
  BY <1>3, <1>5 DEF Intents, Events
<1>7. Grown(a, b, 0, 1)
  <2>1. Tallied(b)
    BY <1>3, <1>4, <1>5, <1>6 DEF Tallied
  <2>2. Events(a) \in Nat /\ Intents(a) \in Nat
    BY TalliedCounts
  <2> QED
    BY <2>1, <2>2, <1>3, <1>5, <1>6 DEF Grown
<1> QED
  BY <1>7 DEF RecordOne, command

LEMMA RecordingGrows ==
  ASSUME NEW a, Tallied(a), NEW q, q \in Seq(ToSet(q))
  PROVE  Grown(a, IntentsRecorded(a, q), 0, Len(q))
<1> PICK n \in Nat : n = Len(q) /\ DOMAIN q = 1..n
  OBVIOUS
<1>1. PICK it : RecordingTrace(it, a, n, q)
  BY RecordingFolds
<1> DEFINE T == {k \in Nat : k <= n => Grown(a, it[k], 0, k)}
<1>2. 0 \in T
  BY <1>1, TalliedCounts DEF RecordingTrace, Grown
<1>3. ASSUME NEW k \in Nat, k < n, k \in T PROVE k + 1 \in T
  <2>1. Grown(a, it[k], 0, k) /\ it[k + 1] = RecordOne(it[k], q[k + 1])
    BY <1>1, <1>3 DEF RecordingTrace
  <2>2. PICK b, c : b = it[k] /\ c = RecordOne(b, q[k + 1]) /\ it[k + 1] = c
    BY <2>1
  <2>3. Grown(a, b, 0, k)
    BY <2>1, <2>2
  <2>4. Grown(b, c, 0, 1)
    BY <2>2, <2>3, RecordOneGrows DEF Grown
  <2>5. Grown(a, c, 0, k + 1)
    <3>1. /\ a.version \in Nat /\ Events(a) \in Nat /\ Intents(a) \in Nat
          /\ b.version \in Nat /\ Events(b) \in Nat /\ Intents(b) \in Nat
      BY <2>3, TalliedCounts DEF Grown
    <3>2. Tallied(c) /\ c.id = a.id
      BY <2>3, <2>4 DEF Grown
    <3>3. /\ b.version = a.version + 0 + k /\ c.version = b.version + 0 + 1
          /\ Events(b) = Events(a) + 0 /\ Events(c) = Events(b) + 0
          /\ Intents(b) = Intents(a) + k /\ Intents(c) = Intents(b) + 1
      BY <2>3, <2>4 DEF Grown
    <3>4. /\ c.version = a.version + 0 + (k + 1)
          /\ Events(c) = Events(a) + 0
          /\ Intents(c) = Intents(a) + (k + 1)
      BY <3>1, <3>3
    <3> QED
      BY <3>1, <3>2, <3>4 DEF Grown
  <2> QED
    BY <2>2, <2>5
<1>4. n \in T
  <2> HIDE DEF T
  <2>1. \A k \in 0..n : k \in T
    BY <1>2, <1>3, UpTo
  <2> QED
    BY <2>1
<1> QED
  BY <1>1, <1>4 DEF RecordingTrace

LEMMA ObservedGrows ==
  ASSUME NEW a, Tallied(a), NEW saga, saga # NoSaga
  PROVE  LET b == Observed(a, saga)
         IN /\ Tallied(b) /\ Created(b)
            /\ b.version = a.version + 1 + (IF Created(a) THEN 0 ELSE 1)
            /\ b.totals["events"] = a.totals["events"] + 1
            /\ b.totals["intents"] = a.totals["intents"]
<1> PICK create : create = [type |-> "createInstance", id |-> saga, lifecycle |-> "active"]
  OBVIOUS
<1> PICK observe : observe = [type |-> "observeSourceEvent"]
  OBVIOUS
<1> PICK c : c = IF Created(a) THEN a ELSE Applied(a, create)
  OBVIOUS
<1> PICK b : b = Applied(c, observe)
  OBVIOUS
<1>1. b = Observed(a, saga)
  BY DEF Observed
<1>2. /\ a.version \in Nat /\ a.totals \in [Windows -> Nat] /\ "intents" \in Windows /\ "events" \in Windows
      /\ "id" \in DOMAIN a /\ "version" \in DOMAIN a /\ "totals" \in DOMAIN a
  BY DEF Tallied, Windows
<1>3. /\ c.version = a.version + (IF Created(a) THEN 0 ELSE 1) /\ c.totals = a.totals /\ c.id # NoSaga
      /\ DOMAIN c = DOMAIN a
  <2>1. CASE Created(a)
    BY <2>1, <1>2 DEF Created
  <2>2. CASE ~Created(a)
    <3>1. c = [a EXCEPT !.id = saga, !.lifecycle = "active", !.version = @ + 1]
      BY <2>2 DEF Applied
    <3> QED
      BY <3>1, <2>2, <1>2
  <2> QED
    BY <2>1, <2>2
<1>4. b = [c EXCEPT !.lifecycle = @, !.version = @ + 1, !.totals["events"] = @ + 1,
                    !.recent["events"] = AppendRecentWindow(@, observe)]
  <2>1. observe.type = "observeSourceEvent" /\ WindowOf(observe) = "events"
    BY DEF WindowOf
  <2> QED
    BY <2>1 DEF Applied
<1>5. /\ DOMAIN b = DOMAIN a /\ b.id = c.id /\ b.version = c.version + 1
      /\ b.totals = [a.totals EXCEPT !["events"] = @ + 1]
  <2>1. {"id", "version", "totals"} \subseteq DOMAIN c
    BY ONLY <1>2, <1>3
  <2>2. DOMAIN b = DOMAIN c /\ b.id = c.id
    BY ONLY <2>1, <1>4
  <2>3. b.version = c.version + 1 /\ b.totals = [c.totals EXCEPT !["events"] = @ + 1]
    BY ONLY <2>1, <1>4
  <2> QED
    BY ONLY <2>2, <2>3, <1>3
<1>6. b.totals \in [Windows -> Nat] /\ b.totals["events"] = a.totals["events"] + 1
      /\ b.totals["intents"] = a.totals["intents"]
  BY <1>2, <1>5
<1>7. c.version \in Nat
  BY <1>2, <1>3
<1>8. Tallied(b) /\ Created(b) /\ b.version = a.version + 1 + (IF Created(a) THEN 0 ELSE 1)
  BY <1>2, <1>3, <1>5, <1>6, <1>7 DEF Tallied, Created
<1> QED
  BY <1>1, <1>6, <1>8

-----------------------------------------------------------------------------
(* Each action of the bridge, first where only phases change.              *)

\* What a step leaves alone that neither returns a handler nor begins one.
Unfolded == UNCHANGED <<sagaState, aggregateState, writes, intentCount>>

LEMMA ChangedTurn ==
  ASSUME BridgeTypeOK, NEW d \in Dispatches, NEW p \in {"new", "handler", "effects", "failed", "done"},
         turn' = [turn EXCEPT ![d].phase = p]
  PROVE  /\ turn' \in [Dispatches -> TurnRecords]
         /\ turn'[d].phase = p /\ turn'[d].match = turn[d].match /\ turn'[d].state = turn[d].state
         /\ \A e \in Dispatches : e # d => turn'[e] = turn[e]
BY DEF BridgeTypeOK, TurnRecords

\* A step that only ends what was in flight, or fails it.
Ending ==
  /\ turn' \in [Dispatches -> TurnRecords]
  /\ \A e \in Dispatches :
       /\ turn'[e].match = turn[e].match /\ turn'[e].state = turn[e].state
       /\ turn'[e].phase = turn[e].phase \/ turn'[e].phase \in {"failed", "done"}

(* What it leaves in flight is less, and runs stay past.                     *)
LEMMA EndingRests ==
  ASSUME BridgeIInv, Unfolded, Ending, UNCHANGED overlapped
  PROVE  /\ FoldsInHand' /\ StateIsFolded' /\ CountsInOrder' /\ EverythingIsCounted'
         /\ \A run \in HandlerRuns : Past(run) => Past(run)'
<1>1. BridgeTypeOK /\ FoldsInHand /\ StateIsFolded /\ CountsInOrder /\ EverythingIsCounted
  BY DEF BridgeIInv
<1>2. /\ sagaState' = sagaState /\ aggregateState' = aggregateState /\ writes' = writes
      /\ intentCount' = intentCount /\ overlapped' = overlapped
  BY DEF Unfolded
<1>3. \A e \in Dispatches : /\ turn'[e].match = turn[e].match /\ turn'[e].state = turn[e].state
                            /\ InFlight(e)' => InFlight(e)
                            /\ turn'[e].phase = "new" => turn[e].phase = "new"
                            /\ turn'[e].phase = "handler" => turn[e].phase = "handler"
  BY DEF InFlight, Ending
<1>4. FoldsInHand' /\ StateIsFolded'
  BY <1>1, <1>2, <1>3 DEF FoldsInHand, StateIsFolded
<1>5. \A s : Begun(s)' = Begun(s)
  BY <1>3 DEF Begun
<1>6. CountsInOrder'
  BY <1>1, <1>2, <1>3, <1>5 DEF CountsInOrder, Created
<1>7. EverythingIsCounted'
  <2>1. \A s : {e \in Dispatches : DispatchOf[e].saga = s /\ turn'[e].match > 0}
              = {e \in Dispatches : DispatchOf[e].saga = s /\ turn[e].match > 0}
    BY <1>3
  <2> DEFINE CountedBy(s, begun) ==
                LET a == aggregateState[s]
                IN /\ a.totals["events"] = Cardinality(begun)
                   /\ a.totals["intents"] = intentCount[s]
                   /\ a.version = (IF begun = {} THEN 0 ELSE 1) + Cardinality(begun) + intentCount[s]
  <2>2. \A s \in BridgeSagas : CountedBy(s, {e \in Dispatches : DispatchOf[e].saga = s /\ turn[e].match > 0})
    BY <1>1 DEF EverythingIsCounted
  <2>3. \A s \in BridgeSagas : CountedBy(s, {e \in Dispatches : DispatchOf[e].saga = s /\ turn'[e].match > 0})
    <3> HIDE DEF CountedBy
    <3> QED
      BY <2>1, <2>2
  <2> QED
    BY <2>3, <1>2 DEF EverythingIsCounted
<1>8. ASSUME NEW run \in HandlerRuns, Past(run) PROVE Past(run)'
  <2>1. run[1] \in Dispatches
    BY DEF HandlerRuns
  <2> QED
    BY <1>3, <1>8, <2>1 DEF Past
<1> QED
  BY <1>4, <1>6, <1>7, <1>8

LEMMA EndingKeeps ==
  ASSUME BridgeIInv, Unfolded, UNCHANGED <<executions, effects, intentSequence, restarts, answers, overlapped>>,
         NEW d \in Dispatches, NEW p \in {"failed", "done"}, turn' = [turn EXCEPT ![d].phase = p]
  PROVE  BridgeIInv'
<1>1. BridgeTypeOK /\ EffectsInHand /\ ExecutionsAreHonest
  BY DEF BridgeIInv
<1>2. Ending
  BY <1>1, ChangedTurn DEF Ending
<1>3. /\ FoldsInHand' /\ StateIsFolded' /\ CountsInOrder' /\ EverythingIsCounted'
      /\ \A run \in HandlerRuns : Past(run) => Past(run)'
  BY <1>2, EndingRests
<1>4. /\ sagaState' = sagaState /\ aggregateState' = aggregateState /\ writes' = writes
      /\ intentCount' = intentCount /\ executions' = executions /\ effects' = effects
      /\ intentSequence' = intentSequence /\ restarts' = restarts /\ answers' = answers /\ overlapped' = overlapped
  BY DEF Unfolded
<1>5. BridgeTypeOK'
  BY <1>1, <1>2, <1>4 DEF BridgeTypeOK, Ending
<1>6. EffectsInHand'
  <2>1. ASSUME NEW i \in DOMAIN executions PROVE Past(executions[i].owner[1])'
    <3>1. executions[i].owner[1] \in HandlerRuns /\ Past(executions[i].owner[1])
      BY <1>1 DEF BridgeTypeOK, ExecutionRecords, EffectsInHand
    <3> PICK run : run = executions[i].owner[1]
      OBVIOUS
    <3>2. Past(run)'
      BY <3>1, <1>3
    <3> QED
      BY <3>2, <1>4 DEF Past
  <2> QED
    BY <2>1, <1>1, <1>4 DEF EffectsInHand
<1>7. ExecutionsAreHonest'
  BY <1>1, <1>4 DEF ExecutionsAreHonest
<1> QED
  BY <1>3, <1>5, <1>6, <1>7 DEF BridgeIInv

LEMMA DispatchUnhandledKeeps ==
  ASSUME BridgeIInv, NEW d \in Dispatches, DispatchUnhandled(d)
  PROVE  BridgeIInv'
<1> PICK p \in {"failed", "done"} : p = "done"
  OBVIOUS
<1> QED
  BY EndingKeeps DEF DispatchUnhandled, Unfolded

LEMMA HandlerThrowsKeeps ==
  ASSUME BridgeIInv, NEW d \in Dispatches, HandlerThrows(d)
  PROVE  BridgeIInv'
<1> PICK p \in {"failed", "done"} : p = "failed"
  OBVIOUS
<1> QED
  BY EndingKeeps DEF HandlerThrows, Unfolded

LEMMA AdvancedFields ==
  ASSUME NEW t \in TurnRecords
  PROVE  /\ Advanced(t) \in TurnRecords
         /\ Advanced(t).phase = "handler" /\ Advanced(t).match = t.match + 1 /\ Advanced(t).state = t.state
BY DEF Advanced, TurnRecords

LEMMA TurnAdvancesKeeps ==
  ASSUME BridgeIInv, NEW d \in Dispatches, TurnAdvances(d)
  PROVE  BridgeIInv'
<1>1. BridgeTypeOK /\ FoldsInHand /\ StateIsFolded /\ CountsInOrder /\ EverythingIsCounted /\ EffectsInHand
      /\ ExecutionsAreHonest
  BY DEF BridgeIInv
<1>2. CASE turn[d].match < DispatchOf[d].matches
  <2>1. /\ sagaState' = sagaState /\ aggregateState' = aggregateState /\ writes' = writes
        /\ intentCount' = intentCount /\ executions' = executions /\ effects' = effects
        /\ intentSequence' = intentSequence /\ restarts' = restarts /\ answers' = answers /\ overlapped' = overlapped
        /\ turn[d].phase = "effects"
    BY DEF TurnAdvances
  <2>2. /\ turn' \in [Dispatches -> TurnRecords]
        /\ turn'[d].phase = "handler" /\ turn'[d].match = turn[d].match + 1 /\ turn'[d].state = turn[d].state
        /\ \A e \in Dispatches : e # d => turn'[e] = turn[e]
    <3>1. turn \in [Dispatches -> TurnRecords] /\ turn[d] \in TurnRecords
      BY <1>1 DEF BridgeTypeOK
    <3>2. turn'[d] = Advanced(turn[d]) /\ turn' = [turn EXCEPT ![d] = turn'[d]]
      BY <1>2, <3>1 DEF TurnAdvances, Advanced
    <3>3. Advanced(turn[d]) \in TurnRecords
      BY <3>1, AdvancedFields
    <3> QED
      BY <3>1, <3>2, <3>3, AdvancedFields
  <2>3. \A e \in Dispatches : /\ InFlight(e)' <=> InFlight(e)
                              /\ turn'[e].state = turn[e].state
                              /\ turn'[e].phase = "new" => turn[e].phase = "new" /\ turn'[e].match = turn[e].match
                              /\ turn[e].match \in Nat
                              /\ turn'[e].match > 0 <=> turn[e].match > 0
    <3>1. turn[d].match \in Nat /\ turn[d].match > 0 /\ turn'[d].match > 0
      BY <1>1, <2>1, <2>2 DEF BridgeTypeOK, TurnRecords, CountsInOrder, InFlight
    <3> QED
      BY <3>1, <1>1, <2>1, <2>2 DEF InFlight, BridgeTypeOK, TurnRecords
  <2>4. \A s : Begun(s)' = Begun(s)
    BY <2>3 DEF Begun
  <2>5. BridgeTypeOK'
    BY <1>1, <2>1, <2>2 DEF BridgeTypeOK
  <2>6. FoldsInHand' /\ StateIsFolded'
    BY <1>1, <2>1, <2>3 DEF FoldsInHand, StateIsFolded
  <2>7. CountsInOrder'
    BY <1>1, <2>1, <2>3, <2>4 DEF CountsInOrder, Created
  <2>8. EverythingIsCounted'
    BY <1>1, <2>1, <2>4 DEF EverythingIsCounted, Begun
  <2>9. EffectsInHand'
    <3>1. ASSUME NEW i \in DOMAIN executions PROVE Past(executions[i].owner[1])'
      <4>1. executions[i].owner[1] \in HandlerRuns /\ Past(executions[i].owner[1])
        BY <1>1 DEF BridgeTypeOK, ExecutionRecords, EffectsInHand
      <4>2. executions[i].owner[1][1] \in Dispatches /\ executions[i].owner[1][2] \in Nat
        BY <4>1 DEF HandlerRuns
      <4>3. turn[d].match \in Nat
        BY <2>3
      <4> QED
        BY <4>1, <4>2, <4>3, <2>1, <2>2 DEF Past
    <3> QED
      BY <3>1, <1>1, <2>1 DEF EffectsInHand
  <2>10. ExecutionsAreHonest'
    BY <1>1, <2>1 DEF ExecutionsAreHonest
  <2> QED
    BY <2>5, <2>6, <2>7, <2>8, <2>9, <2>10 DEF BridgeIInv
<1>3. CASE ~ (turn[d].match < DispatchOf[d].matches)
  <2> PICK p \in {"failed", "done"} : p = "done"
    OBVIOUS
  <2>1. turn' = [turn EXCEPT ![d].phase = p]
    BY <1>3, <1>1 DEF TurnAdvances, BridgeTypeOK
  <2> QED
    BY <2>1, EndingKeeps DEF TurnAdvances, Unfolded
<1> QED
  BY <1>2, <1>3

LEMMA DispatchBeginsKeeps ==
  ASSUME BridgeIInv, NEW d \in Dispatches, DispatchBegins(d)
  PROVE  BridgeIInv'
<1> PICK s \in BridgeSagas : s = DispatchOf[d].saga
  BY DEF BridgeSagas
<1>1. BridgeTypeOK /\ FoldsInHand /\ StateIsFolded /\ CountsInOrder /\ EverythingIsCounted /\ EffectsInHand
      /\ ExecutionsAreHonest
  BY DEF BridgeIInv
<1>2. /\ sagaState' = sagaState /\ writes' = writes
      /\ intentCount' = intentCount /\ executions' = executions /\ effects' = effects
      /\ intentSequence' = intentSequence /\ restarts' = restarts /\ answers' = answers
      /\ turn[d].phase = "new"
      /\ aggregateState' = [aggregateState EXCEPT ![s] = Observed(@, s)]
      /\ turn' = [turn EXCEPT ![d] = [phase |-> "handler", match |-> 1, state |-> sagaState[s]]]
      /\ overlapped' = overlapped \cup {t \in {s} : \E e \in Dispatches : InFlight(e) /\ DispatchOf[e].saga = t}
  BY DEF DispatchBegins, GetSagaState
<1>3. /\ turn' \in [Dispatches -> TurnRecords]
      /\ turn'[d].phase = "handler" /\ turn'[d].match = 1 /\ turn'[d].state = sagaState[s]
      /\ \A e \in Dispatches : e # d => turn'[e] = turn[e]
  BY <1>1, <1>2 DEF BridgeTypeOK, TurnRecords
<1>4. ~InFlight(d) /\ InFlight(d)' /\ turn[d].match = 0
      /\ \A e \in Dispatches : e # d => (InFlight(e)' <=> InFlight(e))
  BY <1>1, <1>2, <1>3 DEF InFlight, CountsInOrder
<1>5. s # NoSaga
  BY BridgeAssumption
<1>6. LET a == aggregateState[s]
          b == aggregateState'[s]
      IN /\ Tallied(b) /\ Created(b)
         /\ b.version = a.version + 1 + (IF Created(a) THEN 0 ELSE 1)
         /\ b.totals["events"] = a.totals["events"] + 1
         /\ b.totals["intents"] = a.totals["intents"]
  <2>1. Tallied(aggregateState[s]) /\ aggregateState'[s] = Observed(aggregateState[s], s)
    BY <1>1, <1>2 DEF BridgeTypeOK
  <2> QED
    BY <2>1, <1>5, ObservedGrows
<1>7. DOMAIN aggregateState' = BridgeSagas /\ \A t \in BridgeSagas : t # s => aggregateState'[t] = aggregateState[t]
  BY <1>1, <1>2 DEF BridgeTypeOK
<1>8. BridgeTypeOK'
  BY <1>1, <1>2, <1>3, <1>6, <1>7 DEF BridgeTypeOK
<1>9. FoldsInHand' /\ StateIsFolded'
  <2>1. ASSUME NEW e \in Dispatches, e # d, InFlight(e), DispatchOf[e].saga = s PROVE s \in overlapped'
    BY <2>1, <1>2
  <2>2. s \notin overlapped => sagaState[s] = writes[s]
    BY <1>1 DEF StateIsFolded
  <2> QED
    BY <2>1, <2>2, <1>1, <1>2, <1>3, <1>4 DEF FoldsInHand, StateIsFolded
<1>10. Begun(s)' = Begun(s) \cup {d} /\ d \notin Begun(s) /\ \A t : t # s => Begun(t)' = Begun(t)
  BY <1>3, <1>4 DEF Begun
<1>11. CountsInOrder'
  <2>1. \A e \in Dispatches : turn'[e].phase = "new" => turn'[e].match = 0
    BY <1>1, <1>3 DEF CountsInOrder
  <2>2. \A e \in Dispatches : InFlight(e)' => turn'[e].match > 0
    BY <1>1, <1>3, <1>4 DEF CountsInOrder
  <2>3. \A t \in BridgeSagas : Created(aggregateState'[t]) <=> Begun(t)' # {}
    BY <1>1, <1>6, <1>7, <1>10 DEF CountsInOrder
  <2> QED
    BY <2>1, <2>2, <2>3 DEF CountsInOrder, Created, Begun
<1>12. EverythingIsCounted'
  <2>1. IsFiniteSet(Begun(s)) /\ Cardinality(Begun(s)) \in Nat
    <3>1. Begun(s) \subseteq Dispatches
      BY DEF Begun
    <3> QED
      BY <3>1, BridgeAssumption, FS_Subset, FS_CardinalityType
  <2>2. Cardinality(Begun(s)') = Cardinality(Begun(s)) + 1
    BY <2>1, <1>10, FS_AddElement
  <2>3. \A t \in BridgeSagas :
          LET a == aggregateState[t]
          IN /\ a.totals["events"] = Cardinality(Begun(t)) /\ a.totals["intents"] = intentCount[t]
             /\ a.version = (IF Begun(t) = {} THEN 0 ELSE 1) + Cardinality(Begun(t)) + intentCount[t]
    BY <1>1 DEF EverythingIsCounted, Begun
  <2>4. Created(aggregateState[s]) <=> Begun(s) # {}
    BY <1>1 DEF CountsInOrder
  <2>5. intentCount[s] \in Nat /\ Begun(s)' # {}
    BY <1>1, <1>10 DEF BridgeTypeOK
  <2>6. LET a == aggregateState'[s]
        IN /\ a.totals["events"] = Cardinality(Begun(s)') /\ a.totals["intents"] = intentCount[s]
           /\ a.version = 1 + Cardinality(Begun(s)') + intentCount[s]
    BY <2>1, <2>2, <2>3, <2>4, <2>5, <1>6
  <2>7. \A t \in BridgeSagas :
          LET a == aggregateState'[t]
          IN /\ a.totals["events"] = Cardinality(Begun(t)') /\ a.totals["intents"] = intentCount'[t]
             /\ a.version = (IF Begun(t)' = {} THEN 0 ELSE 1) + Cardinality(Begun(t)') + intentCount'[t]
    <3>1. ASSUME NEW t \in BridgeSagas, t # s
          PROVE  Begun(t)' = Begun(t) /\ aggregateState'[t] = aggregateState[t] /\ intentCount'[t] = intentCount[t]
      BY <3>1, <1>2, <1>7, <1>10
    <3>2. intentCount'[s] = intentCount[s]
      BY <1>2
    <3> QED
      BY <2>3, <2>5, <2>6, <3>1, <3>2
  <2> QED
    BY <2>7 DEF EverythingIsCounted, Begun
<1>13. EffectsInHand'
  <2>1. ASSUME NEW i \in DOMAIN executions PROVE Past(executions[i].owner[1])'
    <3>1. executions[i].owner[1] \in HandlerRuns /\ Past(executions[i].owner[1])
      BY <1>1 DEF BridgeTypeOK, ExecutionRecords, EffectsInHand
    <3>2. executions[i].owner[1][1] \in Dispatches /\ executions[i].owner[1][2] \in Nat
      BY <3>1 DEF HandlerRuns
    <3> QED
      BY <3>1, <3>2, <1>2, <1>3, <1>4 DEF Past
  <2> QED
    BY <2>1, <1>1, <1>2 DEF EffectsInHand
<1>14. ExecutionsAreHonest'
  BY <1>1, <1>2 DEF ExecutionsAreHonest
<1> QED
  BY <1>8, <1>9, <1>11, <1>12, <1>13, <1>14 DEF BridgeIInv

-----------------------------------------------------------------------------
(* The effects, and the restart.                                           *)

\* An effect in hand and the execution it is of, which is no other's.
LEMMA EffectOfItsOwn ==
  ASSUME BridgeIInv, NEW e \in effects
  PROVE  /\ e = <<e[1], e[2]>> /\ e[1] \in ExecutionIds /\ e[2] \in HandlerRuns \X Nat /\ e[2][1][1] \in Dispatches
         /\ e[1] \in DOMAIN executions /\ executions[e[1]].owner = e[2] /\ executions[e[1]].status = "in_progress"
         /\ \A f \in effects : f # e => f[1] # e[1]
         /\ \A id \in DOMAIN executions : id # e[1] => executions[id].owner # e[2]
<1>1. \A f \in effects : f \in ExecutionIds \X (HandlerRuns \X Nat)
  BY DEF BridgeIInv, BridgeTypeOK
<1>2. /\ \A f \in effects : f[1] \in DOMAIN executions /\ executions[f[1]].owner = f[2]
                            /\ executions[f[1]].status = "in_progress"
      /\ \A i, j \in DOMAIN executions : executions[i].owner = executions[j].owner => i = j
  BY DEF BridgeIInv, EffectsInHand
<1>3. \A f \in effects : f = <<f[1], f[2]>>
  BY <1>1
<1>4. e[1] \in ExecutionIds /\ e[2] \in HandlerRuns \X Nat /\ e[2][1][1] \in Dispatches
  BY <1>1 DEF HandlerRuns
<1> QED
  BY <1>2, <1>3, <1>4

\* An execution of the table after an answer that is recorded, or is not.
LEMMA AnsweringKeeps ==
  ASSUME BridgeIInv, Unfolded, UNCHANGED <<intentSequence, restarts, overlapped>>, Ending,
         NEW e \in effects, NEW what \in {"succeeded", "failed", "threw"}, Answer(e, what),
         executions' = IF what = "threw" THEN executions
                       ELSE [executions EXCEPT ![e[1]] = [owner |-> e[2], status |-> what]]
  PROVE  BridgeIInv'
<1>1. BridgeTypeOK /\ EffectsInHand /\ ExecutionsAreHonest
  BY DEF BridgeIInv
<1>2. /\ FoldsInHand' /\ StateIsFolded' /\ CountsInOrder' /\ EverythingIsCounted'
      /\ \A run \in HandlerRuns : Past(run) => Past(run)'
  BY EndingRests
<1>3. /\ e = <<e[1], e[2]>> /\ e[1] \in ExecutionIds /\ e[2] \in HandlerRuns \X Nat
      /\ e[1] \in DOMAIN executions /\ executions[e[1]].owner = e[2] /\ executions[e[1]].status = "in_progress"
      /\ \A f \in effects : f # e => f[1] # e[1]
      /\ \A id \in DOMAIN executions : id # e[1] => executions[id].owner # e[2]
  BY EffectOfItsOwn
<1>4. /\ sagaState' = sagaState /\ aggregateState' = aggregateState /\ writes' = writes
      /\ intentCount' = intentCount /\ effects' = effects \ {e}
      /\ intentSequence' = intentSequence /\ restarts' = restarts /\ overlapped' = overlapped
      /\ DOMAIN answers' = DOMAIN answers \cup {e[2]} /\ answers'[e[2]] = what
      /\ \A o \in DOMAIN answers : o # e[2] => answers'[o] = answers[o]
  BY DEF Unfolded, Answer
<1>5. /\ DOMAIN executions' = DOMAIN executions
      /\ \A id \in DOMAIN executions : id # e[1] => executions'[id] = executions[id]
      /\ executions'[e[1]].owner = e[2] /\ executions'[e[1]] \in ExecutionRecords
      /\ executions'[e[1]].status = IF what = "threw" THEN "in_progress" ELSE what
  <2>1. CASE what = "threw"
    BY <2>1, <1>1, <1>3 DEF BridgeTypeOK
  <2>2. CASE what # "threw"
    <3> PICK x : x = [owner |-> e[2], status |-> what]
      OBVIOUS
    <3>1. x \in ExecutionRecords /\ x.owner = e[2] /\ x.status = what
      BY <2>2, <1>3 DEF ExecutionRecords
    <3>2. executions' = [executions EXCEPT ![e[1]] = x]
      BY <2>2
    <3> QED
      BY <3>1, <3>2, <2>2, <1>3
  <2> QED
    BY <2>1, <2>2
<1>6. BridgeTypeOK'
  BY <1>1, <1>4, <1>5 DEF BridgeTypeOK, Ending
<1>7. \A id \in DOMAIN executions : executions'[id].owner = executions[id].owner
  BY <1>3, <1>5
<1>8. EffectsInHand'
  <2>1. ASSUME NEW i \in DOMAIN executions' PROVE Past(executions[i].owner[1])'
    <3>1. executions[i].owner[1] \in HandlerRuns /\ Past(executions[i].owner[1])
      BY <1>1, <1>5 DEF BridgeTypeOK, ExecutionRecords, EffectsInHand
    <3>2. PICK run : run = executions[i].owner[1] /\ run = executions'[i].owner[1]
      BY <1>5, <1>7
    <3>3. Past(run)'
      BY <3>1, <3>2, <1>2
    <3> QED
      BY <3>2, <3>3 DEF Past
  <2>2. \A f \in effects' : /\ f[1] \in DOMAIN executions' /\ f[1][2] <= intentSequence'[f[1][1]]
                            /\ executions'[f[1]].owner = f[2] /\ executions'[f[1]].status = "in_progress"
    BY <1>1, <1>3, <1>4, <1>5 DEF EffectsInHand
  <2>3. \A i, j \in DOMAIN executions' : executions'[i].owner = executions'[j].owner => i = j
    BY <1>1, <1>5, <1>7 DEF EffectsInHand
  <2> QED
    BY <2>1, <2>2, <2>3 DEF EffectsInHand
<1>9. ExecutionsAreHonest'
  <2>1. ASSUME NEW id \in DOMAIN executions, id # e[1]
        PROVE  LET x == executions'[id]
               IN IF x.status = "in_progress"
                  THEN \/ <<id, x.owner>> \in effects'
                       \/ restarts' > 0
                       \/ x.owner \in DOMAIN answers' /\ answers'[x.owner] = "threw"
                  ELSE x.owner \in DOMAIN answers' /\ answers'[x.owner] = x.status
    <3>1. executions'[id] = executions[id] /\ executions[id].owner # e[2] /\ <<id, executions[id].owner>> # e
      BY <2>1, <1>3, <1>5
    <3> QED
      BY <3>1, <1>1, <1>4 DEF ExecutionsAreHonest
  <2>2. LET x == executions'[e[1]]
        IN IF x.status = "in_progress"
           THEN x.owner \in DOMAIN answers' /\ answers'[x.owner] = "threw"
           ELSE x.owner \in DOMAIN answers' /\ answers'[x.owner] = x.status
    BY <1>4, <1>5
  <2> QED
    BY <2>1, <2>2, <1>5 DEF ExecutionsAreHonest
<1> QED
  BY <1>2, <1>6, <1>8, <1>9 DEF BridgeIInv

LEMMA EffectReturnsKeeps ==
  ASSUME BridgeIInv, NEW e \in effects, NEW status \in {"succeeded", "failed"}, EffectReturns(e, status)
  PROVE  BridgeIInv'
<1>1. PICK what \in {"succeeded", "failed", "threw"} : what = status
  OBVIOUS
<1>2. /\ Answer(e, what) /\ executions' = [executions EXCEPT ![e[1]] = [owner |-> e[2], status |-> what]]
      /\ what # "threw" /\ Unfolded /\ UNCHANGED <<intentSequence, restarts, overlapped, turn>>
  BY <1>1 DEF EffectReturns, Recorded, Unfolded
<1>3. Ending
  BY <1>2 DEF Ending, BridgeIInv, BridgeTypeOK
<1> QED
  BY <1>2, <1>3, AnsweringKeeps

LEMMA EffectThrowsKeeps ==
  ASSUME BridgeIInv, NEW e \in effects, EffectThrows(e)
  PROVE  BridgeIInv'
<1>1. PICK what \in {"succeeded", "failed", "threw"} : what = "threw"
  OBVIOUS
<1>2. /\ Answer(e, what) /\ executions' = executions
      /\ Unfolded /\ UNCHANGED <<intentSequence, restarts, overlapped>>
      /\ turn' = [turn EXCEPT ![e[2][1][1]].phase = "failed"]
  BY <1>1 DEF EffectThrows, Unfolded
<1>3. PICK d \in Dispatches, p \in {"new", "handler", "effects", "failed", "done"} : d = e[2][1][1] /\ p = "failed"
  BY EffectOfItsOwn
<1>4. BridgeTypeOK
  BY DEF BridgeIInv
<1>5. Ending
  <2>1. turn' = [turn EXCEPT ![d].phase = p]
    BY <1>2, <1>3
  <2>2. /\ turn' \in [Dispatches -> TurnRecords]
        /\ turn'[d].phase = p /\ turn'[d].match = turn[d].match /\ turn'[d].state = turn[d].state
        /\ \A f \in Dispatches : f # d => turn'[f] = turn[f]
    BY <2>1, <1>4, ChangedTurn
  <2> QED
    BY <2>2, <1>3 DEF Ending
<1>6. executions' = IF what = "threw" THEN executions
                    ELSE [executions EXCEPT ![e[1]] = [owner |-> e[2], status |-> what]]
  BY <1>1, <1>2
<1> HIDE DEF Ending, Unfolded
<1> QED
  BY <1>2, <1>5, <1>6, AnsweringKeeps

LEMMA RestartKeeps ==
  ASSUME BridgeIInv, Restart
  PROVE  BridgeIInv'
<1>1. BridgeTypeOK /\ EffectsInHand /\ ExecutionsAreHonest
  BY DEF BridgeIInv
<1>2. /\ sagaState' = sagaState /\ aggregateState' = aggregateState /\ writes' = writes
      /\ intentCount' = intentCount /\ executions' = executions /\ effects' = {}
      /\ intentSequence' = [s \in BridgeSagas |-> 0] /\ restarts' = restarts + 1 /\ answers' = answers
      /\ overlapped' = overlapped
      /\ turn' = [d \in Dispatches |-> IF InFlight(d) THEN [turn[d] EXCEPT !.phase = "failed"] ELSE turn[d]]
  BY DEF Restart
<1>3. Ending
  <2>1. ASSUME NEW d \in Dispatches
        PROVE  /\ turn'[d] \in TurnRecords /\ turn'[d].match = turn[d].match /\ turn'[d].state = turn[d].state
               /\ turn'[d].phase = turn[d].phase \/ turn'[d].phase \in {"failed", "done"}
    BY <1>1, <1>2 DEF BridgeTypeOK, TurnRecords
  <2>2. turn' \in [Dispatches -> TurnRecords]
    BY <2>1, <1>2
  <2> QED
    BY <2>1, <2>2 DEF Ending
<1>4. /\ FoldsInHand' /\ StateIsFolded' /\ CountsInOrder' /\ EverythingIsCounted'
      /\ \A run \in HandlerRuns : Past(run) => Past(run)'
  BY <1>2, <1>3, EndingRests DEF Unfolded
<1>5. BridgeTypeOK'
  BY <1>1, <1>2, <1>3 DEF BridgeTypeOK, Ending
<1>6. EffectsInHand'
  <2>1. ASSUME NEW i \in DOMAIN executions PROVE Past(executions[i].owner[1])'
    <3>1. executions[i].owner[1] \in HandlerRuns /\ Past(executions[i].owner[1])
      BY <1>1 DEF BridgeTypeOK, ExecutionRecords, EffectsInHand
    <3> PICK run : run = executions[i].owner[1]
      OBVIOUS
    <3>2. Past(run)'
      BY <3>1, <1>4
    <3> QED
      BY <3>2, <1>2 DEF Past
  <2> QED
    BY <2>1, <1>1, <1>2 DEF EffectsInHand
<1>7. ExecutionsAreHonest'
  <2>1. restarts' > 0
    BY <1>1, <1>2 DEF BridgeTypeOK
  <2> QED
    BY <2>1, <1>1, <1>2 DEF ExecutionsAreHonest
<1> QED
  BY <1>4, <1>5, <1>6, <1>7 DEF BridgeIInv

-----------------------------------------------------------------------------
(* A handler that returns: its executions are its own, under new ids.      *)

Starting(S, s, run, n, J) == S = {<<<<s, n + i>>, <<run, i>>>> : i \in J}

NewlyStarted(S, s, run, n, J) ==
  /\ \A e \in S : e = <<e[1], e[2]>> /\ e[1] = <<s, n + e[2][2]>> /\ e[2] = <<run, e[2][2]>> /\ e[2][2] \in J
  /\ \A e, f \in S : f[1] = e[1] => f = e

LEMMA StartingIsNew ==
  ASSUME NEW S, NEW s, NEW run, NEW n \in Nat, NEW J \in SUBSET (Nat \ {0}), Starting(S, s, run, n, J)
  PROVE  NewlyStarted(S, s, run, n, J)
<1>1. \A e \in S : \E i \in J : e = <<<<s, n + i>>, <<run, i>>>>
  BY DEF Starting
<1>2. \A e \in S : e = <<e[1], e[2]>> /\ e[1] = <<s, n + e[2][2]>> /\ e[2] = <<run, e[2][2]>> /\ e[2][2] \in J
  BY <1>1
<1>3. ASSUME NEW e \in S, NEW f \in S, f[1] = e[1] PROVE f = e
  <2>1. PICK i \in J, j \in J : e[2][2] = i /\ f[2][2] = j
    BY <1>2
  <2>2. e = <<<<s, n + i>>, <<run, i>>>> /\ f = <<<<s, n + j>>, <<run, j>>>>
    BY <1>2, <2>1
  <2>3. n + i = n + j
    BY <2>2, <1>3
  <2>4. i = j
    BY <2>3
  <2> QED
    BY <2>2, <2>4
<1> QED
  BY <1>2, <1>3 DEF NewlyStarted

\* What starting a set of executions makes of the table.
Started(S) ==
  /\ DOMAIN executions' = DOMAIN executions \cup {e[1] : e \in S}
  /\ \A e \in S : executions'[e[1]].owner = e[2] /\ executions'[e[1]].status = "in_progress"
                  /\ executions'[e[1]] \in [owner : {e[2]}, status : {"in_progress"}]
  /\ \A id \in DOMAIN executions : (\A e \in S : e[1] # id) => executions'[id] = executions[id]
  /\ effects' = effects \cup S

LEMMA HandlerStarts ==
  ASSUME BridgeIInv, NEW d \in Dispatches, NEW intents \in Outputs, HandlerReturns(d, intents),
         NEW s \in BridgeSagas, s = DispatchOf[d].saga, NEW run, run = <<d, turn[d].match>>
  PROVE  \E J \in SUBSET (1..Len(intents)) : \E S : Starting(S, s, run, intentSequence[s], J) /\ Started(S)
<1> DEFINE J == {j \in DOMAIN intents : IsSideEffect(intents[j])}
           S == {<<IntentId(s, intentSequence[s] + i), <<run, i>>>> : i \in J}
           ids == {e[1] : e \in S}
           ownerOf(id) == (CHOOSE e \in S : e[1] = id)[2]
<1>1. J \in SUBSET (1..Len(intents)) /\ Len(intents) \in Nat
  BY BridgeAssumption
<1>2. intentSequence[s] \in Nat /\ J \in SUBSET (Nat \ {0})
  <2>1. PICK m \in Nat : m = Len(intents) /\ J \in SUBSET (1..m)
    BY <1>1
  <2>2. 1..m \in SUBSET (Nat \ {0})
    OBVIOUS
  <2> QED
    BY <2>1, <2>2 DEF BridgeIInv, BridgeTypeOK
<1>3. Starting(S, s, run, intentSequence[s], J)
  BY DEF Starting, IntentId
<1>4. /\ executions' = [e \in DOMAIN executions \cup ids |->
                          IF e \in ids THEN [owner |-> ownerOf(e), status |-> "in_progress"] ELSE executions[e]]
      /\ effects' = effects \cup S
  BY DEF HandlerReturns
<1> HIDE DEF J, S
<1>5. \A e, f \in S : f[1] = e[1] => f = e
  <2>1. PICK q \in Nat : q = intentSequence[s]
    BY <1>2
  <2>2. Starting(S, s, run, q, J)
    BY <1>3, <2>1
  <2> QED
    BY <1>2, <2>1, <2>2, StartingIsNew DEF NewlyStarted
<1>6. \A e \in S : ownerOf(e[1]) = e[2] /\ e[1] \in ids
  BY <1>5
<1>7. ASSUME NEW e \in S
      PROVE  /\ executions'[e[1]].owner = e[2] /\ executions'[e[1]].status = "in_progress"
             /\ executions'[e[1]] \in [owner : {e[2]}, status : {"in_progress"}]
  <2>1. executions'[e[1]] = [owner |-> e[2], status |-> "in_progress"]
    BY <1>4, <1>6
  <2> QED
    BY <2>1
<1>8. Started(S)
  <2>1. \A id \in DOMAIN executions : (\A e \in S : e[1] # id) => executions'[id] = executions[id]
    BY <1>4
  <2> QED
    BY <2>1, <1>4, <1>7 DEF Started
<1> QED
  BY <1>1, <1>3, <1>8

LEMMA CountRaised ==
  ASSUME NEW D, NEW f \in [D -> Nat], NEW s \in D, NEW n \in Nat
  PROVE  LET g == [f EXCEPT ![s] = @ + n]
         IN /\ g \in [D -> Nat] /\ g[s] = f[s] + n
            /\ \A t \in D : f[t] <= g[t]
            /\ \A t \in D : t # s => g[t] = f[t]
OBVIOUS

LEMMA HandlerReturnsKeeps ==
  ASSUME BridgeIInv, NEW d \in Dispatches, NEW intents \in Outputs, HandlerReturns(d, intents)
  PROVE  BridgeIInv'
<1> PICK s \in BridgeSagas : s = DispatchOf[d].saga
  BY DEF BridgeSagas
<1>n. PICK n \in Nat : n = Len(intents)
  BY BridgeAssumption
<1>1. BridgeTypeOK /\ FoldsInHand /\ StateIsFolded /\ CountsInOrder /\ EverythingIsCounted /\ EffectsInHand
      /\ ExecutionsAreHonest
  BY DEF BridgeIInv
<1>2. intents \in Seq(ToSet(intents))
  BY BridgeAssumption
<1>3. turn[d] \in TurnRecords /\ turn[d].match \in Nat /\ turn[d].state \in Seq(HandlerRuns) /\ turn[d].phase = "handler"
  BY <1>1 DEF BridgeTypeOK, TurnRecords, HandlerReturns
<1>run. PICK run \in HandlerRuns : run = <<d, turn[d].match>>
  BY <1>3 DEF HandlerRuns
<1>seen. PICK seen \in Seq(HandlerRuns) : seen = turn[d].state
  BY <1>3
<1>made. PICK made \in Seq(HandlerRuns) : made = Append(seen, run)
  BY AppendProperties
<1>4. /\ turn' = [turn EXCEPT ![d] = [phase |-> "effects", match |-> @.match, state |-> made]]
      /\ sagaState' = [sagaState EXCEPT ![s] = made]
      /\ writes' = [writes EXCEPT ![s] = Append(@, run)]
      /\ aggregateState' = [aggregateState EXCEPT ![s] = IntentsRecorded(@, intents)]
      /\ intentSequence' = [intentSequence EXCEPT ![s] = @ + n]
      /\ intentCount' = [intentCount EXCEPT ![s] = @ + n]
      /\ restarts' = restarts /\ answers' = answers /\ overlapped' = overlapped
  BY <1>n, <1>run, <1>seen, <1>made DEF HandlerReturns
<1>q. PICK q \in Nat : q = intentSequence[s]
  BY <1>1 DEF BridgeTypeOK
<1>raised. /\ intentSequence' \in [BridgeSagas -> Nat] /\ intentCount' \in [BridgeSagas -> Nat]
           /\ intentSequence'[s] = q + n /\ intentCount'[s] = intentCount[s] + n
           /\ \A t \in BridgeSagas : intentSequence[t] <= intentSequence'[t]
           /\ \A t \in BridgeSagas : t # s => intentCount'[t] = intentCount[t]
  <2>1. intentSequence \in [BridgeSagas -> Nat] /\ intentCount \in [BridgeSagas -> Nat]
    BY <1>1 DEF BridgeTypeOK
  <2>2. /\ intentSequence' \in [BridgeSagas -> Nat] /\ intentSequence'[s] = intentSequence[s] + n
        /\ \A t \in BridgeSagas : intentSequence[t] <= intentSequence'[t]
    BY <2>1, <1>4, CountRaised
  <2>3. /\ intentCount' \in [BridgeSagas -> Nat] /\ intentCount'[s] = intentCount[s] + n
        /\ \A t \in BridgeSagas : t # s => intentCount'[t] = intentCount[t]
    BY <2>1, <1>4, CountRaised
  <2> QED
    BY <2>2, <2>3, <1>q
<1>5. PICK J \in SUBSET (1..n) : \E S : Starting(S, s, run, q, J) /\ Started(S)
  BY <1>n, <1>q, <1>run, HandlerStarts
<1>S. PICK S : Starting(S, s, run, q, J) /\ Started(S)
  BY <1>5
<1>6. J \in SUBSET (Nat \ {0})
  OBVIOUS
<1>7. \A e \in S : e = <<e[1], e[2]>> /\ e[1] = <<s, q + e[2][2]>> /\ e[2] = <<run, e[2][2]>> /\ e[2][2] \in J
  <2>1. Starting(S, s, run, q, J)
    BY <1>S
  <2>2. NewlyStarted(S, s, run, q, J)
    BY <2>1, <1>6, StartingIsNew
  <2> QED
    BY <2>2 DEF NewlyStarted
<1>8. \A e \in S : /\ e \in ExecutionIds \X (HandlerRuns \X Nat) /\ e[1] \in ExecutionIds /\ e[2] \in HandlerRuns \X Nat
                   /\ e[1][1] = s /\ e[1][2] > q /\ e[1][2] <= q + n /\ e[2][1] = run
  <2>1. ASSUME NEW e \in S
        PROVE  /\ e[1] \in ExecutionIds /\ e[2] \in HandlerRuns \X Nat /\ e[1][1] = s /\ e[1][2] > q
               /\ e[1][2] <= q + n /\ e[2][1] = run
    <3>1. PICK i \in J : e[1] = <<s, q + i>> /\ e[2] = <<run, i>>
      BY <1>7
    <3>2. i \in Nat /\ i # 0 /\ i <= n
      OBVIOUS
    <3>3. q + i \in Nat /\ q + i > q /\ q + i <= q + n
      BY <3>2
    <3> QED
      BY <3>1, <3>2, <3>3 DEF ExecutionIds
  <2> QED
    BY <2>1, <1>7
<1>9. /\ DOMAIN executions' = DOMAIN executions \cup {e[1] : e \in S}
      /\ \A e \in S : executions'[e[1]].owner = e[2] /\ executions'[e[1]].status = "in_progress"
                      /\ executions'[e[1]] \in [owner : {e[2]}, status : {"in_progress"}]
      /\ \A id \in DOMAIN executions : (\A e \in S : e[1] # id) => executions'[id] = executions[id]
      /\ effects' = effects \cup S
  BY <1>S DEF Started
<1>10. /\ turn' \in [Dispatches -> TurnRecords]
       /\ turn'[d].phase = "effects" /\ turn'[d].match = turn[d].match /\ turn'[d].state = made
       /\ \A e \in Dispatches : e # d => turn'[e] = turn[e]
  BY <1>1, <1>3, <1>4 DEF BridgeTypeOK, TurnRecords
<1>11. InFlight(d) /\ \A e \in Dispatches : InFlight(e)' <=> InFlight(e)
  BY <1>3, <1>10 DEF InFlight
<1>12. LET a == aggregateState[s]
           b == aggregateState'[s]
       IN Tallied(a) /\ Grown(a, b, 0, n)
  <2>1. Tallied(aggregateState[s]) /\ aggregateState'[s] = IntentsRecorded(aggregateState[s], intents)
    BY <1>1, <1>4 DEF BridgeTypeOK
  <2> QED
    BY <2>1, <1>2, <1>n, RecordingGrows
<1>13. DOMAIN aggregateState' = BridgeSagas /\ \A t \in BridgeSagas : t # s => aggregateState'[t] = aggregateState[t]
  BY <1>1, <1>4 DEF BridgeTypeOK
<1>14. \A id \in DOMAIN executions' : executions'[id] \in ExecutionRecords
  <2>1. ASSUME NEW e \in S PROVE executions'[e[1]] \in ExecutionRecords
    BY <1>8, <1>9 DEF ExecutionRecords
  <2> QED
    BY <2>1, <1>1, <1>9 DEF BridgeTypeOK
<1>15. BridgeTypeOK'
  <2>1. sagaState' \in [BridgeSagas -> Seq(HandlerRuns)] /\ writes' \in [BridgeSagas -> Seq(HandlerRuns)]
    BY <1>1, <1>4 DEF BridgeTypeOK
  <2>2. intentSequence' \in [BridgeSagas -> Nat] /\ intentCount' \in [BridgeSagas -> Nat]
    BY <1>raised
  <2>3. \A t \in BridgeSagas : Tallied(aggregateState'[t])
    BY <1>1, <1>12, <1>13 DEF BridgeTypeOK, Grown
  <2>4. DOMAIN executions' \subseteq ExecutionIds /\ effects' \subseteq ExecutionIds \X (HandlerRuns \X Nat)
    BY <1>1, <1>8, <1>9 DEF BridgeTypeOK
  <2> QED
    BY <2>1, <2>2, <2>3, <2>4, <1>1, <1>4, <1>10, <1>13, <1>14 DEF BridgeTypeOK
<1>16. FoldsInHand' /\ StateIsFolded'
  <2>1. s \notin overlapped => made = Append(writes[s], run)
    BY <1>1, <1>11, <1>seen, <1>made DEF FoldsInHand
  <2>2. /\ writes'[s] = Append(writes[s], run) /\ sagaState'[s] = made
        /\ \A t \in BridgeSagas : t # s => writes'[t] = writes[t] /\ sagaState'[t] = sagaState[t]
    BY <1>1, <1>4 DEF BridgeTypeOK
  <2>3. \A e \in Dispatches : e # d /\ InFlight(e) /\ DispatchOf[e].saga = s => s \in overlapped
    BY <1>1, <1>11 DEF FoldsInHand
  <2>4. \A e \in Dispatches : DispatchOf[e].saga \in BridgeSagas
    BY DEF BridgeSagas
  <2>5. ASSUME NEW e \in Dispatches, InFlight(e), DispatchOf[e].saga \notin overlapped
        PROVE  turn'[e].state = writes'[DispatchOf[e].saga]
    <3>1. CASE e = d
      BY <3>1, <2>1, <2>2, <2>5, <1>10
    <3>2. CASE e # d
      <4>1. DispatchOf[e].saga # s
        BY <3>2, <2>3, <2>5
      <4> QED
        BY <3>2, <4>1, <2>2, <2>4, <2>5, <1>1, <1>10 DEF FoldsInHand
    <3> QED
      BY <3>1, <3>2
  <2>6. FoldsInHand'
    BY <2>5, <1>1, <1>4, <1>11 DEF FoldsInHand
  <2>7. StateIsFolded'
    BY <2>1, <2>2, <1>1, <1>4 DEF StateIsFolded
  <2> QED
    BY <2>6, <2>7
<1>17. \A t : Begun(t)' = Begun(t)
  BY <1>10 DEF Begun
<1>18. CountsInOrder'
  <2>1. \A e \in Dispatches : turn'[e].phase = "new" => turn'[e].match = 0
    BY <1>1, <1>10 DEF CountsInOrder
  <2>2. \A e \in Dispatches : InFlight(e)' => turn'[e].match > 0
    BY <1>1, <1>10, <1>11 DEF CountsInOrder
  <2>3. \A t \in BridgeSagas : Created(aggregateState'[t]) <=> Created(aggregateState[t])
    BY <1>12, <1>13 DEF Created, Grown
  <2>4. \A t \in BridgeSagas : Created(aggregateState'[t]) <=> Begun(t)' # {}
    BY <2>3, <1>1, <1>17 DEF CountsInOrder
  <2> QED
    BY <2>1, <2>2, <2>4 DEF CountsInOrder, Created, Begun
<1>19. EverythingIsCounted'
  <2>1. \A t \in BridgeSagas :
          LET a == aggregateState[t]
          IN /\ Events(a) = Cardinality(Begun(t)) /\ Intents(a) = intentCount[t]
             /\ a.version = (IF Begun(t) = {} THEN 0 ELSE 1) + Cardinality(Begun(t)) + intentCount[t]
    BY <1>1 DEF EverythingIsCounted, Begun, Events, Intents
  <2>2. PICK a, b, c : a = aggregateState[s] /\ b = aggregateState'[s] /\ c = Cardinality(Begun(s))
    OBVIOUS
  <2>3. /\ a.version \in Nat /\ Events(a) \in Nat /\ Intents(a) \in Nat
        /\ b.version = a.version + 0 + n /\ Events(b) = Events(a) + 0 /\ Intents(b) = Intents(a) + n
    BY <2>2, <1>12, TalliedCounts DEF Grown
  <2>4. /\ Events(a) = c /\ Intents(a) = intentCount[s]
        /\ a.version = (IF Begun(s) = {} THEN 0 ELSE 1) + c + intentCount[s]
    BY <2>1, <2>2
  <2>5. intentCount[s] \in Nat /\ intentCount'[s] = intentCount[s] + n
        /\ \A t \in BridgeSagas : t # s => intentCount'[t] = intentCount[t]
    BY <1>1, <1>raised DEF BridgeTypeOK
  <2>6. /\ Events(b) = c /\ Intents(b) = intentCount'[s]
        /\ b.version = (IF Begun(s) = {} THEN 0 ELSE 1) + c + intentCount'[s]
    <3>1. PICK z \in Nat : z = IF Begun(s) = {} THEN 0 ELSE 1
      OBVIOUS
    <3>2. PICK v \in Nat, w \in Nat, k \in Nat, y \in Nat :
            v = a.version /\ w = Events(a) /\ k = Intents(a) /\ y = intentCount[s]
      BY <2>3, <2>5
    <3>3. w = c /\ k = y /\ v = z + c + y
      BY <2>4, <3>1, <3>2
    <3>4. v + 0 + n = z + c + (y + n) /\ w + 0 = w
      BY <3>3
    <3>5. intentCount'[s] = y + n /\ b.version = v + 0 + n /\ Events(b) = w + 0 /\ Intents(b) = k + n
      BY ONLY <2>3, <2>5, <3>2
    <3>6. Events(b) = c /\ Intents(b) = intentCount'[s] /\ b.version = z + c + intentCount'[s]
      BY ONLY <3>3, <3>4, <3>5
    <3> QED
      BY ONLY <3>1, <3>6
  <2>7. \A t \in BridgeSagas :
          LET x == aggregateState'[t]
          IN /\ Events(x) = Cardinality(Begun(t)') /\ Intents(x) = intentCount'[t]
             /\ x.version = (IF Begun(t)' = {} THEN 0 ELSE 1) + Cardinality(Begun(t)') + intentCount'[t]
    BY <2>1, <2>2, <2>5, <2>6, <1>13, <1>17
  <2> QED
    BY <2>7 DEF EverythingIsCounted, Begun, Events, Intents
<1>20. \A i \in DOMAIN executions : /\ executions[i].owner \in HandlerRuns \X Nat /\ executions[i].owner[1] \in HandlerRuns
                                    /\ Past(executions[i].owner[1]) /\ executions[i].owner[1] # run
  <2>1. ASSUME NEW i \in DOMAIN executions
        PROVE  executions[i].owner \in HandlerRuns \X Nat /\ executions[i].owner[1] \in HandlerRuns /\ Past(executions[i].owner[1])
    BY <1>1 DEF BridgeTypeOK, ExecutionRecords, EffectsInHand
  <2>2. ~Past(run)
    BY <1>3, <1>run DEF Past
  <2> QED
    BY <2>1, <2>2
<1>21. \A r \in HandlerRuns : Past(r) \/ r = run => Past(r)'
  <2>1. ASSUME NEW r \in HandlerRuns, Past(r) \/ r = run PROVE Past(r)'
    <3>1. r[1] \in Dispatches /\ r[2] \in Nat
      BY DEF HandlerRuns
    <3>2. CASE r[1] = d
      BY <3>1, <3>2, <2>1, <1>3, <1>10, <1>run DEF Past
    <3>3. CASE r[1] # d
      BY <3>1, <3>3, <2>1, <1>3, <1>10, <1>run DEF Past
    <3> QED
      BY <3>2, <3>3
  <2> QED
    BY <2>1
<1>22. \A f \in effects : f[1] \in DOMAIN executions /\ \A e \in S : e[1] # f[1]
  <2>1. ASSUME NEW f \in effects, NEW e \in S, e[1] = f[1] PROVE FALSE
    <3>1. f[1][1] = s /\ f[1][2] <= q /\ f[1][2] \in Nat /\ e[1][2] > q
      BY <2>1, <1>1, <1>8, <1>q DEF EffectsInHand, BridgeTypeOK, ExecutionIds
    <3> QED
      BY <3>1, <2>1, <1>6
  <2> QED
    BY <2>1, <1>1 DEF EffectsInHand
<1>23. EffectsInHand'
  <2>1. ASSUME NEW f \in effects
        PROVE  /\ f[1] \in DOMAIN executions' /\ f[1][2] <= intentSequence'[f[1][1]]
               /\ executions'[f[1]].owner = f[2] /\ executions'[f[1]].status = "in_progress"
    <3>1. executions'[f[1]] = executions[f[1]] /\ f[1] \in DOMAIN executions'
      BY <1>9, <1>22
    <3>2. f[1][1] \in BridgeSagas /\ f[1][2] \in Nat /\ f[1][2] <= intentSequence[f[1][1]]
      BY <1>1 DEF EffectsInHand, BridgeTypeOK, ExecutionIds
    <3>3. intentSequence[f[1][1]] \in Nat /\ intentSequence'[f[1][1]] \in Nat
          /\ intentSequence[f[1][1]] <= intentSequence'[f[1][1]]
      BY <3>2, <1>1, <1>raised DEF BridgeTypeOK
    <3> QED
      BY <3>1, <3>2, <3>3, <1>1 DEF EffectsInHand
  <2>2. ASSUME NEW f \in S
        PROVE  /\ f[1] \in DOMAIN executions' /\ f[1][2] <= intentSequence'[f[1][1]]
               /\ executions'[f[1]].owner = f[2] /\ executions'[f[1]].status = "in_progress"
    BY <1>raised, <1>8, <1>9
  <2>3. ASSUME NEW i \in DOMAIN executions', NEW j \in DOMAIN executions',
               executions'[i].owner = executions'[j].owner
        PROVE  i = j
    <3>1. \A k \in DOMAIN executions' : \/ \E e \in S : k = e[1]
                                        \/ k \in DOMAIN executions /\ executions'[k] = executions[k]
      BY <1>9
    <3>2. \A e \in S : executions'[e[1]].owner = e[2] /\ e[2][1] = run
      BY <1>8, <1>9
    <3>3. CASE \E e \in S : i = e[1]
      <4>1. PICK e \in S : i = e[1]
        BY <3>3
      <4>2. executions'[j].owner[1] = run
        BY <4>1, <3>2, <2>3
      <4>3. PICK f \in S : j = f[1]
        BY <4>2, <3>1, <1>20
      <4>4. e[2] = f[2]
        BY <4>1, <4>3, <3>2, <2>3
      <4>5. e[1] = <<s, q + e[2][2]>> /\ f[1] = <<s, q + f[2][2]>>
        BY <1>7
      <4> QED
        BY <4>1, <4>3, <4>4, <4>5
    <3>4. CASE i \in DOMAIN executions /\ executions'[i] = executions[i]
      <4>1. executions'[j].owner[1] # run
        BY <3>4, <2>3, <1>20
      <4>2. j \in DOMAIN executions /\ executions'[j] = executions[j]
        BY <4>1, <3>1, <3>2
      <4> QED
        BY <3>4, <4>2, <2>3, <1>1 DEF EffectsInHand
    <3> QED
      BY <3>1, <3>3, <3>4
  <2>4. ASSUME NEW i \in DOMAIN executions' PROVE Past(executions[i].owner[1])'
    <3>1. PICK r : r = executions'[i].owner[1]
      OBVIOUS
    <3>2. r \in HandlerRuns /\ (Past(r) \/ r = run)
      BY <3>1, <1>8, <1>9, <1>20
    <3>3. Past(r)'
      BY <3>2, <1>21
    <3> QED
      BY <3>1, <3>3 DEF Past
  <2>5. \A f \in effects' : /\ f[1] \in DOMAIN executions' /\ f[1][2] <= intentSequence'[f[1][1]]
                            /\ executions'[f[1]].owner = f[2] /\ executions'[f[1]].status = "in_progress"
    BY <2>1, <2>2, <1>9
  <2> QED
    BY <2>3, <2>4, <2>5 DEF EffectsInHand
<1>24. ExecutionsAreHonest'
  <2>1. ASSUME NEW e \in S
        PROVE  executions'[e[1]].status = "in_progress" /\ <<e[1], executions'[e[1]].owner>> \in effects'
    <3>1. e = <<e[1], e[2]>> /\ executions'[e[1]].owner = e[2]
      BY <1>7, <1>9
    <3> QED
      BY <3>1, <1>9
  <2>2. ASSUME NEW id \in DOMAIN executions', \A e \in S : e[1] # id
        PROVE  LET x == executions'[id]
               IN IF x.status = "in_progress"
                  THEN \/ <<id, x.owner>> \in effects'
                       \/ restarts' > 0
                       \/ x.owner \in DOMAIN answers' /\ answers'[x.owner] = "threw"
                  ELSE x.owner \in DOMAIN answers' /\ answers'[x.owner] = x.status
    <3>1. id \in DOMAIN executions /\ executions'[id] = executions[id]
      BY <2>2, <1>9
    <3> QED
      BY <3>1, <1>1, <1>4, <1>9 DEF ExecutionsAreHonest
  <2> QED
    BY <2>1, <2>2 DEF ExecutionsAreHonest
<1> QED
  BY <1>15, <1>16, <1>18, <1>19, <1>23, <1>24 DEF BridgeIInv

-----------------------------------------------------------------------------
(* The bridge.                                                             *)

LEMMA BridgeBegins == BridgeInit => BridgeIInv
<1> SUFFICES ASSUME BridgeInit PROVE BridgeIInv
  OBVIOUS
<1> PICK a : a = CreateInitialState
  OBVIOUS
<1>1. Tallied(a) /\ a.version = 0 /\ Events(a) = 0 /\ Intents(a) = 0 /\ ~Created(a)
  BY DEF CreateInitialState, Tallied, Events, Intents, Created, Windows
<1>2. aggregateState = [s \in BridgeSagas |-> a]
  BY DEF BridgeInit
<1> PICK t : t = [phase |-> "new", match |-> 0, state |-> <<>>]
  OBVIOUS
<1>3. t \in TurnRecords /\ t.phase = "new" /\ t.match = 0
  BY DEF TurnRecords
<1>4. turn = [d \in Dispatches |-> t] /\ effects = {} /\ DOMAIN executions = {}
  BY DEF BridgeInit
<1>5. BridgeTypeOK
  BY <1>1, <1>2, <1>3, <1>4 DEF BridgeInit, BridgeTypeOK
<1>6. FoldsInHand /\ StateIsFolded
  BY <1>3, <1>4 DEF BridgeInit, FoldsInHand, StateIsFolded, InFlight
<1>7. \A s : Begun(s) = {}
  BY <1>3, <1>4 DEF Begun
<1>8. CountsInOrder
  BY <1>1, <1>2, <1>3, <1>4, <1>7 DEF CountsInOrder, InFlight
<1>9. EverythingIsCounted
  <2>1. ASSUME NEW s \in BridgeSagas
        PROVE  /\ Events(aggregateState[s]) = Cardinality(Begun(s)) /\ Intents(aggregateState[s]) = intentCount[s]
               /\ aggregateState[s].version = (IF Begun(s) = {} THEN 0 ELSE 1) + Cardinality(Begun(s)) + intentCount[s]
    <3>1. intentCount[s] = 0 /\ aggregateState[s] = a /\ Begun(s) = {}
      BY <1>2, <1>7 DEF BridgeInit
    <3>2. Cardinality(Begun(s)) = 0
      BY <3>1, FS_EmptySet
    <3> QED
      BY <3>1, <3>2, <1>1
  <2> QED
    BY <2>1 DEF EverythingIsCounted, Begun, Events, Intents
<1>10. EffectsInHand /\ ExecutionsAreHonest
  BY <1>4 DEF EffectsInHand, ExecutionsAreHonest
<1> QED
  BY <1>5, <1>6, <1>8, <1>9, <1>10 DEF BridgeIInv

LEMMA BridgeStepKeeps == BridgeIInv /\ [BridgeNext]_<<bridgeVars, schedulerVars>> => BridgeIInv'
<1> SUFFICES ASSUME BridgeIInv, [BridgeNext]_<<bridgeVars, schedulerVars>> PROVE BridgeIInv'
  OBVIOUS
<1>1. CASE BridgeStep
  BY <1>1, DispatchUnhandledKeeps, DispatchBeginsKeeps, HandlerThrowsKeeps, TurnAdvancesKeeps, EffectThrowsKeeps,
     EffectReturnsKeeps, RestartKeeps DEF BridgeStep
<1>2. CASE \E d \in Dispatches, intents \in Outputs : HandlerReturns(d, intents)
  BY <1>2, HandlerReturnsKeeps
<1>3. CASE UNCHANGED bridgeVars
  <2>1. UNCHANGED <<sagaState, aggregateState, intentSequence, executions, turn, effects, restarts, writes,
                    intentCount, answers, overlapped>>
    BY <1>3 DEF bridgeVars
  <2>2. BridgeTypeOK' /\ FoldsInHand' /\ StateIsFolded'
    BY <2>1 DEF BridgeIInv, BridgeTypeOK, FoldsInHand, StateIsFolded, InFlight
  <2>3. CountsInOrder' /\ EverythingIsCounted'
    BY <2>1 DEF BridgeIInv, CountsInOrder, EverythingIsCounted, InFlight, Begun
  <2>4. EffectsInHand' /\ ExecutionsAreHonest'
    BY <2>1 DEF BridgeIInv, EffectsInHand, ExecutionsAreHonest, Past
  <2> QED
    BY <2>2, <2>3, <2>4 DEF BridgeIInv
<1> QED
  BY <1>1, <1>2, <1>3 DEF BridgeNext

(* Whatever is dispatched, however dispatches overlap, handlers and effects  *)
(* fail and the process restarts, the bridge keeps the record: the folded    *)
(* definition states, the counts of the aggregates and the executions        *)
(* (createSagaExecutionBridge, sagaExecutionBridge.ts).                      *)
THEOREM TheBridgeKeepsTheRecord == BridgeSpec => []BridgeKeepsTheRecord
<1>1. BridgeInit => BridgeIInv
  BY BridgeBegins
<1>2. BridgeIInv /\ [BridgeNext]_<<bridgeVars, schedulerVars>> => BridgeIInv'
  BY BridgeStepKeeps
<1>3. BridgeIInv => BridgeKeepsTheRecord
  BY DEF BridgeIInv, BridgeKeepsTheRecord
<1> QED
  BY <1>1, <1>2, <1>3, PTL DEF BridgeSpec

-----------------------------------------------------------------------------
(* SagaScheduler: the occurrences of a trigger.                            *)

LEMMA Products ==
  ASSUME NEW n \in Nat, NEW a \in Nat, NEW b \in Nat
  PROVE  /\ a * n \in Nat /\ (a <= b => a * n <= b * n) /\ (a < b /\ n > 0 => a * n < b * n)
         /\ (a + b) * n = a * n + b * n
<1>1. a * n \in Nat
  OBVIOUS
<1>2. a <= b => a * n <= b * n
  OBVIOUS
<1>3. a < b /\ n > 0 => a * n < b * n
  OBVIOUS
<1>4. (a + b) * n = a * n + b * n
  OBVIOUS
<1> QED
  BY <1>1, <1>2, <1>3, <1>4

LEMMA Quotients ==
  ASSUME NEW x \in Nat, NEW n \in Nat, n > 0
  PROVE  /\ x \div n \in Nat /\ (x \div n) * n <= x /\ x < (x \div n + 1) * n
         /\ x % n = 0 => x = (x \div n) * n
<1>1. x \div n \in Nat
  OBVIOUS
<1>2. (x \div n) * n <= x
  OBVIOUS
<1>3. x < (x \div n + 1) * n
  OBVIOUS
<1>4. x % n = 0 => x = (x \div n) * n
  OBVIOUS
<1> QED
  BY <1>1, <1>2, <1>3, <1>4

(* What a sequence over a set holds.                                         *)
LEMMA SeqFacts ==
  ASSUME NEW S, NEW q \in Seq(S)
  PROVE  /\ DOMAIN q = 1..Len(q) /\ Len(q) \in Nat
         /\ \A i \in 1..Len(q) : q[i] \in S /\ q[i] \in ToSet(q)
         /\ \A x \in ToSet(q) : x \in S /\ \E i \in 1..Len(q) : q[i] = x
         /\ IsInjective(q) <=> \A i, j \in 1..Len(q) : q[i] = q[j] => i = j
         /\ q # <<>> => 1 \in 1..Len(q)
<1>1. DOMAIN q = 1..Len(q) /\ Len(q) \in Nat /\ \A i \in 1..Len(q) : q[i] \in S
  OBVIOUS
<1>2. q # <<>> => Len(q) # 0
  OBVIOUS
<1>3. IsInjective(q) <=> \A i, j \in 1..Len(q) : q[i] = q[j] => i = j
  BY <1>1 DEF IsInjective
<1>4. ToSet(q) = {q[i] : i \in 1..Len(q)}
  BY <1>1 DEF ToSet
<1> QED
  BY <1>1, <1>2, <1>3, <1>4

Triggers == [saga : {0}, runAt : Nat, interval : Intervals, misfire : MisfireModes, bound : CatchUpBounds,
             first : Nat, number : Nat]
Occurrences == [number : Nat, at : Nat]

\* How many occurrences of a trigger are due.
DueCount(t) == IF t.interval = 0 THEN 1 ELSE (now - t.runAt) \div t.interval + 1

LEMMA DueOccurrencesAre ==
  ASSUME NEW t \in Triggers, now \in Nat, t.runAt <= now
  PROVE  /\ DueCount(t) \in Nat /\ DueCount(t) # 0 /\ t.interval \in Nat /\ t.runAt \in Nat
         /\ DueOccurrences(t) = [i \in 1..DueCount(t) |-> t.runAt + (i - 1) * t.interval]
         /\ \A i \in 1..DueCount(t) : /\ t.runAt + (i - 1) * t.interval \in Nat
                                      /\ t.runAt <= t.runAt + (i - 1) * t.interval
                                      /\ t.runAt + (i - 1) * t.interval <= now
         /\ \A i, j \in 1..DueCount(t) :
              t.runAt + (i - 1) * t.interval = t.runAt + (j - 1) * t.interval => i = j
         /\ t.interval > 0 => \A i \in 1..DueCount(t) :
              t.runAt + (i - 1) * t.interval < t.runAt + DueCount(t) * t.interval
         /\ now = t.runAt => DueCount(t) = 1
<1> PICK runAt \in Nat, n \in Nat : runAt = t.runAt /\ n = t.interval
  BY SchedulerAssumption DEF Triggers
<1> PICK late \in Nat : late = now - runAt
  OBVIOUS
<1>1. DueOccurrences(t) = [i \in 1..DueCount(t) |-> runAt + (i - 1) * n]
  BY DEF DueOccurrences, DueCount
<1>2. CASE n = 0
  <2>1. DueCount(t) = 1
    BY <1>2 DEF DueCount
  <2>2. \A i \in 1..1 : i = 1 /\ runAt + (i - 1) * n = runAt
    BY <1>2
  <2> QED
    BY <1>1, <1>2, <2>1, <2>2
<1>3. CASE n # 0
  <2>1. PICK q \in Nat : q = late \div n /\ q * n <= late
    BY <1>3, Quotients
  <2>2. DueCount(t) = q + 1
    BY <1>3, <2>1 DEF DueCount
  <2>3. ASSUME NEW i \in 1..(q + 1)
        PROVE  runAt + (i - 1) * n \in Nat /\ runAt <= runAt + (i - 1) * n /\ runAt + (i - 1) * n <= now
               /\ runAt + (i - 1) * n < runAt + (q + 1) * n
    <3>1. PICK k \in Nat : k = i - 1 /\ k <= q /\ k < q + 1
      OBVIOUS
    <3>2. k * n \in Nat /\ k * n <= q * n /\ k * n < (q + 1) * n /\ q * n \in Nat /\ (q + 1) * n \in Nat
      BY <1>3, <3>1, Products
    <3> QED
      BY <2>1, <3>1, <3>2
  <2>4. ASSUME NEW i \in 1..(q + 1), NEW j \in 1..(q + 1), runAt + (i - 1) * n = runAt + (j - 1) * n
        PROVE  i = j
    <3>1. PICK k \in Nat, l \in Nat : k = i - 1 /\ l = j - 1
      OBVIOUS
    <3>2. k * n = l * n
      <4>1. k * n \in Nat /\ l * n \in Nat
        BY Products
      <4> QED
        BY <2>4, <3>1, <4>1
    <3>3. ASSUME NEW a \in Nat, NEW b \in Nat, a < b PROVE a * n # b * n
      <4>1. a * n < b * n /\ a * n \in Nat /\ b * n \in Nat
        BY <1>3, <3>3, Products
      <4> QED
        BY <4>1
    <3>4. ~(k < l) /\ ~(l < k)
      BY <3>2, <3>3
    <3> QED
      BY <3>1, <3>4
  <2>5. now = runAt => q = 0
    BY <1>3, <2>1
  <2>6. /\ DueCount(t) \in Nat /\ DueCount(t) # 0
        /\ now = t.runAt => DueCount(t) = 1
    BY <2>2, <2>5
  <2>7. DueOccurrences(t) = [i \in 1..DueCount(t) |-> t.runAt + (i - 1) * t.interval]
    BY <1>1
  <2>8. \A i \in 1..DueCount(t) : /\ t.runAt + (i - 1) * t.interval \in Nat
                                   /\ t.runAt <= t.runAt + (i - 1) * t.interval
                                   /\ t.runAt + (i - 1) * t.interval <= now
                                   /\ t.runAt + (i - 1) * t.interval < t.runAt + DueCount(t) * t.interval
    BY <2>2, <2>3
  <2>9. \A i, j \in 1..DueCount(t) :
          t.runAt + (i - 1) * t.interval = t.runAt + (j - 1) * t.interval => i = j
    BY <2>2, <2>4
  <2> QED
    BY <2>6, <2>7, <2>8, <2>9
<1> QED
  BY <1>2, <1>3

\* What is handed out of them: some, in order, and all if all are caught up on.
LEMMA ExecutionsAre ==
  ASSUME NEW t \in Triggers, now \in Nat, t.runAt <= now
  PROVE  /\ Executions(t) \in Seq(Nat)
         /\ \A i, j \in DOMAIN Executions(t) : Executions(t)[i] = Executions(t)[j] => i = j
         /\ \A i \in DOMAIN Executions(t) : \E k \in 1..DueCount(t) :
              Executions(t)[i] = t.runAt + (k - 1) * t.interval
         /\ t.misfire = "catch_up_all" => Executions(t) = DueOccurrences(t)
<1> PICK n \in Nat : n = DueCount(t)
  BY DueOccurrencesAre
<1> PICK due : due = DueOccurrences(t)
  OBVIOUS
<1> DEFINE At(i) == t.runAt + (i - 1) * t.interval
<1>1. /\ n # 0 /\ due = [i \in 1..n |-> At(i)] /\ (\A i \in 1..n : At(i) \in Nat)
      /\ \A i, j \in 1..n : At(i) = At(j) => i = j
      /\ now = t.runAt => n = 1
  BY DueOccurrencesAre
<1> HIDE DEF At
<1>2. due \in Seq(Nat) /\ Len(due) = n /\ \A i \in 1..n : due[i] = At(i)
  BY <1>1
<1>3. ASSUME NEW low \in Nat, NEW high \in Nat, low > 0, high <= n, low <= high + 1,
             Executions(t) = SubSeq(due, low, high)
      PROVE  /\ Executions(t) \in Seq(Nat)
             /\ \A i, j \in DOMAIN Executions(t) : Executions(t)[i] = Executions(t)[j] => i = j
             /\ \A i \in DOMAIN Executions(t) : \E k \in 1..n : Executions(t)[i] = At(k)
  <2>1. PICK m \in Nat : m = (high + 1) - low
    BY <1>3
  <2>2. SubSeq(due, low, high) = [i \in 1..m |-> due[(low + i) - 1]]
    BY <1>2, <1>3, <2>1
  <2>3. \A i \in 1..m : (low + i) - 1 \in 1..n
    BY <1>3, <2>1
  <2>4. PICK e : e = [i \in 1..m |-> due[(low + i) - 1]]
    OBVIOUS
  <2>5. e \in Seq(Nat) /\ DOMAIN e = 1..m /\ \A i \in 1..m : e[i] = At((low + i) - 1)
    <3>1. ASSUME NEW i \in 1..m PROVE due[(low + i) - 1] = At((low + i) - 1) /\ At((low + i) - 1) \in Nat
      <4> PICK k \in 1..n : k = (low + i) - 1
        BY <2>3
      <4> QED
        BY <1>1, <1>2
    <3>2. e \in [1..m -> Nat]
      BY <2>4, <3>1
    <3>3. e \in Seq(Nat) /\ DOMAIN e = 1..m
      BY <3>2
    <3>4. \A i \in 1..m : e[i] = due[(low + i) - 1]
      BY <2>4
    <3> QED
      BY <3>1, <3>3, <3>4
  <2>6. ASSUME NEW i \in 1..m, NEW j \in 1..m, e[i] = e[j] PROVE i = j
    <3>1. At((low + i) - 1) = At((low + j) - 1)
      BY <2>5, <2>6
    <3>2. (low + i) - 1 = (low + j) - 1
      BY <3>1, <2>3, <1>1
    <3> QED
      BY <3>2
  <2>7. Executions(t) = e
    BY <1>3, <2>2, <2>4
  <2> QED
    BY <2>3, <2>5, <2>6, <2>7
<1> DEFINE Part(low, high) ==
             low > 0 /\ high <= n /\ low <= high + 1 /\ Executions(t) = SubSeq(due, low, high)
<1>4. \E low, high \in Nat : Part(low, high)
  <2>1. CASE now = t.runAt
    <3>1. Executions(t) = SubSeq(due, 1, 1)
      BY <2>1 DEF Executions
    <3>2. Part(1, 1)
      BY <1>1, <3>1
    <3> HIDE DEF Part
    <3> QED
      BY <3>2
  <2>2. CASE now # t.runAt
    <3>1. t.misfire \in MisfireModes /\ t.bound \in Nat /\ t.bound # 0
      BY SchedulerAssumption DEF Triggers
    <3>2. CASE t.misfire = "skip_until_next"
      <4>1. Executions(t) = <<>>
        BY <2>2, <3>2 DEF Executions
      <4>2. SubSeq(due, 1, 0) = <<>>
        BY <1>2
      <4>3. Part(1, 0)
        BY <4>1, <4>2
      <4> HIDE DEF Part
      <4> QED
        BY <4>3
    <3>3. CASE t.misfire = "latest_only"
      <4>1. Executions(t) = SubSeq(due, n, n)
        BY <2>2, <3>3, <1>2 DEF Executions
      <4>2. Part(n, n)
        BY <4>1, <1>1
      <4> HIDE DEF Part
      <4> QED
        BY <4>2
    <3>4. CASE t.misfire = "catch_up_bounded"
      <4>1. PICK m \in Nat : m = IF t.bound < n THEN t.bound ELSE n
        BY <3>1
      <4>2. Executions(t) = SubSeq(due, 1, m)
        BY <2>2, <3>4, <4>1, <1>2 DEF Executions
      <4>3. Part(1, m)
        BY <4>1, <4>2, <3>1
      <4> HIDE DEF Part
      <4> QED
        BY <4>3
    <3>5. CASE t.misfire = "catch_up_all"
      <4>1. Executions(t) = due
        BY <2>2, <3>5 DEF Executions
      <4>2. SubSeq(due, 1, n) = due
        BY <1>2
      <4>3. Part(1, n)
        BY <4>1, <4>2, <1>1
      <4> HIDE DEF Part
      <4> QED
        BY <4>3
    <3> QED
      BY <3>1, <3>2, <3>3, <3>4, <3>5 DEF MisfireModes
  <2> QED
    BY <2>1, <2>2
<1>5. t.misfire = "catch_up_all" => Executions(t) = due
  <2>1. CASE now = t.runAt
    <3>1. Executions(t) = SubSeq(due, 1, 1) /\ n = 1
      BY <2>1, <1>1 DEF Executions
    <3>2. SubSeq(due, 1, 1) = due
      BY <3>1, <1>2
    <3> QED
      BY <3>1, <3>2
  <2>2. CASE now # t.runAt
    BY <2>2 DEF Executions
  <2> QED
    BY <2>1, <2>2
<1>6. /\ Executions(t) \in Seq(Nat)
      /\ \A i, j \in DOMAIN Executions(t) : Executions(t)[i] = Executions(t)[j] => i = j
      /\ \A i \in DOMAIN Executions(t) : \E k \in 1..n : Executions(t)[i] = At(k)
  BY <1>3, <1>4
<1> QED
  BY <1>5, <1>6 DEF At

-----------------------------------------------------------------------------
(* The order of a drain, and what it appends.                              *)

\* Two sequences after each other.
LEMMA ConcatFacts ==
  ASSUME NEW S, NEW q \in Seq(S), NEW r \in Seq(S)
  PROVE  /\ q \o r \in Seq(S) /\ ToSet(q \o r) = ToSet(q) \cup ToSet(r)
         /\ IsInjective(q) /\ IsInjective(r) /\ ToSet(q) \cap ToSet(r) = {} => IsInjective(q \o r)
<1> PICK m \in Nat, n \in Nat : m = Len(q) /\ n = Len(r)
  OBVIOUS
<1>1. DOMAIN q = 1..m /\ DOMAIN r = 1..n
  OBVIOUS
<1> PICK c : c = q \o r
  OBVIOUS
<1>2. /\ c \in Seq(S) /\ DOMAIN c = 1..(m + n)
      /\ \A i \in 1..m : c[i] = q[i]
      /\ \A i \in 1..n : c[m + i] = r[i]
  OBVIOUS
<1>3. ASSUME NEW i \in 1..(m + n)
      PROVE  (i \in 1..m /\ c[i] = q[i]) \/ (\E k \in 1..n : i = m + k /\ c[i] = r[k])
  <2>1. CASE i <= m
    BY <2>1, <1>2
  <2>2. CASE i > m
    <3>1. PICK k \in 1..n : i = m + k
      BY <2>2
    <3> QED
      BY <3>1, <1>2
  <2> QED
    BY <2>1, <2>2
<1>4. ToSet(c) = ToSet(q) \cup ToSet(r)
  <2>1. ASSUME NEW x \in ToSet(c) PROVE x \in ToSet(q) \cup ToSet(r)
    <3> PICK i \in 1..(m + n) : x = c[i]
      BY <1>2 DEF ToSet
    <3>1. CASE i \in 1..m /\ c[i] = q[i]
      BY <3>1, <1>1 DEF ToSet
    <3>2. CASE \E k \in 1..n : i = m + k /\ c[i] = r[k]
      BY <3>2, <1>1 DEF ToSet
    <3> QED
      BY <3>1, <3>2, <1>3
  <2>2. ASSUME NEW x \in ToSet(q) PROVE x \in ToSet(c)
    <3> PICK i \in 1..m : x = q[i]
      BY <1>1 DEF ToSet
    <3>1. i \in 1..(m + n) /\ c[i] = x
      BY <1>2
    <3> QED
      BY <3>1, <1>2 DEF ToSet
  <2>3. ASSUME NEW x \in ToSet(r) PROVE x \in ToSet(c)
    <3> PICK i \in 1..n : x = r[i]
      BY <1>1 DEF ToSet
    <3>1. m + i \in 1..(m + n) /\ c[m + i] = x
      BY <1>2
    <3> QED
      BY <3>1, <1>2 DEF ToSet
  <2> QED
    BY <2>1, <2>2, <2>3
<1>5. ASSUME IsInjective(q), IsInjective(r), ToSet(q) \cap ToSet(r) = {} PROVE IsInjective(c)
  <2>1. ASSUME NEW i \in 1..(m + n), NEW j \in 1..(m + n), c[i] = c[j] PROVE i = j
    <3>1. ASSUME NEW a \in 1..m, NEW b \in 1..n PROVE q[a] # r[b]
      <4>1. q[a] \in ToSet(q) /\ r[b] \in ToSet(r)
        BY <1>1 DEF ToSet
      <4> QED
        BY <4>1, <1>5
    <3>2. CASE i \in 1..m /\ c[i] = q[i]
      <4>1. j \in 1..m /\ c[j] = q[j]
        <5>1. ASSUME NEW k \in 1..n, j = m + k, c[j] = r[k] PROVE FALSE
          BY <5>1, <3>1, <3>2, <2>1
        <5> QED
          BY <5>1, <1>3
      <4> QED
        BY <3>2, <4>1, <2>1, <1>1, <1>5 DEF IsInjective
    <3>3. CASE \E k \in 1..n : i = m + k /\ c[i] = r[k]
      <4>1. PICK k \in 1..n : i = m + k /\ c[i] = r[k]
        BY <3>3
      <4>2. PICK l \in 1..n : j = m + l /\ c[j] = r[l]
        <5>1. ~(j \in 1..m /\ c[j] = q[j])
          BY <3>1, <4>1, <2>1
        <5> QED
          BY <5>1, <1>3
      <4>3. k = l
        BY <4>1, <4>2, <2>1, <1>1, <1>5 DEF IsInjective
      <4> QED
        BY <4>1, <4>2, <4>3
    <3> QED
      BY <3>2, <3>3, <1>3
  <2> QED
    BY <2>1, <1>2 DEF IsInjective
<1> QED
  BY <1>2, <1>4, <1>5

\* A flattened sequence holds what its parts hold, and nothing twice if no
\* part does and no two parts hold the same.
LEMMA FlattenedHolds ==
  ASSUME NEW S, NEW n \in Nat, n # 0, NEW seqs \in [1..n -> Seq(S)],
         \A i \in 1..n : IsInjective(seqs[i]),
         \A i, j \in 1..n : i # j => ToSet(seqs[i]) \cap ToSet(seqs[j]) = {}
  PROVE  /\ FlattenSeq(seqs) \in Seq(S) /\ IsInjective(FlattenSeq(seqs))
         /\ \A x : x \in ToSet(FlattenSeq(seqs)) <=> \E i \in 1..n : x \in ToSet(seqs[i])
<1>1. PICK f : FlattenSeq(seqs) = f[n] /\ \A i \in 1..n : f[i] = FlattenStep(seqs, f, i)
  BY FlattenedStepwise
<1> DEFINE Fine(m) == /\ f[m] \in Seq(S) /\ IsInjective(f[m])
                      /\ \A x : x \in ToSet(f[m]) <=> \E i \in 1..m : x \in ToSet(seqs[i])
           U == {m \in Nat : m + 1 \in 1..n => Fine(m + 1)}
<1>2. 0 \in U
  <2>1. f[1] = seqs[1] /\ seqs[1] \in Seq(S) /\ IsInjective(seqs[1])
    <3>1. 1 \in 1..n
      OBVIOUS
    <3>2. f[1] = seqs[1]
      BY <3>1, <1>1 DEF FlattenStep
    <3> QED
      BY <3>1, <3>2
  <2>2. \A i \in 1..1 : i = 1
    OBVIOUS
  <2>3. Fine(1)
    BY <2>1, <2>2
  <2> QED
    BY <2>3
<1>3. ASSUME NEW m \in Nat, m < n, m \in U PROVE m + 1 \in U
  <2> SUFFICES ASSUME (m + 1) + 1 \in 1..n PROVE Fine((m + 1) + 1)
    OBVIOUS
  <2>1. PICK k \in Nat, l \in Nat : k = m + 1 /\ l = k + 1 /\ k \in 1..n /\ l \in 1..n /\ l # 1 /\ l - 1 = k
    OBVIOUS
  <2>2. Fine(k)
    BY <1>3, <2>1
  <2>3. f[l] = f[k] \o seqs[l]
    BY <1>1, <2>1 DEF FlattenStep
  <2>4. seqs[l] \in Seq(S) /\ IsInjective(seqs[l])
    BY <2>1
  <2>5. ToSet(f[k]) \cap ToSet(seqs[l]) = {}
    <3> SUFFICES ASSUME NEW x, x \in ToSet(f[k]), x \in ToSet(seqs[l]) PROVE FALSE
      OBVIOUS
    <3>1. PICK i \in 1..k : x \in ToSet(seqs[i])
      BY <2>2
    <3>2. i \in 1..n /\ i # l
      BY <2>1
    <3> QED
      BY <3>1, <3>2, <2>1
  <2>6. /\ f[l] \in Seq(S) /\ IsInjective(f[l]) /\ ToSet(f[l]) = ToSet(f[k]) \cup ToSet(seqs[l])
    BY <2>2, <2>3, <2>4, <2>5, ConcatFacts
  <2>7. \A x : x \in ToSet(f[l]) <=> \E i \in 1..l : x \in ToSet(seqs[i])
    <3>1. \A i \in 1..l : i \in 1..k \/ i = l
      BY <2>1
    <3>2. \A i \in 1..k : i \in 1..l
      BY <2>1
    <3>3. l \in 1..l
      BY <2>1
    <3>4. \A x : x \in ToSet(f[k]) <=> \E i \in 1..k : x \in ToSet(seqs[i])
      BY <2>2
    <3> QED
      BY <2>6, <3>1, <3>2, <3>3, <3>4
  <2> QED
    BY <2>1, <2>6, <2>7
<1>4. Fine(n)
  <2>1. \A k \in 0..n : k \in U
    <3> HIDE DEF U
    <3> QED
      BY <1>2, <1>3, UpTo
  <2>2. PICK k \in Nat : k + 1 = n
    OBVIOUS
  <2>3. k \in 0..n
    BY <2>2
  <2>4. k \in U
    BY <2>1, <2>3
  <2>5. Fine(k + 1)
    BY <2>2, <2>4
  <2> HIDE DEF Fine
  <2> QED
    BY <2>2, <2>5
<1> QED
  BY <1>1, <1>4

-----------------------------------------------------------------------------
(* The invariant of the scheduler.                                         *)

SchedulerTypeOK ==
  /\ DOMAIN scheduled \in SUBSET TriggerIds /\ scheduled \in [DOMAIN scheduled -> Triggers]
  /\ now \in Nat /\ schedules \in Nat /\ ran \in Seq(Occurrences)

\* Every call of schedule() has its number, no later than the last.
NumbersAreOwn ==
  /\ \A i \in DOMAIN scheduled : scheduled[i].number <= schedules
  /\ \A i, j \in DOMAIN scheduled : scheduled[i].number = scheduled[j].number => i = j
  /\ \A x \in ToSet(ran) : x.number <= schedules

\* What was handed out is past, and of a trigger that is scheduled it comes
\* before the run time.
RunsArePast ==
  /\ IsInjective(ran)
  /\ \A x \in ToSet(ran) : x.at <= now
  /\ \A i \in DOMAIN scheduled : \A x \in ToSet(ran) :
       x.number = scheduled[i].number => x.at < scheduled[i].runAt

\* The run time is so many intervals after the first.
CaughtUp(t, runs, c) ==
  /\ t.runAt = t.first + c * t.interval
  /\ t.misfire = "catch_up_all" =>
       \A j \in Nat : j < c => [number |-> t.number, at |-> t.first + j * t.interval] \in runs
CatchesUp == \A i \in DOMAIN scheduled : \E c \in Nat : CaughtUp(scheduled[i], ToSet(ran), c)

SchedulerIInv == SchedulerTypeOK /\ NumbersAreOwn /\ RunsArePast /\ CatchesUp

LEMMA RunsOfAre ==
  ASSUME NEW i, scheduled[i] \in Triggers, now \in Nat, scheduled[i].runAt <= now
  PROVE  LET t == scheduled[i]
         IN /\ RunsOf(i) \in Seq(Occurrences) /\ IsInjective(RunsOf(i))
            /\ \A x \in ToSet(RunsOf(i)) :
                 x.number = t.number /\ \E k \in 1..DueCount(t) : x.at = t.runAt + (k - 1) * t.interval
            /\ t.misfire = "catch_up_all" => \A k \in 1..DueCount(t) :
                 [number |-> t.number, at |-> t.runAt + (k - 1) * t.interval] \in ToSet(RunsOf(i))
<1> PICK t \in Triggers : t = scheduled[i]
  OBVIOUS
<1> PICK times : times = Executions(t)
  OBVIOUS
<1> DEFINE At(k) == t.runAt + (k - 1) * t.interval
<1>1. /\ times \in Seq(Nat) /\ \A a, b \in DOMAIN times : times[a] = times[b] => a = b
      /\ \A a \in DOMAIN times : \E k \in 1..DueCount(t) : times[a] = At(k)
      /\ t.misfire = "catch_up_all" => times = [k \in 1..DueCount(t) |-> At(k)]
  <2>1. DueOccurrences(t) = [k \in 1..DueCount(t) |-> At(k)]
    BY DueOccurrencesAre
  <2>2. \A a \in DOMAIN times : \E k \in 1..DueCount(t) : times[a] = At(k)
    <3>1. \A a \in DOMAIN Executions(t) : \E k \in 1..DueCount(t) : Executions(t)[a] = t.runAt + (k - 1) * t.interval
      BY ExecutionsAre
    <3> QED
      BY <3>1
  <2>3. times \in Seq(Nat) /\ \A a, b \in DOMAIN times : times[a] = times[b] => a = b
    BY ExecutionsAre
  <2>4. t.misfire = "catch_up_all" => times = DueOccurrences(t)
    BY ExecutionsAre
  <2> HIDE DEF At
  <2> QED
    BY <2>1, <2>2, <2>3, <2>4
<1> HIDE DEF At
<1> PICK m \in Nat : m = Len(times)
  BY <1>1
<1>2. DOMAIN times = 1..m /\ t.number \in Nat
  BY <1>1 DEF Triggers
<1> PICK runs : runs = [a \in 1..m |-> [number |-> t.number, at |-> times[a]]]
  OBVIOUS
<1>3. RunsOf(i) = runs
  BY <1>2 DEF RunsOf
<1>4. \A a \in 1..m : runs[a] = [number |-> t.number, at |-> times[a]] /\ times[a] \in Nat
  BY <1>1, <1>2
<1>5. runs \in Seq(Occurrences) /\ DOMAIN runs = 1..m
  <2>1. \A a \in 1..m : [number |-> t.number, at |-> times[a]] \in Occurrences
    BY <1>2, <1>4 DEF Occurrences
  <2>2. runs \in [1..m -> Occurrences]
    BY <2>1
  <2>3. runs \in Seq(Occurrences)
    <3>1. [1..m -> Occurrences] \subseteq Seq(Occurrences)
      OBVIOUS
    <3> QED
      BY <2>2, <3>1
  <2>4. DOMAIN runs = 1..m
    BY <2>2
  <2> QED
    BY <2>3, <2>4
<1>6. IsInjective(runs)
  <2>1. \A a, b \in 1..m : runs[a] = runs[b] => times[a] = times[b]
    BY <1>4
  <2> QED
    BY <2>1, <1>1, <1>2, <1>5 DEF IsInjective
<1>7. ASSUME NEW x \in ToSet(runs)
      PROVE  x.number = t.number /\ \E k \in 1..DueCount(t) : x.at = At(k)
  <2>1. PICK a \in 1..m : x = runs[a]
    BY <1>5 DEF ToSet
  <2>2. x.number = t.number /\ x.at = times[a]
    BY <2>1, <1>4
  <2>3. PICK k \in 1..DueCount(t) : times[a] = At(k)
    BY <1>1, <1>2
  <2> QED
    BY <2>2, <2>3
<1>8. ASSUME t.misfire = "catch_up_all", NEW k \in 1..DueCount(t)
      PROVE  [number |-> t.number, at |-> At(k)] \in ToSet(runs)
  <2>1. times[k] = At(k) /\ k \in 1..m
    <3>1. times = [j \in 1..DueCount(t) |-> At(j)]
      BY <1>1, <1>8
    <3>2. DOMAIN times = 1..DueCount(t)
      BY ONLY <3>1
    <3> QED
      BY ONLY <3>1, <3>2, <1>2, k \in 1..DueCount(t)
  <2> QED
    BY <2>1, <1>4, <1>5 DEF ToSet
<1>9. /\ RunsOf(i) \in Seq(Occurrences) /\ IsInjective(RunsOf(i))
      /\ \A x \in ToSet(RunsOf(i)) : x.number = t.number /\ \E k \in 1..DueCount(t) : x.at = At(k)
      /\ t.misfire = "catch_up_all" => \A k \in 1..DueCount(t) :
           [number |-> t.number, at |-> At(k)] \in ToSet(RunsOf(i))
  BY <1>3, <1>5, <1>6, <1>7, <1>8
<1> QED
  BY <1>9 DEF At

\* A way to sort the triggers that are due names each of them once.
LEMMA DueInOrderIs ==
  ASSUME NEW order \in DueInOrder, IsFiniteSet(DueIds)
  PROVE  \E n \in Nat : /\ order \in [1..n -> DueIds] /\ (n = 0 => DueIds = {})
                        /\ \A i, j \in 1..n : order[i] = order[j] => i = j
                        /\ \A i \in DueIds : \E p \in 1..n : order[p] = i
<1> PICK n \in Nat : n = Cardinality(DueIds)
  BY FS_CardinalityType
<1>1. order \in [1..n -> DueIds] /\ \A i, j \in 1..n : i # j => order[i] # order[j]
  BY DEF DueInOrder, SetToSeqs
<1>2. IsFiniteSet(1..n) /\ Cardinality(1..n) = n
  BY FS_Interval
<1>3. order \in Injection(1..n, DueIds)
  BY <1>1 DEF Injection, IsInjective
<1>4. order \in Surjection(1..n, DueIds)
  BY <1>2, <1>3, FS_Injection
<1>5. \A i \in DueIds : \E p \in 1..n : order[p] = i
  BY <1>4 DEF Surjection
<1>6. n = 0 => DueIds = {}
  BY <1>5
<1> QED
  BY <1>1, <1>5, <1>6

LEMMA DrainAppends ==
  ASSUME SchedulerIInv, DrainDue
  PROVE  \E fresh \in Seq(Occurrences) :
           /\ ran' = ran \o fresh /\ IsInjective(fresh)
           /\ \A x : x \in ToSet(fresh) <=> \E i \in DueIds : x \in ToSet(RunsOf(i))
<1>1. SchedulerTypeOK /\ NumbersAreOwn
  BY DEF SchedulerIInv
<1>2. PICK order \in DueInOrder : ran' = ran \o FlattenSeq([p \in DOMAIN order |-> RunsOf(order[p])])
  BY DEF DrainDue
<1>3. IsFiniteSet(DueIds) /\ DueIds # {}
  <2>1. DueIds \subseteq TriggerIds
    BY <1>1 DEF DueIds, SchedulerTypeOK
  <2> QED
    BY <2>1, SchedulerAssumption, FS_Subset DEF DrainDue
<1>4. PICK n \in Nat : /\ order \in [1..n -> DueIds] /\ (n = 0 => DueIds = {})
                       /\ \A i, j \in 1..n : order[i] = order[j] => i = j
                       /\ \A i \in DueIds : \E p \in 1..n : order[p] = i
  BY <1>3, DueInOrderIs
<1> DEFINE seqs == [p \in 1..n |-> RunsOf(order[p])]
<1>5. ASSUME NEW i \in DueIds
      PROVE  /\ RunsOf(i) \in Seq(Occurrences) /\ IsInjective(RunsOf(i))
             /\ \A x \in ToSet(RunsOf(i)) : x.number = scheduled[i].number
  <2>1. scheduled[i] \in Triggers /\ now \in Nat /\ scheduled[i].runAt <= now
    BY <1>1 DEF DueIds, SchedulerTypeOK
  <2> QED
    BY <2>1, RunsOfAre
<1>6. ASSUME NEW p \in 1..n PROVE order[p] \in DueIds /\ seqs[p] = RunsOf(order[p])
  BY <1>4
<1>7. seqs \in [1..n -> Seq(Occurrences)]
  BY <1>5, <1>6
<1>8. \A p \in 1..n : IsInjective(seqs[p])
  BY <1>5, <1>6
<1>9. ASSUME NEW p \in 1..n, NEW q \in 1..n, p # q PROVE ToSet(seqs[p]) \cap ToSet(seqs[q]) = {}
  <2>1. order[p] # order[q] /\ order[p] \in DOMAIN scheduled /\ order[q] \in DOMAIN scheduled
    BY <1>4, <1>6, <1>9 DEF DueIds
  <2>2. scheduled[order[p]].number # scheduled[order[q]].number
    BY <2>1, <1>1 DEF NumbersAreOwn
  <2> QED
    BY <2>2, <1>5, <1>6
<1> PICK fresh : fresh = FlattenSeq(seqs)
  OBVIOUS
<1>10. /\ fresh \in Seq(Occurrences) /\ IsInjective(fresh)
       /\ \A x : x \in ToSet(fresh) <=> \E p \in 1..n : x \in ToSet(seqs[p])
  <2>1. n # 0
    BY <1>3, <1>4
  <2> HIDE DEF seqs
  <2> QED
    BY <2>1, <1>7, <1>8, <1>9, FlattenedHolds
<1>11. ran' = ran \o fresh
  <2>1. DOMAIN order = 1..n
    BY <1>4
  <2> QED
    BY <1>2, <2>1
<1>12. \A x : x \in ToSet(fresh) <=> \E i \in DueIds : x \in ToSet(RunsOf(i))
  BY <1>4, <1>6, <1>10
<1> QED
  BY <1>10, <1>11, <1>12

-----------------------------------------------------------------------------
(* The steps of the scheduler.                                             *)

\* Nothing is handed out, and the triggers that stay are as they were.
LEMMA NothingRunsKeeps ==
  ASSUME SchedulerIInv, ran' = ran, schedules' = schedules, now' \in Nat, now <= now',
         DOMAIN scheduled' \in SUBSET DOMAIN scheduled, scheduled' = [i \in DOMAIN scheduled' |-> scheduled[i]]
  PROVE  SchedulerIInv'
<1> PICK D : D = DOMAIN scheduled'
  OBVIOUS
<1>1. /\ D \subseteq DOMAIN scheduled /\ DOMAIN scheduled' = D /\ \A i \in D : scheduled'[i] = scheduled[i]
      /\ scheduled' = [i \in D |-> scheduled[i]]
  OBVIOUS
<1>2. SchedulerTypeOK'
  <2>1. \A i \in D : scheduled[i] \in Triggers
    BY <1>1 DEF SchedulerIInv, SchedulerTypeOK
  <2>2. scheduled' \in [D -> Triggers]
    BY <2>1, <1>1
  <2> QED
    BY <2>2, <1>1 DEF SchedulerIInv, SchedulerTypeOK
<1>3. NumbersAreOwn'
  BY <1>1 DEF SchedulerIInv, NumbersAreOwn
<1>4. RunsArePast'
  <2>1. \A x \in ToSet(ran) : x.at \in Nat
    <3>1. \A x \in ToSet(ran) : x \in Occurrences
      BY SeqFacts DEF SchedulerIInv, SchedulerTypeOK
    <3> QED
      BY <3>1 DEF Occurrences
  <2>2. \A x \in ToSet(ran) : x.at <= now'
    BY <2>1 DEF SchedulerIInv, SchedulerTypeOK, RunsArePast
  <2> QED
    BY <2>2, <1>1 DEF SchedulerIInv, RunsArePast
<1>5. CatchesUp'
  <2>1. \A i \in DOMAIN scheduled : \E c \in Nat : CaughtUp(scheduled[i], ToSet(ran), c)
    BY DEF SchedulerIInv, CatchesUp
  <2>2. \A i \in D : \E c \in Nat : CaughtUp(scheduled'[i], ToSet(ran'), c)
    BY <2>1, <1>1
  <2> QED
    BY <2>2, <1>1 DEF CatchesUp, CaughtUp
<1> QED
  BY <1>2, <1>3, <1>4, <1>5 DEF SchedulerIInv

LEMMA ScheduleKeeps ==
  ASSUME SchedulerIInv, NEW id \in TriggerIds, NEW interval \in Intervals, NEW misfire \in MisfireModes,
         NEW bound \in CatchUpBounds, Schedule(id, interval, misfire, bound)
  PROVE  SchedulerIInv'
<1>1. SchedulerTypeOK /\ NumbersAreOwn /\ RunsArePast /\ CatchesUp
  BY DEF SchedulerIInv
<1> PICK n \in Nat, at \in Nat : n = schedules + 1 /\ at = now + 1
  BY <1>1 DEF SchedulerTypeOK
<1> PICK new : new = NewTrigger(0, at, interval, misfire, bound, n)
  OBVIOUS
<1>2. new \in Triggers /\ new.number = n /\ new.runAt = at /\ new.first = at
  BY DEF NewTrigger, Triggers
<1> PICK D : D = DOMAIN scheduled \cup {id}
  OBVIOUS
<1>3. /\ scheduled' = [i \in D |-> IF i = id THEN new ELSE scheduled[i]]
      /\ schedules' = n /\ now' = now /\ ran' = ran
  BY DEF Schedule, Scheduled
<1>4. /\ DOMAIN scheduled' = D /\ id \in D
      /\ \A i \in D : scheduled'[i] = IF i = id THEN new ELSE scheduled[i]
      /\ \A i \in D : i # id => i \in DOMAIN scheduled
  BY <1>3
<1>5. \A i \in DOMAIN scheduled : scheduled[i] \in Triggers /\ scheduled[i].number \in Nat
  BY <1>1 DEF SchedulerTypeOK, Triggers
<1>6. \A x \in ToSet(ran) : x.number \in Nat /\ x.at \in Nat /\ x.number # n
  <2>1. \A x \in ToSet(ran) : x \in Occurrences
    BY <1>1, SeqFacts DEF SchedulerTypeOK
  <2>2. \A x \in ToSet(ran) : x.number <= schedules
    BY <1>1 DEF NumbersAreOwn
  <2> QED
    BY <2>1, <2>2, <1>1 DEF Occurrences, SchedulerTypeOK
<1>7. SchedulerTypeOK'
  <2>1. \A i \in D : (IF i = id THEN new ELSE scheduled[i]) \in Triggers
    BY <1>2, <1>4, <1>5
  <2>2. scheduled' \in [D -> Triggers]
    BY <2>1, <1>3
  <2>3. D \in SUBSET TriggerIds
    BY <1>1 DEF SchedulerTypeOK
  <2> QED
    BY <2>2, <2>3, <1>1, <1>3, <1>4 DEF SchedulerTypeOK
<1>8. NumbersAreOwn'
  <2>1. \A i \in DOMAIN scheduled : scheduled[i].number <= n /\ scheduled[i].number # n
    BY <1>1, <1>5 DEF NumbersAreOwn, SchedulerTypeOK
  <2>2. \A x \in ToSet(ran) : x.number <= n
    BY <1>1, <1>6 DEF NumbersAreOwn, SchedulerTypeOK
  <2>3. \A i \in D : scheduled'[i].number <= n
    BY <2>1, <1>2, <1>4
  <2>4. \A i, j \in D : scheduled'[i].number = scheduled'[j].number => i = j
    BY <2>1, <1>1, <1>2, <1>4 DEF NumbersAreOwn
  <2>5. \A x \in ToSet(ran') : x.number <= schedules'
    BY <2>2, <1>3
  <2>6. \A i \in DOMAIN scheduled' : scheduled'[i].number <= schedules'
    BY <2>3, <1>3, <1>4
  <2>7. \A i, j \in DOMAIN scheduled' : scheduled'[i].number = scheduled'[j].number => i = j
    BY <2>4, <1>4
  <2> QED
    BY <2>5, <2>6, <2>7 DEF NumbersAreOwn
<1>9. RunsArePast'
  <2>1. \A i \in D : \A x \in ToSet(ran) : x.number = scheduled'[i].number => x.at < scheduled'[i].runAt
    BY <1>1, <1>2, <1>4, <1>6 DEF RunsArePast
  <2> QED
    BY <2>1, <1>1, <1>3, <1>4 DEF RunsArePast
<1>10. CatchesUp'
  <2>1. CaughtUp(new, ToSet(ran), 0)
    <3>1. interval \in Nat /\ new.interval = interval
      BY SchedulerAssumption DEF NewTrigger
    <3>2. at = at + 0 * interval
      BY <3>1
    <3>3. \A j \in Nat : ~(j < 0)
      OBVIOUS
    <3> QED
      BY <3>1, <3>2, <3>3, <1>2 DEF CaughtUp
  <2>2. \A i \in D : \E c \in Nat : CaughtUp(scheduled'[i], ToSet(ran), c)
    BY <2>1, <1>1, <1>4 DEF CatchesUp
  <2>3. \A i \in DOMAIN scheduled' : \E c \in Nat : CaughtUp(scheduled'[i], ToSet(ran'), c)
    BY <2>2, <1>3, <1>4
  <2> QED
    BY <2>3 DEF CatchesUp, CaughtUp
<1> QED
  BY <1>7, <1>8, <1>9, <1>10 DEF SchedulerIInv

LEMMA DrainDueKeeps ==
  ASSUME SchedulerIInv, DrainDue
  PROVE  SchedulerIInv'
<1>1. SchedulerTypeOK /\ NumbersAreOwn /\ RunsArePast /\ CatchesUp
  BY DEF SchedulerIInv
<1>2. PICK fresh \in Seq(Occurrences) :
        /\ ran' = ran \o fresh /\ IsInjective(fresh)
        /\ \A x : x \in ToSet(fresh) <=> \E i \in DueIds : x \in ToSet(RunsOf(i))
  BY DrainAppends
<1> PICK K : K = {i \in DOMAIN scheduled : i \notin DueIds \/ scheduled[i].interval > 0}
  OBVIOUS
<1>3. /\ now' = now /\ schedules' = schedules
      /\ scheduled' = [i \in K |-> IF i \in DueIds
                                   THEN [scheduled[i] EXCEPT !.runAt = NextRunAt(scheduled[i])]
                                   ELSE scheduled[i]]
  BY DEF DrainDue
<1>4. /\ DOMAIN scheduled' = K /\ K \subseteq DOMAIN scheduled
      /\ \A i \in K : i \in DueIds => scheduled'[i] = [scheduled[i] EXCEPT !.runAt = NextRunAt(scheduled[i])]
      /\ \A i \in K : i \notin DueIds => scheduled'[i] = scheduled[i]
      /\ \A i \in K : i \in DueIds => scheduled[i].interval > 0
  BY <1>3
<1>5. \A i \in DOMAIN scheduled : scheduled[i] \in Triggers
  BY <1>1 DEF SchedulerTypeOK
<1>6. ASSUME NEW i \in DueIds
      PROVE  /\ i \in DOMAIN scheduled /\ scheduled[i].runAt <= now /\ scheduled[i].runAt \in Nat
             /\ DueCount(scheduled[i]) \in Nat /\ DueCount(scheduled[i]) # 0 /\ scheduled[i].interval \in Nat
             /\ NextRunAt(scheduled[i]) = scheduled[i].runAt + DueCount(scheduled[i]) * scheduled[i].interval
             /\ NextRunAt(scheduled[i]) \in Nat /\ scheduled[i].runAt <= NextRunAt(scheduled[i])
  <2>1. i \in DOMAIN scheduled /\ scheduled[i].runAt <= now
    BY DEF DueIds
  <2> PICK t \in Triggers : t = scheduled[i]
    BY <2>1, <1>5
  <2> PICK n \in Nat : n = DueCount(t)
    BY <2>1, <1>1, DueOccurrencesAre DEF SchedulerTypeOK
  <2>2. n # 0 /\ t.interval \in Nat /\ t.runAt \in Nat /\ DueOccurrences(t) = [k \in 1..n |-> t.runAt + (k - 1) * t.interval]
    BY <2>1, <1>1, DueOccurrencesAre DEF SchedulerTypeOK
  <2>3. Len(DueOccurrences(t)) = n
    BY <2>2
  <2>4. n * t.interval \in Nat
    BY <2>2, Products
  <2> QED
    BY <2>1, <2>2, <2>3, <2>4 DEF NextRunAt
<1>7. ASSUME NEW i \in K, i \in DueIds
      PROVE  /\ scheduled'[i] \in Triggers /\ scheduled'[i].runAt = NextRunAt(scheduled[i])
             /\ scheduled'[i].number = scheduled[i].number /\ scheduled'[i].first = scheduled[i].first
             /\ scheduled'[i].interval = scheduled[i].interval /\ scheduled'[i].misfire = scheduled[i].misfire
  <2> PICK t \in Triggers, next \in Nat : t = scheduled[i] /\ next = NextRunAt(scheduled[i])
    BY <1>4, <1>5, <1>6, <1>7
  <2>1. scheduled'[i] = [t EXCEPT !.runAt = next]
    BY <1>4, <1>7
  <2> QED
    BY <2>1 DEF Triggers
<1>8. \A i \in K : scheduled'[i] \in Triggers /\ scheduled'[i].number = scheduled[i].number
  BY <1>4, <1>5, <1>7
<1>9. ASSUME NEW x \in ToSet(fresh)
      PROVE  \E i \in DueIds : /\ x.number = scheduled[i].number /\ x.at \in Nat /\ x.number \in Nat
                               /\ scheduled[i].runAt <= x.at /\ x.at <= now
                               /\ scheduled[i].interval > 0 => x.at < NextRunAt(scheduled[i])
  <2>1. PICK i \in DueIds : x \in ToSet(RunsOf(i))
    BY <1>2
  <2> PICK t \in Triggers : t = scheduled[i]
    BY <1>5, <1>6
  <2>2. now \in Nat /\ t.runAt <= now
    BY <1>1, <1>6 DEF SchedulerTypeOK
  <2>3. x.number = t.number /\ \E k \in 1..DueCount(t) : x.at = t.runAt + (k - 1) * t.interval
    BY <2>1, <2>2, RunsOfAre
  <2>4. PICK k \in 1..DueCount(t) : x.at = t.runAt + (k - 1) * t.interval
    BY <2>3
  <2>5. /\ x.at \in Nat /\ t.runAt <= x.at /\ x.at <= now
        /\ t.interval > 0 => x.at < t.runAt + DueCount(t) * t.interval
    BY <2>2, <2>4, DueOccurrencesAre
  <2>6. t.number \in Nat
    BY DEF Triggers
  <2> QED
    BY <2>3, <2>5, <2>6, <1>6
<1>10. /\ \A x \in ToSet(ran) : x \in Occurrences
       /\ \A x \in ToSet(fresh) : x \in Occurrences
  BY <1>1, SeqFacts DEF SchedulerTypeOK
<1>11. ToSet(ran) \cap ToSet(fresh) = {}
  <2> SUFFICES ASSUME NEW x \in ToSet(ran), x \in ToSet(fresh) PROVE FALSE
    OBVIOUS
  <2>1. PICK i \in DueIds : x.number = scheduled[i].number /\ scheduled[i].runAt <= x.at
    BY <1>9
  <2>2. x.at < scheduled[i].runAt
    BY <2>1, <1>1, <1>6 DEF RunsArePast
  <2>3. x.at \in Nat /\ scheduled[i].runAt \in Nat
    BY <1>6, <1>10 DEF Occurrences
  <2> QED
    BY <2>1, <2>2, <2>3
<1>12. /\ ran' \in Seq(Occurrences) /\ ToSet(ran') = ToSet(ran) \cup ToSet(fresh) /\ IsInjective(ran')
  BY <1>1, <1>2, <1>11, ConcatFacts DEF SchedulerTypeOK, RunsArePast
<1>13. SchedulerTypeOK'
  <2>1. scheduled' \in [K -> Triggers]
    BY <1>3, <1>4, <1>8
  <2>2. K \in SUBSET TriggerIds
    BY <1>1, <1>4 DEF SchedulerTypeOK
  <2> QED
    BY <2>1, <2>2, <1>1, <1>3, <1>4, <1>12 DEF SchedulerTypeOK
<1>14. NumbersAreOwn'
  <2>1. \A i \in K : scheduled'[i].number <= schedules
    BY <1>1, <1>4, <1>8 DEF NumbersAreOwn
  <2>2. \A i, j \in K : scheduled'[i].number = scheduled'[j].number => i = j
    BY <1>1, <1>4, <1>8 DEF NumbersAreOwn
  <2>3. \A x \in ToSet(fresh) : x.number <= schedules
    BY <1>1, <1>6, <1>9 DEF NumbersAreOwn
  <2>4. \A x \in ToSet(ran) : x.number <= schedules
    BY <1>1 DEF NumbersAreOwn
  <2>5. \A x \in ToSet(ran') : x.number <= schedules'
    BY <2>3, <2>4, <1>3, <1>12
  <2>6. \A i \in DOMAIN scheduled' : scheduled'[i].number <= schedules'
    BY <2>1, <1>3, <1>4
  <2>7. \A i, j \in DOMAIN scheduled' : scheduled'[i].number = scheduled'[j].number => i = j
    BY <2>2, <1>4
  <2> QED
    BY <2>5, <2>6, <2>7 DEF NumbersAreOwn
<1>15. RunsArePast'
  <2>1. \A x \in ToSet(ran') : x.at <= now
    BY <1>1, <1>9, <1>12 DEF RunsArePast
  <2>2. ASSUME NEW i \in K, NEW x \in ToSet(ran'), x.number = scheduled'[i].number
        PROVE  x.at < scheduled'[i].runAt
    <3>1. x.number = scheduled[i].number /\ i \in DOMAIN scheduled
      BY <2>2, <1>4, <1>8
    <3>2. CASE x \in ToSet(ran)
      <4>1. x.at < scheduled[i].runAt /\ x.at \in Nat
        BY <3>1, <3>2, <1>1, <1>10 DEF RunsArePast, Occurrences
      <4>2. CASE i \in DueIds
        BY <4>1, <4>2, <1>6, <1>7
      <4>3. CASE i \notin DueIds
        BY <4>1, <4>3, <1>4
      <4> QED
        BY <4>2, <4>3
    <3>3. CASE x \in ToSet(fresh)
      <4>1. PICK j \in DueIds : /\ x.number = scheduled[j].number
                                /\ scheduled[j].interval > 0 => x.at < NextRunAt(scheduled[j])
        BY <3>3, <1>9
      <4>2. i = j
        BY <3>1, <4>1, <1>1, <1>6 DEF NumbersAreOwn
      <4> QED
        BY <4>1, <4>2, <1>4, <1>7
    <3> QED
      BY <3>2, <3>3, <1>12
  <2> QED
    BY <2>1, <2>2, <1>3, <1>4, <1>12 DEF RunsArePast
<1>16. CatchesUp'
  <2>1. ASSUME NEW i \in K PROVE \E c \in Nat : CaughtUp(scheduled'[i], ToSet(ran'), c)
    <3> PICK t \in Triggers : t = scheduled[i]
      BY <1>4, <1>5
    <3>1. PICK c \in Nat : CaughtUp(t, ToSet(ran), c)
      BY <1>1, <1>4 DEF CatchesUp
    <3>2. CASE i \notin DueIds
      <4>1. CaughtUp(t, ToSet(ran'), c)
        BY <3>1, <1>12 DEF CaughtUp
      <4> QED
        BY <4>1, <3>2, <1>4
    <3>3. CASE i \in DueIds
      <4>1. PICK n \in Nat, iv \in Nat, first \in Nat : n = DueCount(t) /\ iv = t.interval /\ first = t.first
        BY <3>3, <1>6 DEF Triggers
      <4>2. t.runAt = first + c * iv /\ scheduled'[i].runAt = t.runAt + n * iv
        BY <3>1, <3>3, <4>1, <1>6, <1>7 DEF CaughtUp
      <4>3. c * iv \in Nat /\ n * iv \in Nat /\ (c + n) * iv = c * iv + n * iv
        BY Products
      <4>4. scheduled'[i].runAt = first + (c + n) * iv
        BY <4>2, <4>3
      <4>5. ASSUME t.misfire = "catch_up_all", NEW j \in Nat, j < c + n
            PROVE  [number |-> t.number, at |-> first + j * iv] \in ToSet(ran')
        <5>1. CASE j < c
          BY <5>1, <4>1, <4>5, <3>1, <1>12 DEF CaughtUp
        <5>2. CASE j >= c
          <6>1. PICK k \in 1..n, l \in Nat : l = j - c /\ k = l + 1 /\ k - 1 = l /\ j = c + l
            BY <5>2, <4>5
          <6>2. now \in Nat /\ t.runAt <= now
            BY <3>3, <1>1, <1>6 DEF SchedulerTypeOK
          <6>3. [number |-> t.number, at |-> t.runAt + (k - 1) * iv] \in ToSet(RunsOf(i))
            BY <6>2, <4>1, <4>5, RunsOfAre
          <6>4. t.runAt + (k - 1) * iv = first + j * iv
            <7>1. (c + l) * iv = c * iv + l * iv /\ c * iv \in Nat /\ l * iv \in Nat
              BY Products
            <7> QED
              BY <7>1, <6>1, <4>2
          <6> QED
            BY <6>3, <6>4, <3>3, <1>2, <1>12
        <5> QED
          BY <5>1, <5>2
      <4>6. CaughtUp(scheduled'[i], ToSet(ran'), c + n)
        <5>1. /\ scheduled'[i].first = first /\ scheduled'[i].interval = iv
              /\ scheduled'[i].misfire = t.misfire /\ scheduled'[i].number = t.number
          BY <3>3, <4>1, <1>7
        <5> QED
          BY <5>1, <4>4, <4>5 DEF CaughtUp
      <4> QED
        BY <4>6
    <3> QED
      BY <3>2, <3>3
  <2> QED
    BY <2>1, <1>4 DEF CatchesUp, CaughtUp
<1> QED
  BY <1>13, <1>14, <1>15, <1>16 DEF SchedulerIInv

LEMMA SchedulerBegins ==
  ASSUME SchedulerInit
  PROVE  SchedulerIInv
<1>1. /\ DOMAIN scheduled = {} /\ scheduled \in [{} -> Triggers]
      /\ now = 0 /\ schedules = 0 /\ ran = <<>> /\ ToSet(ran) = {} /\ DOMAIN ran = {}
  BY DEF SchedulerInit, ToSet
<1>2. SchedulerTypeOK
  BY <1>1, EmptySeq DEF SchedulerTypeOK
<1> QED
  BY <1>1, <1>2 DEF SchedulerIInv, NumbersAreOwn, RunsArePast, CatchesUp, IsInjective

LEMMA SchedulerInductive ==
  ASSUME SchedulerIInv, [SchedulerNext]_schedulerVars
  PROVE  SchedulerIInv'
<1>1. SchedulerTypeOK
  BY DEF SchedulerIInv
<1>2. CASE DrainDue
  BY <1>2, DrainDueKeeps
<1>3. CASE TimePasses
  <2>1. now' \in Nat /\ now <= now' /\ scheduled' = scheduled /\ schedules' = schedules /\ ran' = ran
    BY <1>1, <1>3 DEF TimePasses, SchedulerTypeOK
  <2>2. scheduled = [i \in DOMAIN scheduled |-> scheduled[i]]
    BY <1>1 DEF SchedulerTypeOK
  <2> QED
    BY <2>1, <2>2, NothingRunsKeeps
<1>4. ASSUME NEW id \in TriggerIds, Cancel(id) PROVE SchedulerIInv'
  <2>1. scheduled' = [i \in DOMAIN scheduled \ {id} |-> scheduled[i]] /\ now' = now /\ schedules' = schedules /\ ran' = ran
    BY <1>4 DEF Cancel, Cancelled
  <2>2. DOMAIN scheduled' = DOMAIN scheduled \ {id}
    BY <2>1
  <2> QED
    BY <2>1, <2>2, <1>1, NothingRunsKeeps DEF SchedulerTypeOK
<1>5. ASSUME NEW id \in TriggerIds, NEW interval \in Intervals, NEW misfire \in MisfireModes,
             NEW bound \in CatchUpBounds, Schedule(id, interval, misfire, bound)
      PROVE  SchedulerIInv'
  BY <1>5, ScheduleKeeps
<1>6. CASE UNCHANGED schedulerVars
  <2>1. now' = now /\ scheduled' = scheduled /\ schedules' = schedules /\ ran' = ran
    BY <1>6 DEF schedulerVars
  <2>2. scheduled = [i \in DOMAIN scheduled |-> scheduled[i]]
    BY <1>1 DEF SchedulerTypeOK
  <2> QED
    BY <2>1, <2>2, <1>1, NothingRunsKeeps DEF SchedulerTypeOK
<1> QED
  BY <1>2, <1>3, <1>4, <1>5, <1>6 DEF SchedulerNext

LEMMA OccurrencesFollow ==
  ASSUME SchedulerIInv
  PROVE  OccurrencesOnce
<1>1. SchedulerTypeOK /\ RunsArePast /\ CatchesUp
  BY DEF SchedulerIInv
<1>2. \A i, j \in DOMAIN ran : ran[i] = ran[j] => i = j
  BY <1>1 DEF RunsArePast, IsInjective
<1>3. \A i \in DOMAIN ran : ran[i].at <= now
  BY <1>1 DEF RunsArePast, ToSet
<1>4. ASSUME NEW id \in DOMAIN scheduled, scheduled[id].misfire = "catch_up_all",
             NEW at \in scheduled[id].first..MaxTime,
             scheduled[id].interval > 0, at < scheduled[id].runAt,
             (at - scheduled[id].first) % scheduled[id].interval = 0
      PROVE  \E i \in DOMAIN ran : ran[i] = [number |-> scheduled[id].number, at |-> at]
  <2> PICK t \in Triggers : t = scheduled[id]
    BY <1>1 DEF SchedulerTypeOK
  <2>1. PICK c \in Nat : CaughtUp(t, ToSet(ran), c)
    BY <1>1 DEF CatchesUp
  <2>2. PICK first \in Nat, iv \in Nat, since \in Nat : first = t.first /\ iv = t.interval /\ since = at - first
    <3>1. t.first \in Nat /\ t.interval \in Nat
      BY SchedulerAssumption DEF Triggers
    <3>2. at \in Int /\ at >= t.first
      BY <3>1, <1>4, SchedulerAssumption
    <3> QED
      BY <3>1, <3>2
  <2>3. PICK q \in Nat : since = q * iv
    BY <1>4, <2>2, Quotients
  <2>4. at = first + q * iv
    BY <2>2, <2>3
  <2>5. q < c
    <3>1. c * iv \in Nat /\ q * iv \in Nat /\ (c <= q => c * iv <= q * iv)
      BY Products
    <3>2. first + q * iv < first + c * iv
      BY <1>4, <2>1, <2>2, <2>4 DEF CaughtUp
    <3> QED
      BY <3>1, <3>2
  <2>6. [number |-> t.number, at |-> at] \in ToSet(ran)
    BY <1>4, <2>1, <2>2, <2>4, <2>5 DEF CaughtUp
  <2> QED
    BY <2>6 DEF ToSet
<1> QED
  BY <1>2, <1>3, <1>4 DEF OccurrencesOnce

(* For any number of triggers, intervals, catch-up bounds and times: however *)
(* late and however often the scheduler is drained, an occurrence is handed  *)
(* out at most once and never before its time, and one that catches up on    *)
(* all misses none.                                                          *)
THEOREM OccurrencesComeOnce == SchedulerSpec => []OccurrencesOnce
<1>1. SchedulerInit => SchedulerIInv
  BY SchedulerBegins
<1>2. SchedulerIInv /\ [SchedulerNext]_schedulerVars => SchedulerIInv'
  BY SchedulerInductive
<1>3. SchedulerIInv => OccurrencesOnce
  BY OccurrencesFollow
<1> QED
  BY <1>1, <1>2, <1>3, PTL DEF SchedulerSpec

-----------------------------------------------------------------------------
(* AuditHistory: how a history is sorted.                                  *)

(* A finite set put in a sequence is there as a whole, each element once.   *)
LEMMA SetAsSequence ==
  ASSUME NEW S, IsFiniteSet(S)
  PROVE  /\ SetToSeq(S) \in Seq(S) /\ Len(SetToSeq(S)) = Cardinality(S)
         /\ \A i, j \in 1..Len(SetToSeq(S)) : SetToSeq(S)[i] = SetToSeq(S)[j] => i = j
         /\ ToSet(SetToSeq(S)) = S
<1> DEFINE n == Cardinality(S)
           q == SetToSeq(S)
<1>1. n \in Nat /\ ExistsBijection(1..n, S)
  BY FS_CardinalityType
<1>2. \E f \in [1..n -> S] : IsInjective(f)
  BY <1>1 DEF ExistsBijection, Bijection, Injection
<1>3. q \in [1..n -> S] /\ IsInjective(q)
  BY <1>2 DEF SetToSeq
<1>4. IsFiniteSet(1..n) /\ Cardinality(1..n) = n
  BY <1>1, FS_Interval
<1> HIDE DEF q, n
<1>5. q \in Surjection(1..n, S)
  <2>1. q \in Injection(1..n, S)
    BY <1>3 DEF Injection
  <2> QED
    BY <2>1, <1>4, FS_Injection DEF n
<1>6. q \in Seq(S) /\ Len(q) = n
  BY <1>1, <1>3
<1>7. \A i, j \in 1..Len(q) : q[i] = q[j] => i = j
  BY <1>3, <1>6 DEF IsInjective
<1>8. ToSet(q) = S
  BY <1>3, <1>5 DEF ToSet, Surjection
<1> QED
  BY <1>6, <1>7, <1>8 DEF q, n

AuditKinds == {"created", "status", "attempt", "ref", "metadata"}
AuditEntries == [id : AuditedIds, sequence : Nat, at : Nat, kind : AuditKinds,
                 before : AuditRecords \cup {Unrecorded}, after : AuditRecords]

\* What of a set of entries does not come after one of them.
UpToEntry(E, x) == {y \in E : y = x \/ HistoryPrecedes(y, x)}

\* Entries differ in the execution or in the sequence number.
HaveOwnKeys(E) == \A x, y \in E : x.id = y.id /\ x.sequence = y.sequence => x = y

LEMMA PrecedesOrders ==
  ASSUME NEW a \in AuditEntries, NEW b \in AuditEntries
  PROVE  /\ ~HistoryPrecedes(a, a)
         /\ HistoryPrecedes(a, b) => ~HistoryPrecedes(b, a)
         /\ HistoryPrecedes(a, b) \/ HistoryPrecedes(b, a) \/ (a.id = b.id /\ a.sequence = b.sequence)
         /\ \A c \in AuditEntries : HistoryPrecedes(a, b) /\ HistoryPrecedes(b, c) => HistoryPrecedes(a, c)
<1>1. \A x \in AuditEntries : x.id \in Nat /\ x.sequence \in Nat /\ x.at \in Nat
  BY AuditAssumption DEF AuditEntries
<1> QED
  BY <1>1 DEF HistoryPrecedes

\* Sets that a function maps one to one are of one size.
LEMMA SameSize ==
  ASSUME NEW S, NEW T, IsFiniteSet(S), NEW f \in [S -> T],
         \A x, y \in S : f[x] = f[y] => x = y, \A y \in T : \E x \in S : f[x] = y
  PROVE  IsFiniteSet(T) /\ Cardinality(T) = Cardinality(S)
<1>1. f \in Surjection(S, T)
  BY DEF Surjection
<1>2. f \in Injection(S, T)
  BY DEF Injection, IsInjective
<1> QED
  BY <1>1, <1>2, FS_Surjection

LEMMA CountTo == \A n \in Nat : IsFiniteSet(1..n) /\ Cardinality(1..n) = n
BY FS_Interval

\* Entries that are in order stay as they are.
LEMMA OrderedStays ==
  ASSUME NEW s \in Seq(AuditEntries),
         \A i, j \in DOMAIN s : i < j => HistoryPrecedes(s[i], s[j])
  PROVE  HistoryOrder(s) = s
<1> PICK n \in Nat : n = Len(s)
  OBVIOUS
<1>1. DOMAIN s = 1..n /\ \A i \in 1..n : s[i] \in AuditEntries
  OBVIOUS
<1>2. ASSUME NEW i \in 1..n PROVE Rank(s, i) = i
  <2>1. ASSUME NEW j \in 1..n
        PROVE  (HistoryPrecedes(s[j], s[i]) \/ (~HistoryPrecedes(s[i], s[j]) /\ j <= i)) <=> j <= i
    <3>1. CASE j < i
      BY <3>1, <1>1
    <3>2. CASE j = i
      BY <3>2, <1>1, PrecedesOrders
    <3>3. CASE j > i
      <4>1. HistoryPrecedes(s[i], s[j])
        BY <3>3, <1>1
      <4>2. ~HistoryPrecedes(s[j], s[i])
        BY <4>1, <1>1, PrecedesOrders
      <4> QED
        BY <4>1, <4>2, <3>3
    <3> QED
      BY <3>1, <3>2, <3>3
  <2>2. {j \in 1..n : HistoryPrecedes(s[j], s[i]) \/ (~HistoryPrecedes(s[i], s[j]) /\ j <= i)} = 1..i
    BY <2>1
  <2>3. Cardinality(1..i) = i
    BY FS_Interval
  <2> QED
    BY <2>2, <2>3, <1>1 DEF Rank
<1> DEFINE placed == {<<Rank(s, i), s[i]>> : i \in 1..n}
<1>3. ASSUME NEW k \in 1..n PROVE (CHOOSE p \in placed : p[1] = k)[2] = s[k]
  <2>1. <<k, s[k]>> \in placed /\ <<k, s[k]>>[1] = k
    BY <1>2
  <2>2. \A p \in placed : p[1] = k => p[2] = s[k]
    BY <1>2
  <2> HIDE DEF placed
  <2> QED
    BY <2>1, <2>2
<1>4. HistoryOrder(s) = [k \in 1..n |-> s[k]]
  <2>1. HistoryOrder(s) = [k \in 1..n |-> (CHOOSE p \in placed : p[1] = k)[2]]
    BY <1>1 DEF HistoryOrder
  <2> HIDE DEF placed
  <2> QED
    BY <2>1, <1>3
<1> QED
  BY <1>1, <1>4

\* Sorting gives every entry the place its key has among the entries.
LEMMA SortedByRank ==
  ASSUME NEW s \in Seq(AuditEntries), \A i, j \in DOMAIN s : s[i] = s[j] => i = j, HaveOwnKeys(ToSet(s))
  PROVE  /\ HistoryOrder(s) \in Seq(ToSet(s))
         /\ IsFiniteSet(ToSet(s)) /\ Len(HistoryOrder(s)) = Cardinality(ToSet(s))
         /\ \A k \in DOMAIN HistoryOrder(s) : Cardinality(UpToEntry(ToSet(s), HistoryOrder(s)[k])) = k
         /\ \A x \in ToSet(s) : \E k \in DOMAIN HistoryOrder(s) : HistoryOrder(s)[k] = x
<1> PICK n \in Nat : n = Len(s)
  OBVIOUS
<1> PICK E : E = ToSet(s)
  OBVIOUS
<1>1. DOMAIN s = 1..n /\ (\A i \in 1..n : s[i] \in AuditEntries /\ s[i] \in E) /\ \A x \in E : \E i \in 1..n : s[i] = x
  BY SeqFacts
<1>2. \A i, j \in 1..n : s[i] = s[j] => i = j
  BY <1>1
<1>3. IsFiniteSet(1..n) /\ Cardinality(1..n) = n
  BY CountTo
<1>4. IsFiniteSet(E) /\ Cardinality(E) = n
  <2> DEFINE f == [i \in 1..n |-> s[i]]
  <2>1. f \in [1..n -> E]
    BY <1>1
  <2>2. \A y \in E : \E i \in 1..n : f[i] = y
    BY <1>1
  <2>3. \A i, j \in 1..n : f[i] = f[j] => i = j
    BY <1>2
  <2> HIDE DEF f
  <2>4. PICK D : D = 1..n
    OBVIOUS
  <2>5. /\ IsFiniteSet(D) /\ f \in [D -> E] /\ (\A i, j \in D : f[i] = f[j] => i = j)
        /\ \A y \in E : \E i \in D : f[i] = y
    BY <2>1, <2>2, <2>3, <2>4, <1>3
  <2>6. IsFiniteSet(E) /\ Cardinality(E) = Cardinality(D)
    BY <2>5, SameSize
  <2> QED
    BY <2>4, <2>6, <1>3
<1> DEFINE J(i) == {j \in 1..n : HistoryPrecedes(s[j], s[i]) \/ j = i}
<1>5. ASSUME NEW i \in 1..n, NEW j \in 1..n, i # j
      PROVE  HistoryPrecedes(s[i], s[j]) \/ HistoryPrecedes(s[j], s[i])
  <2>1. s[i] # s[j] /\ s[i] \in E /\ s[j] \in E /\ s[i] \in AuditEntries /\ s[j] \in AuditEntries
    BY <1>1, <1>2, <1>5
  <2>2. ~(s[i].id = s[j].id /\ s[i].sequence = s[j].sequence)
    BY <2>1 DEF HaveOwnKeys
  <2> QED
    BY <2>1, <2>2, PrecedesOrders
<1>6. ASSUME NEW i \in 1..n PROVE Rank(s, i) = Cardinality(J(i))
  <2>1. ASSUME NEW j \in 1..n
        PROVE  (HistoryPrecedes(s[j], s[i]) \/ (~HistoryPrecedes(s[i], s[j]) /\ j <= i))
                 <=> (HistoryPrecedes(s[j], s[i]) \/ j = i)
    <3>1. CASE i = j
      BY <3>1, <1>1, PrecedesOrders
    <3>2. CASE i # j
      BY <3>2, <1>5
    <3> QED
      BY <3>1, <3>2
  <2>2. {j \in 1..n : HistoryPrecedes(s[j], s[i]) \/ (~HistoryPrecedes(s[i], s[j]) /\ j <= i)} = J(i)
    BY <2>1
  <2> QED
    BY <2>2, <1>1 DEF Rank
<1>7. ASSUME NEW i \in 1..n
      PROVE  J(i) \in SUBSET (1..n) /\ IsFiniteSet(J(i)) /\ Rank(s, i) \in 1..n
  <2>1. J(i) \in SUBSET (1..n) /\ i \in J(i)
    OBVIOUS
  <2>2. IsFiniteSet(J(i)) /\ Cardinality(J(i)) <= n
    <3> HIDE DEF J
    <3> QED
      BY <2>1, <1>3, FS_Subset
  <2>3. Cardinality(J(i)) \in Nat /\ Cardinality(J(i)) # 0
    <3> HIDE DEF J
    <3> QED
      BY <2>1, <2>2, FS_CardinalityType, FS_EmptySet
  <2> QED
    BY <2>1, <2>2, <2>3, <1>6
<1>8. ASSUME NEW i \in 1..n, NEW j \in 1..n, HistoryPrecedes(s[i], s[j])
      PROVE  Rank(s, i) # Rank(s, j)
  <2>1. J(i) \in SUBSET J(j)
    <3> SUFFICES ASSUME NEW k \in J(i) PROVE HistoryPrecedes(s[k], s[j])
      OBVIOUS
    <3>1. s[i] \in AuditEntries /\ s[j] \in AuditEntries /\ s[k] \in AuditEntries
      BY <1>1
    <3>2. CASE k = i
      BY <3>2, <1>8
    <3>3. CASE HistoryPrecedes(s[k], s[i])
      BY <3>1, <3>3, <1>8, PrecedesOrders
    <3> QED
      BY <3>2, <3>3
  <2>2. j \in J(j) /\ j \notin J(i)
    <3>1. s[i] \in AuditEntries /\ s[j] \in AuditEntries
      BY <1>1
    <3>2. ~HistoryPrecedes(s[j], s[i]) /\ ~HistoryPrecedes(s[i], s[i])
      BY <3>1, <1>8, PrecedesOrders
    <3>3. i # j
      BY <3>2, <1>8
    <3> QED
      BY <3>2, <3>3
  <2>3. Cardinality(J(i)) # Cardinality(J(j))
    <3>1. IsFiniteSet(J(j))
      BY <1>7
    <3> HIDE DEF J
    <3> QED
      BY <2>1, <2>2, <3>1, FS_Subset
  <2> QED
    BY <2>3, <1>6
<1>9. \A i, j \in 1..n : Rank(s, i) = Rank(s, j) => i = j
  BY <1>5, <1>8
<1>10. \A k \in 1..n : \E i \in 1..n : Rank(s, i) = k
  <2> DEFINE R == [i \in 1..n |-> Rank(s, i)]
  <2>1. R \in Injection(1..n, 1..n)
    BY <1>7, <1>9 DEF Injection, IsInjective
  <2>2. R \in Surjection(1..n, 1..n)
    <3> HIDE DEF R
    <3> QED
      BY <2>1, <1>3, FS_Injection
  <2>3. \A k \in 1..n : \E i \in 1..n : R[i] = k
    BY <2>2 DEF Surjection
  <2> QED
    BY <2>3
<1> PICK all : all = HistoryOrder(s)
  OBVIOUS
<1>11. DOMAIN all = 1..n /\ \A k \in 1..n : \E i \in 1..n : all[k] = s[i] /\ Rank(s, i) = k
  <2> DEFINE placed == {<<Rank(s, i), s[i]>> : i \in 1..n}
  <2>1. all = [k \in 1..n |-> (CHOOSE p \in placed : p[1] = k)[2]]
    BY <1>1 DEF HistoryOrder
  <2>2. \A p \in placed : \E i \in 1..n : p[1] = Rank(s, i) /\ p[2] = s[i]
    OBVIOUS
  <2>3. \A k \in 1..n : \E p \in placed : p[1] = k
    <3>1. ASSUME NEW i \in 1..n PROVE <<Rank(s, i), s[i]>> \in placed /\ <<Rank(s, i), s[i]>>[1] = Rank(s, i)
      OBVIOUS
    <3> HIDE DEF placed
    <3> QED
      BY <3>1, <1>10
  <2> HIDE DEF placed
  <2>4. DOMAIN all = 1..n
    BY <2>1
  <2>5. ASSUME NEW k \in 1..n PROVE \E i \in 1..n : all[k] = s[i] /\ Rank(s, i) = k
    <3>1. PICK p \in placed : p[1] = k /\ p = CHOOSE x \in placed : x[1] = k
      BY <2>3
    <3>2. all[k] = p[2]
      BY <2>1, <3>1
    <3> QED
      BY <3>1, <3>2, <2>2
  <2> QED
    BY <2>4, <2>5
<1>12. ASSUME NEW i \in 1..n PROVE Cardinality(UpToEntry(E, s[i])) = Rank(s, i)
  <2> DEFINE f == [j \in J(i) |-> s[j]]
             T == UpToEntry(E, s[i])
  <2>1. f \in [J(i) -> T]
    BY <1>1 DEF UpToEntry
  <2>2. \A a, b \in J(i) : f[a] = f[b] => a = b
    BY <1>2
  <2>3. ASSUME NEW y \in T PROVE \E j \in J(i) : f[j] = y
    <3>1. PICK j \in 1..n : s[j] = y
      BY <1>1 DEF UpToEntry
    <3>2. j = i \/ HistoryPrecedes(s[j], s[i])
      BY <3>1, <1>2 DEF UpToEntry
    <3> QED
      BY <3>1, <3>2
  <2>4. IsFiniteSet(J(i)) /\ Rank(s, i) = Cardinality(J(i))
    BY <1>6, <1>7
  <2> HIDE DEF f, T, J
  <2>5. Cardinality(T) = Cardinality(J(i))
    BY <2>1, <2>2, <2>3, <2>4, SameSize
  <2> QED
    BY <2>4, <2>5 DEF T
<1>13. ASSUME NEW k \in 1..n PROVE all[k] \in E /\ Cardinality(UpToEntry(E, all[k])) = k
  BY <1>1, <1>11, <1>12
<1>14. all \in [1..n -> E]
  <2>1. all = [k \in 1..n |-> all[k]]
    BY <1>11 DEF HistoryOrder
  <2> QED
    BY <2>1, <1>13
<1>15. all \in Seq(E) /\ Len(all) = n
  BY <1>14
<1>16. ASSUME NEW x \in E PROVE \E k \in 1..n : all[k] = x
  <2>1. PICK i \in 1..n : s[i] = x
    BY <1>1
  <2>2. PICK k \in 1..n : k = Rank(s, i)
    BY <1>7
  <2>3. all[k] = s[i]
    BY <2>2, <1>9, <1>11
  <2> QED
    BY <2>1, <2>3
<1> QED
  BY <1>4, <1>11, <1>13, <1>15, <1>16

-----------------------------------------------------------------------------
(* The invariant of the audit history.                                     *)

AuditReaders == [of : SUBSET AuditedIds, since : Nat, cursor : Nat, seen : Seq(AuditEntries), more : BOOLEAN]

AuditTypeOK ==
  /\ auditTime \in Nat
  /\ audited \in [AuditedIds -> AuditRecords \cup {Unrecorded}]
  /\ nextSequence \in [AuditedIds -> Nat]
  /\ auditLog \in [AuditedIds -> Seq(AuditEntries)]
  /\ auditReader \in AuditReaders

\* An entry stands at its sequence number, and the next number is free.
LogsAreNumbered == \A e \in AuditedIds :
  /\ nextSequence[e] = Len(auditLog[e]) + 1
  /\ \A i \in DOMAIN auditLog[e] : auditLog[e][i].id = e /\ auditLog[e][i].sequence = i
  /\ \A i \in DOMAIN auditLog[e] : auditLog[e][i].at <= auditTime
  /\ \A i, j \in DOMAIN auditLog[e] : i < j => auditLog[e][i].at <= auditLog[e][j].at

\* A history leads from creation to the record that is stored.
Follows(a, b) == (a.before = b.before /\ a.after = b.after) \/ SameTrail(a.after, b.before)
LogsFollow == \A e \in AuditedIds :
  LET log == auditLog[e]
  IN /\ log = <<>> <=> audited[e] = Unrecorded
     /\ log # <<>> => log[1].kind = "created" /\ SameTrail(log[Len(log)].after, audited[e])
     /\ \A n \in DOMAIN log : n # 1 => Follows(log[n - 1], log[n])

\* What the pages of a reader have to do with the history.
OldIn(entries, since) == {k \in DOMAIN entries : entries[k].at < since}
PagesFollow(r, all) ==
  /\ r.cursor = Len(r.seen) /\ r.cursor <= Len(all)
  /\ \A k \in OldIn(r.seen, r.since) : k \in OldIn(all, r.since) /\ r.seen[k] = all[k]
  /\ \A k \in OldIn(all, r.since) : k \in DOMAIN r.seen => r.seen[k] = all[k]
PagesAreWhole(r, all) == ~r.more => OldIn(all, r.since) \subseteq DOMAIN r.seen

AuditIInv ==
  /\ AuditTypeOK /\ LogsAreNumbered /\ LogsFollow /\ auditReader.since <= auditTime
  /\ PagesFollow(auditReader, Filtered(auditReader.of)) /\ PagesAreWhole(auditReader, Filtered(auditReader.of))

-----------------------------------------------------------------------------
(* AuditHistory: the histories put together, and how they grow.            *)

LogsAreOwn(logs) ==
  /\ logs \in [AuditedIds -> Seq(AuditEntries)]
  /\ \A e \in AuditedIds : \A i \in DOMAIN logs[e] : logs[e][i].id = e /\ logs[e][i].sequence = i

Together(logs, of) == HistoryOrder(FlattenSeq([i \in DOMAIN SetToSeq(of) |-> logs[SetToSeq(of)[i]]]))
EntriesOf(logs, of) == UNION {ToSet(logs[e]) : e \in of}

LEMMA EntriesAreOwn ==
  ASSUME NEW logs, LogsAreOwn(logs), NEW of \in SUBSET AuditedIds
  PROVE  HaveOwnKeys(EntriesOf(logs, of)) /\ \A x \in EntriesOf(logs, of) : x \in AuditEntries /\ x.id \in of
<1>1. ASSUME NEW x \in EntriesOf(logs, of)
      PROVE  \E e \in of : e = x.id /\ x \in AuditEntries /\ \E i \in DOMAIN logs[e] : x = logs[e][i] /\ x.sequence = i
  <2>1. PICK e \in of : x \in ToSet(logs[e])
    BY DEF EntriesOf
  <2> PICK log \in Seq(AuditEntries) : log = logs[e]
    BY DEF LogsAreOwn
  <2>2. PICK i \in DOMAIN log : x = log[i]
    BY <2>1 DEF ToSet
  <2>3. x.id = e /\ x.sequence = i
    BY <2>2 DEF LogsAreOwn
  <2> QED
    BY <2>2, <2>3
<1> QED
  BY <1>1 DEF HaveOwnKeys

\* Each log holds an entry once, and no two logs hold the same.
LEMMA LogsAreApart ==
  ASSUME NEW logs, LogsAreOwn(logs)
  PROVE  /\ \A e \in AuditedIds : IsInjective(logs[e])
         /\ \A d, e \in AuditedIds : d # e => ToSet(logs[d]) \cap ToSet(logs[e]) = {}
<1>1. ASSUME NEW e \in AuditedIds PROVE IsInjective(logs[e])
  BY DEF LogsAreOwn, IsInjective
<1>2. ASSUME NEW e \in AuditedIds, NEW x \in ToSet(logs[e]) PROVE x.id = e
  BY DEF LogsAreOwn, ToSet
<1> QED
  BY <1>1, <1>2

LEMMA TogetherAre ==
  ASSUME NEW logs, LogsAreOwn(logs), NEW of \in SUBSET AuditedIds
  PROVE  LET s == FlattenSeq([i \in DOMAIN SetToSeq(of) |-> logs[SetToSeq(of)[i]]])
         IN s \in Seq(AuditEntries) /\ ToSet(s) = EntriesOf(logs, of) /\ \A i, j \in DOMAIN s : s[i] = s[j] => i = j
<1>1. IsFiniteSet(of)
  BY AuditAssumption, FS_Subset
<1> PICK order \in Seq(of) : order = SetToSeq(of)
  BY <1>1, SetAsSequence
<1>2. /\ \A i, j \in 1..Len(order) : order[i] = order[j] => i = j
      /\ ToSet(order) = of
  BY <1>1, SetAsSequence
<1> PICK n \in Nat : n = Len(order)
  OBVIOUS
<1>3. DOMAIN order = 1..n /\ \A i \in 1..n : order[i] \in of /\ order[i] \in AuditedIds
  OBVIOUS
<1>4. \A e \in of : \E i \in 1..n : order[i] = e
  BY <1>2, <1>3 DEF ToSet
<1> DEFINE seqs == [i \in 1..n |-> logs[order[i]]]
<1>5. FlattenSeq([i \in DOMAIN SetToSeq(of) |-> logs[SetToSeq(of)[i]]]) = FlattenSeq(seqs)
  BY <1>3
<1>6. CASE n = 0
  <2>1. of = {}
    BY <1>4, <1>6
  <2>2. seqs = <<>>
    BY <1>6
  <2>3. FlattenSeq(<<>>) = <<>>
    BY DEF FlattenSeq
  <2>4. EntriesOf(logs, of) = {}
    BY <2>1 DEF EntriesOf
  <2>5. ToSet(<<>>) = {}
    BY DEF ToSet
  <2> QED
    BY <2>2, <2>3, <2>4, <2>5, <1>5
<1>7. CASE n # 0
  <2>1. seqs \in [1..n -> Seq(AuditEntries)]
    BY <1>3 DEF LogsAreOwn
  <2>2. \A i \in 1..n : IsInjective(seqs[i])
    BY <1>3, LogsAreApart
  <2>3. ASSUME NEW i \in 1..n, NEW j \in 1..n, i # j PROVE ToSet(seqs[i]) \cap ToSet(seqs[j]) = {}
    <3>1. order[i] # order[j]
      BY <1>2, <2>3
    <3>2. order[i] \in AuditedIds /\ order[j] \in AuditedIds
      BY <1>3
    <3>3. ToSet(logs[order[i]]) \cap ToSet(logs[order[j]]) = {}
      BY <3>1, <3>2, LogsAreApart
    <3> QED
      BY <3>3
  <2>4. \A e \in of : \E i \in 1..n : seqs[i] = logs[e]
    BY <1>4
  <2>5. \A i \in 1..n : \E e \in of : seqs[i] = logs[e]
    BY <1>3
  <2> HIDE DEF seqs
  <2>6. /\ FlattenSeq(seqs) \in Seq(AuditEntries) /\ IsInjective(FlattenSeq(seqs))
        /\ \A x : x \in ToSet(FlattenSeq(seqs)) <=> \E i \in 1..n : x \in ToSet(seqs[i])
    <3> PICK S : S = AuditEntries
      OBVIOUS
    <3>1. seqs \in [1..n -> Seq(S)]
      BY <2>1
    <3> PICK q \in [1..n -> Seq(S)] : q = seqs
      BY <3>1
    <3>2. (\A i \in 1..n : IsInjective(q[i])) /\ \A i, j \in 1..n : i # j => ToSet(q[i]) \cap ToSet(q[j]) = {}
      BY <2>2, <2>3
    <3>3. /\ FlattenSeq(q) \in Seq(S) /\ IsInjective(FlattenSeq(q))
          /\ \A x : x \in ToSet(FlattenSeq(q)) <=> \E i \in 1..n : x \in ToSet(q[i])
      BY ONLY <3>2, <1>7, n \in Nat, q \in [1..n -> Seq(S)], FlattenedHolds
    <3> QED
      BY <3>3
  <2>7. ToSet(FlattenSeq(seqs)) = EntriesOf(logs, of)
    BY <2>4, <2>5, <2>6 DEF EntriesOf
  <2>8. \A i, j \in DOMAIN FlattenSeq(seqs) : FlattenSeq(seqs)[i] = FlattenSeq(seqs)[j] => i = j
    BY <2>6 DEF IsInjective
  <2> QED
    BY <2>6, <2>7, <2>8, <1>5
<1> QED
  BY <1>6, <1>7

LEMMA TogetherSorted ==
  ASSUME NEW logs, LogsAreOwn(logs), NEW of \in SUBSET AuditedIds
  PROVE  LET all == Together(logs, of)
             E == EntriesOf(logs, of)
         IN /\ all \in Seq(E) /\ all \in Seq(AuditEntries) /\ IsFiniteSet(E) /\ Len(all) = Cardinality(E)
            /\ \A k \in DOMAIN all : all[k] \in E /\ Cardinality(UpToEntry(E, all[k])) = k
            /\ \A x \in E : \E k \in DOMAIN all : all[k] = x
<1> PICK s : s = FlattenSeq([i \in DOMAIN SetToSeq(of) |-> logs[SetToSeq(of)[i]]])
  OBVIOUS
<1> PICK E : E = EntriesOf(logs, of)
  OBVIOUS
<1> PICK all : all = Together(logs, of)
  OBVIOUS
<1>1. s \in Seq(AuditEntries) /\ ToSet(s) = E /\ \A i, j \in DOMAIN s : s[i] = s[j] => i = j
  BY TogetherAre
<1>2. HaveOwnKeys(E) /\ \A x \in E : x \in AuditEntries
  BY EntriesAreOwn
<1>3. all = HistoryOrder(s)
  BY DEF Together
<1>4. /\ all \in Seq(E) /\ IsFiniteSet(E) /\ Len(all) = Cardinality(E)
      /\ \A k \in DOMAIN all : Cardinality(UpToEntry(E, all[k])) = k
      /\ \A x \in E : \E k \in DOMAIN all : all[k] = x
  <2>1. HaveOwnKeys(ToSet(s))
    BY <1>1, <1>2
  <2>2. /\ HistoryOrder(s) \in Seq(ToSet(s))
        /\ IsFiniteSet(ToSet(s)) /\ Len(HistoryOrder(s)) = Cardinality(ToSet(s))
        /\ \A k \in DOMAIN HistoryOrder(s) : Cardinality(UpToEntry(ToSet(s), HistoryOrder(s)[k])) = k
        /\ \A x \in ToSet(s) : \E k \in DOMAIN HistoryOrder(s) : HistoryOrder(s)[k] = x
    BY <1>1, <2>1, SortedByRank
  <2> QED
    BY <1>1, <1>3, <2>2
<1>5. \A k \in DOMAIN all : all[k] \in E
  BY <1>4
<1>6. all \in Seq(AuditEntries)
  BY <1>2, <1>4
<1> QED
  BY <1>4, <1>5, <1>6

\* What is recorded later does not move what was recorded before.
LEMMA TogetherGrows ==
  ASSUME NEW logs, NEW more, LogsAreOwn(logs), LogsAreOwn(more), NEW of \in SUBSET AuditedIds, NEW since \in Nat,
         \A e \in AuditedIds : /\ ToSet(logs[e]) \subseteq ToSet(more[e])
                               /\ \A x \in ToSet(more[e]) : x \in ToSet(logs[e]) \/ x.at >= since
  PROVE  /\ Len(Together(logs, of)) <= Len(Together(more, of))
         /\ \A k \in OldIn(Together(logs, of), since) :
              k \in OldIn(Together(more, of), since) /\ Together(more, of)[k] = Together(logs, of)[k]
         /\ \A k \in OldIn(Together(more, of), since) : k \in OldIn(Together(logs, of), since)
<1> PICK D, E : D = EntriesOf(logs, of) /\ E = EntriesOf(more, of)
  OBVIOUS
<1> PICK a, b : a = Together(logs, of) /\ b = Together(more, of)
  OBVIOUS
<1>1. /\ a \in Seq(AuditEntries) /\ IsFiniteSet(D) /\ Len(a) = Cardinality(D)
      /\ \A k \in DOMAIN a : a[k] \in D /\ Cardinality(UpToEntry(D, a[k])) = k
      /\ \A x \in D : \E k \in DOMAIN a : a[k] = x
  BY TogetherSorted
<1>2. /\ b \in Seq(AuditEntries) /\ IsFiniteSet(E) /\ Len(b) = Cardinality(E)
      /\ \A k \in DOMAIN b : b[k] \in E /\ Cardinality(UpToEntry(E, b[k])) = k
      /\ \A x \in E : \E k \in DOMAIN b : b[k] = x
  BY TogetherSorted
<1>3. D \subseteq E /\ \A x \in E : x \in D \/ x.at >= since
  BY DEF EntriesOf
<1>4. \A x \in E : x \in AuditEntries /\ x.at \in Nat
  <2>1. \A x \in E : x \in AuditEntries
    BY EntriesAreOwn
  <2> QED
    BY <2>1 DEF AuditEntries
<1>5. Len(a) <= Len(b)
  BY <1>1, <1>2, <1>3, FS_Subset
<1>6. ASSUME NEW x \in D, x.at < since PROVE UpToEntry(D, x) = UpToEntry(E, x)
  <2>1. ASSUME NEW y \in E, HistoryPrecedes(y, x) PROVE y \in D
    <3>1. y.at <= x.at
      BY <2>1, <1>3, <1>4 DEF HistoryPrecedes
    <3>2. ~(y.at >= since)
      BY <3>1, <1>3, <1>4, <1>6
    <3> QED
      BY <3>2, <1>3
  <2> QED
    BY <2>1, <1>3 DEF UpToEntry
<1>7. ASSUME NEW k \in DOMAIN a, a[k].at < since PROVE k \in DOMAIN b /\ b[k] = a[k]
  <2>1. PICK l \in DOMAIN b : b[l] = a[k]
    BY <1>1, <1>2, <1>3
  <2>2. k = l
    BY <2>1, <1>1, <1>2, <1>6, <1>7
  <2> QED
    BY <2>1, <2>2
<1>8. ASSUME NEW k \in DOMAIN b, b[k].at < since PROVE k \in DOMAIN a /\ a[k] = b[k]
  <2>1. b[k] \in D
    <3>1. b[k] \in E /\ ~(b[k].at >= since)
      BY <1>2, <1>4, <1>8
    <3> QED
      BY <3>1, <1>3
  <2>2. PICK l \in DOMAIN a : a[l] = b[k]
    BY <2>1, <1>1
  <2>3. k = l
    BY <2>1, <2>2, <1>1, <1>2, <1>6, <1>8
  <2> QED
    BY <2>2, <2>3
<1> QED
  BY <1>5, <1>7, <1>8 DEF OldIn


-----------------------------------------------------------------------------
(* AuditHistory: an upsert and its entries.                                *)

LEMMA TrailsChain ==
  ASSUME NEW a \in AuditRecords, NEW b \in AuditRecords, NEW c \in AuditRecords
  PROVE  SameTrail(a, a) /\ (SameTrail(a, b) /\ SameTrail(b, c) => SameTrail(a, c))
BY DEF SameTrail

LEMMA OneOf ==
  ASSUME NEW S, NEW x \in S
  PROVE  <<x>> \in Seq(S) /\ Len(<<x>>) = 1 /\ Len(<<x>>) # 0 /\ <<>> \in Seq(S) /\ Len(<<>>) = 0
OBVIOUS

LEMMA OneKind == \A kind \in AuditKinds : /\ <<kind>> \in Seq(AuditKinds) /\ Len(<<kind>>) # 0
                                      /\ <<>> \in Seq(AuditKinds) /\ Len(<<>>) = 0
BY OneOf, Zenon

LEMMA NoKind == <<>> \in Seq(AuditKinds) /\ Len(<<>>) = 0
OBVIOUS

LEMMA KindsOfEntries ==
  /\ "created" \in AuditKinds /\ "status" \in AuditKinds /\ "attempt" \in AuditKinds
  /\ "ref" \in AuditKinds /\ "metadata" \in AuditKinds
BY DEF AuditKinds

\* A change that leaves no entry is none a trail tells.
LEMMA ChangesTell ==
  ASSUME NEW prior \in AuditRecords \cup {Unrecorded}, NEW after \in AuditRecords
  PROVE  /\ Changes(prior, after) \in Seq(AuditKinds)
         /\ prior = Unrecorded => Changes(prior, after) = <<"created">>
         /\ prior # Unrecorded /\ Changes(prior, after) = <<>> => SameTrail(prior, after)
<1>1. CASE prior = Unrecorded
  <2>1. Changes(prior, after) = <<"created">>
    BY <1>1, Zenon DEF Changes
  <2>2. <<"created">> \in Seq(AuditKinds)
    BY KindsOfEntries, OneKind, Zenon
  <2> QED
    BY <2>1, <2>2, <1>1, Zenon
<1>2. CASE prior # Unrecorded
  <2>1. prior \in AuditRecords /\ prior.ref \in BOOLEAN /\ after.ref \in BOOLEAN
    BY <1>2, AuditAssumption
  <2>3. PICK p \in Seq(AuditKinds) : /\ p = EntryIf(prior.status # after.status, "status")
                                     /\ Len(p) = 0 => prior.status = after.status
    <3>1. CASE prior.status = after.status
      <4>1. EntryIf(prior.status # after.status, "status") = <<>>
        BY <3>1, Zenon DEF EntryIf
      <4> QED
        BY <3>1, <4>1, NoKind, Zenon
    <3>2. CASE prior.status # after.status
      <4>1. EntryIf(prior.status # after.status, "status") = <<"status">>
        BY <3>2, Zenon DEF EntryIf
      <4> QED
        BY <4>1, KindsOfEntries, OneKind, Zenon
    <3> QED
      BY <3>1, <3>2
  <2>4. PICK q \in Seq(AuditKinds) : /\ q = EntryIf(prior.attempt # after.attempt, "attempt")
                                     /\ Len(q) = 0 => prior.attempt = after.attempt
    <3>1. CASE prior.attempt = after.attempt
      <4>1. EntryIf(prior.attempt # after.attempt, "attempt") = <<>>
        BY <3>1, Zenon DEF EntryIf
      <4> QED
        BY <3>1, <4>1, NoKind, Zenon
    <3>2. CASE prior.attempt # after.attempt
      <4>1. EntryIf(prior.attempt # after.attempt, "attempt") = <<"attempt">>
        BY <3>2, Zenon DEF EntryIf
      <4> QED
        BY <4>1, KindsOfEntries, OneKind, Zenon
    <3> QED
      BY <3>1, <3>2
  <2>5. PICK u \in Seq(AuditKinds) : /\ u = EntryIf(prior.ref # after.ref /\ after.ref, "ref")
                                     /\ Len(u) = 0 => (after.ref => prior.ref)
    <3>1. CASE ~(prior.ref # after.ref /\ after.ref)
      <4>1. EntryIf(prior.ref # after.ref /\ after.ref, "ref") = <<>>
        BY <3>1, Zenon DEF EntryIf
      <4>2. after.ref => prior.ref
        BY <2>1, <3>1
      <4> QED
        BY <4>1, <4>2, NoKind, Zenon
    <3>2. CASE prior.ref # after.ref /\ after.ref
      <4>1. EntryIf(prior.ref # after.ref /\ after.ref, "ref") = <<"ref">>
        BY <3>2, Zenon DEF EntryIf
      <4> QED
        BY <4>1, KindsOfEntries, OneKind, Zenon
    <3> QED
      BY <3>1, <3>2
  <2>6. PICK v \in Seq(AuditKinds) : /\ v = EntryIf(prior.metadata # after.metadata, "metadata")
                                     /\ Len(v) = 0 => prior.metadata = after.metadata
    <3>1. CASE prior.metadata = after.metadata
      <4>1. EntryIf(prior.metadata # after.metadata, "metadata") = <<>>
        BY <3>1, Zenon DEF EntryIf
      <4> QED
        BY <3>1, <4>1, NoKind, Zenon
    <3>2. CASE prior.metadata # after.metadata
      <4>1. EntryIf(prior.metadata # after.metadata, "metadata") = <<"metadata">>
        BY <3>2, Zenon DEF EntryIf
      <4> QED
        BY <4>1, KindsOfEntries, OneKind, Zenon
    <3> QED
      BY <3>1, <3>2
  <2>7. Changes(prior, after) = p \o q \o u \o v
    <3>1. Changes(prior, after)
            = EntryIf(prior.status # after.status, "status") \o EntryIf(prior.attempt # after.attempt, "attempt")
              \o EntryIf(prior.ref # after.ref /\ after.ref, "ref")
              \o EntryIf(prior.metadata # after.metadata, "metadata")
      BY <1>2, Zenon DEF Changes
    <3>2. p = EntryIf(prior.status # after.status, "status")
      BY <2>3
    <3>3. q = EntryIf(prior.attempt # after.attempt, "attempt")
      BY <2>4
    <3>4. u = EntryIf(prior.ref # after.ref /\ after.ref, "ref")
      BY <2>5, Zenon
    <3>5. v = EntryIf(prior.metadata # after.metadata, "metadata")
      BY <2>6
    <3> QED
      BY <3>1, <3>2, <3>3, <3>4, <3>5, Zenon
  <2>8. p \o q \o u \o v \in Seq(AuditKinds) /\ Len(p \o q \o u \o v) = Len(p) + Len(q) + Len(u) + Len(v)
    BY <2>3, <2>4, <2>5, <2>6
  <2>9. ASSUME p \o q \o u \o v = <<>> PROVE SameTrail(prior, after)
    <3>1. Len(p) + Len(q) + Len(u) + Len(v) = 0
      BY <2>8, <2>9
    <3>2. Len(p) = 0 /\ Len(q) = 0 /\ Len(u) = 0 /\ Len(v) = 0
      BY <3>1, <2>3, <2>4, <2>5, <2>6
    <3>3. prior.status = after.status /\ prior.attempt = after.attempt /\ prior.metadata = after.metadata
      BY <3>2, <2>3, <2>4, <2>6
    <3>4. after.ref => prior.ref
      BY <3>2, <2>5, Zenon
    <3> QED
      BY <3>3, <3>4, Zenon DEF SameTrail
  <2> QED
    BY <1>2, <2>7, <2>8, <2>9
<1> QED
  BY <1>1, <1>2

(* Entries of one execution that come later and are numbered on are in order *)
(* already.                                                                  *)
LEMMA NumberedOnStays ==
  ASSUME NEW e \in AuditedIds, auditTime \in Nat, NEW log \in Seq(AuditEntries), NEW entries \in Seq(AuditEntries),
         \A i \in DOMAIN log : log[i].id = e /\ log[i].sequence = i /\ log[i].at <= auditTime,
         \A i, j \in DOMAIN log : i < j => log[i].at <= log[j].at,
         \A k \in DOMAIN entries : entries[k].id = e /\ entries[k].sequence = Len(log) + k /\ entries[k].at = auditTime
  PROVE  HistoryOrder(log \o entries) = log \o entries
<1> PICK m \in Nat, n \in Nat, moment \in Nat : m = Len(log) /\ n = Len(entries) /\ moment = auditTime
  OBVIOUS
<1>1. /\ \A i \in DOMAIN log : log[i].id = e /\ log[i].sequence = i /\ log[i].at <= moment
      /\ \A i, j \in DOMAIN log : i < j => log[i].at <= log[j].at
  OBVIOUS
<1>2. \A k \in 1..n : entries[k].id = e /\ entries[k].sequence = m + k /\ entries[k].at = moment
  <2>1. DOMAIN entries = 1..n
    OBVIOUS
  <2> QED
    BY <2>1
<1> PICK all \in Seq(AuditEntries) : all = log \o entries
  BY ConcatProperties
<1>3. /\ Len(all) = m + n /\ DOMAIN all = 1..(m + n) /\ DOMAIN log = 1..m
      /\ \A i \in 1..m : all[i] = log[i]
      /\ \A i \in (m + 1)..(m + n) : i - m \in 1..n /\ all[i] = entries[i - m] /\ m + (i - m) = i
  OBVIOUS
<1>4. \A i \in 1..m : log[i].at \in Nat
  <2>1. \A x \in AuditEntries : x.at \in Nat
    BY DEF AuditEntries
  <2>2. \A i \in 1..m : log[i] \in AuditEntries
    OBVIOUS
  <2> QED
    BY <2>1, <2>2
<1>5. ASSUME NEW i \in 1..(m + n)
      PROVE  /\ i \in 1..m \/ i \in (m + 1)..(m + n)
             /\ all[i].id = e /\ all[i].sequence = i /\ all[i].at <= moment /\ all[i].at \in Nat /\ (i > m => all[i].at = moment)
  <2>1. CASE i <= m
    <3>1. i \in 1..m
      BY <2>1
    <3> QED
      BY <2>1, <3>1, <1>3, <1>4
  <2>2. CASE i > m
    <3>1. i \in (m + 1)..(m + n)
      BY <2>2
    <3> QED
      BY <3>1, <1>3, <1>1, <1>2
  <2> QED
    BY <2>1, <2>2
<1>6. ASSUME NEW i \in 1..(m + n), NEW j \in 1..(m + n), i < j PROVE all[i].at <= all[j].at
  <2>1. CASE j <= m
    <3>1. i \in 1..m /\ j \in 1..m
      BY <2>1, <1>6
    <3> QED
      BY <3>1, <1>3, <1>6, <1>1, <1>2
  <2>2. CASE j > m
    <3>1. all[j].at = moment
      BY ONLY <2>2, <1>5, j \in 1..(m + n)
    <3>2. all[i].at <= moment
      BY ONLY <1>5, i \in 1..(m + n)
    <3> QED
      BY ONLY <3>1, <3>2
  <2> QED
    BY <2>1, <2>2
<1>7. ASSUME NEW i \in DOMAIN all, NEW j \in DOMAIN all, i < j PROVE HistoryPrecedes(all[i], all[j])
  <2>1. all[i].at <= all[j].at /\ all[i].at \in Nat /\ all[j].at \in Nat
    BY <1>3, <1>5, <1>6, <1>7
  <2>2. all[i].id = all[j].id /\ all[i].sequence < all[j].sequence
    <3>1. i \in 1..(m + n) /\ j \in 1..(m + n)
      BY ONLY <1>3, i \in DOMAIN all, j \in DOMAIN all
    <3>2. all[i].id = e /\ all[j].id = e /\ all[i].sequence = i /\ all[j].sequence = j
      BY ONLY <3>1, <1>5
    <3> QED
      BY ONLY <3>2, <1>7
  <2>3. all[i].at < all[j].at \/ all[i].at = all[j].at
    BY ONLY <2>1
  <2> QED
    BY <2>2, <2>3, Zenon DEF HistoryPrecedes
<1> QED
  BY <1>7, OrderedStays

LEMMA HistoriesOf ==
  ASSUME AuditTypeOK, LogsAreNumbered
  PROVE  LogsAreOwn(auditLog) /\ \A of \in SUBSET AuditedIds : /\ Filtered(of) = Together(auditLog, of)
                                                               /\ Filtered(of) \in Seq(AuditEntries)
<1>1. LogsAreOwn(auditLog)
  BY DEF AuditTypeOK, LogsAreNumbered, LogsAreOwn
<1>2. ASSUME NEW of \in SUBSET AuditedIds PROVE Together(auditLog, of) \in Seq(AuditEntries)
  BY <1>1, TogetherSorted
<1>3. ASSUME NEW of \in SUBSET AuditedIds PROVE Filtered(of) = Together(auditLog, of)
  BY DEF Filtered, Together
<1> QED
  BY <1>1, <1>2, <1>3

\* What the pages hold stays right while the history grows behind them.
LEMMA PagesKept ==
  ASSUME NEW r \in AuditReaders, NEW all \in Seq(AuditEntries), NEW grown \in Seq(AuditEntries),
         PagesFollow(r, all), PagesAreWhole(r, all), Len(all) <= Len(grown),
         \A k \in OldIn(all, r.since) : k \in OldIn(grown, r.since) /\ grown[k] = all[k],
         \A k \in OldIn(grown, r.since) : k \in OldIn(all, r.since)
  PROVE  PagesFollow(r, grown) /\ PagesAreWhole(r, grown)
<1>1. r.cursor \in Nat /\ Len(all) \in Nat /\ Len(grown) \in Nat
  BY DEF AuditReaders
<1>2. r.cursor = Len(r.seen) /\ r.cursor <= Len(grown)
  BY <1>1 DEF PagesFollow
<1>3. ASSUME NEW k \in OldIn(r.seen, r.since) PROVE k \in OldIn(grown, r.since) /\ r.seen[k] = grown[k]
  BY DEF PagesFollow
<1>4. ASSUME NEW k \in OldIn(grown, r.since), k \in DOMAIN r.seen PROVE r.seen[k] = grown[k]
  BY <1>4 DEF PagesFollow
<1>5. PagesAreWhole(r, grown)
  BY DEF PagesAreWhole
<1> QED
  BY <1>2, <1>3, <1>4, <1>5 DEF PagesFollow

\* A page, put after what ends where it begins, goes on to where it ends.
LEMMA PageAppended ==
  ASSUME NEW S, NEW all \in Seq(S), NEW old \in Seq(S), NEW next \in Nat, Len(old) <= next, next <= Len(all)
  PROVE  LET seen == old \o SubSeq(all, Len(old) + 1, next)
         IN /\ seen \in Seq(S) /\ Len(seen) = next
            /\ \A i \in 1..next : i <= Len(old) => seen[i] = old[i]
            /\ \A i \in 1..next : i > Len(old) => seen[i] = all[i]
<1> PICK c \in Nat, n \in Nat : c = Len(old) /\ n = Len(all)
  OBVIOUS
<1>1. \A i \in (c + 1)..next : i \in 1..n /\ all[i] \in S
  OBVIOUS
<1>2. PICK page \in Seq(S) : page = SubSeq(all, c + 1, next)
  <2>1. c + 1 \in Int /\ next \in Int /\ \A i \in (c + 1)..next : all[i] \in S
    BY <1>1
  <2>2. SubSeq(all, c + 1, next) \in Seq(S)
    BY ONLY <2>1, SubSeqProperties
  <2> QED
    BY <2>2
<1>3. Len(page) = next - c /\ \A i \in 1..(next - c) : page[i] = all[c + i]
  BY <1>1, <1>2
<1>4. PICK seen \in Seq(S) : seen = old \o page
  BY ConcatProperties
<1>5. Len(seen) = next /\ \A i \in 1..next : seen[i] = IF i <= c THEN old[i] ELSE page[i - c]
  <2>1. Len(old) + Len(page) = next
    BY <1>3
  <2>2. Len(seen) = Len(old) + Len(page)
    BY <1>4, ConcatProperties
  <2>3. \A i \in 1..Len(old) + Len(page) : seen[i] = IF i <= Len(old) THEN old[i] ELSE page[i - Len(old)]
    BY <1>4, ConcatProperties
  <2> QED
    BY <2>1, <2>2, <2>3
<1>6. ASSUME NEW i \in 1..next, i > c PROVE seen[i] = all[i]
  <2>1. i - c \in 1..(next - c) /\ c + (i - c) = i /\ ~(i <= c)
    BY ONLY <1>6, c \in Nat, next \in Nat, i \in 1..next
  <2> QED
    BY <2>1, <1>3, <1>5
<1> QED
  BY <1>2, <1>4, <1>5, <1>6

\* The reader when it has been given a page.
PageEnd(r, all) == IF r.cursor + PageLimit < Len(all) THEN r.cursor + PageLimit ELSE Len(all)
Paged(r, all) == [r EXCEPT !.cursor = PageEnd(r, all), !.more = PageEnd(r, all) < Len(all),
                           !.seen = @ \o SubSeq(all, r.cursor + 1, PageEnd(r, all))]

\* A page takes its entries at their places in the history.
LEMMA PageRead ==
  ASSUME NEW r \in AuditReaders, NEW all \in Seq(AuditEntries), PagesFollow(r, all)
  PROVE  /\ Paged(r, all) \in AuditReaders /\ Paged(r, all).of = r.of /\ Paged(r, all).since = r.since
         /\ PagesFollow(Paged(r, all), all) /\ PagesAreWhole(Paged(r, all), all)
<1>1. /\ r.cursor \in Nat /\ r.cursor = Len(r.seen) /\ r.cursor <= Len(all) /\ r.seen \in Seq(AuditEntries)
      /\ PageLimit \in Nat
  BY AuditAssumption DEF AuditReaders, PagesFollow
<1>2. PICK n \in Nat, c \in Nat : n = Len(all) /\ c = r.cursor
  BY <1>1
<1>3. PICK next \in Nat : next = PageEnd(r, all)
  BY <1>1, <1>2 DEF PageEnd
<1>4. c <= next /\ next <= n /\ (~(next < n) => next = n)
  <2>1. next = IF c + PageLimit < n THEN c + PageLimit ELSE n
    BY <1>2, <1>3 DEF PageEnd
  <2> QED
    BY <2>1, <1>1, <1>2
<1>5. PICK old \in Seq(AuditEntries), since \in Nat : old = r.seen /\ since = r.since
  BY DEF AuditReaders
<1>6. PICK seen : seen = old \o SubSeq(all, c + 1, next)
  OBVIOUS
<1>7. /\ seen \in Seq(AuditEntries) /\ Len(seen) = next
      /\ \A i \in 1..next : i <= c => seen[i] = old[i]
      /\ \A i \in 1..next : i > c => seen[i] = all[i]
  <2>1. c = Len(old) /\ Len(old) <= next /\ next <= Len(all)
    BY <1>1, <1>2, <1>4, <1>5
  <2>2. LET s == old \o SubSeq(all, Len(old) + 1, next)
        IN /\ s \in Seq(AuditEntries) /\ Len(s) = next
           /\ \A i \in 1..next : i <= Len(old) => s[i] = old[i]
           /\ \A i \in 1..next : i > Len(old) => s[i] = all[i]
    BY ONLY <2>1, all \in Seq(AuditEntries), old \in Seq(AuditEntries), next \in Nat, PageAppended
  <2> QED
    BY <2>1, <2>2, <1>6
<1>8. PICK q : q = Paged(r, all)
  OBVIOUS
<1>9. q = [r EXCEPT !.cursor = next, !.more = next < n, !.seen = seen]
  BY <1>2, <1>3, <1>5, <1>6, <1>8, Zenon DEF Paged
<1>10. DOMAIN seen = 1..next /\ DOMAIN old = 1..c /\ DOMAIN all = 1..n
  BY <1>1, <1>2, <1>5, <1>7
<1>11. \A i \in 1..c : i \in 1..next /\ i <= c /\ seen[i] = old[i]
  BY <1>4, <1>7
<1>12. ASSUME NEW i \in 1..next, i > c PROVE seen[i] = all[i]
  BY <1>7, <1>12
<1>13. \A k \in 1..next : k <= c \/ k > c
  BY <1>6
<1>14. /\ q \in AuditReaders /\ q.of = r.of /\ q.since = since /\ q.cursor = next /\ q.seen = seen
       /\ ~q.more => next = n
  <2>1. r.of \in SUBSET AuditedIds /\ r.since \in Nat /\ since = r.since
    BY <1>5 DEF AuditReaders
  <2>2. CASE next < n
    <3>1. q = [of |-> r.of, since |-> r.since, cursor |-> next, seen |-> seen, more |-> TRUE]
      <4>1. (next < n) = TRUE
        BY <2>2
      <4>2. q = [r EXCEPT !.cursor = next, !.more = TRUE, !.seen = seen]
        BY <4>1, <1>9, Zenon
      <4> QED
        BY <4>2 DEF AuditReaders
    <3> QED
      BY ONLY <3>1, <2>1, <1>7, next \in Nat DEF AuditReaders
  <2>3. CASE ~(next < n)
    <3>1. q = [of |-> r.of, since |-> r.since, cursor |-> next, seen |-> seen, more |-> FALSE]
      <4>1. (next < n) = FALSE
        BY <2>3
      <4>2. q = [r EXCEPT !.cursor = next, !.more = FALSE, !.seen = seen]
        BY <4>1, <1>9, Zenon
      <4> QED
        BY <4>2 DEF AuditReaders
    <3>2. next = n
      BY <2>3, <1>4
    <3> QED
      BY ONLY <3>1, <3>2, <2>1, <1>7, next \in Nat DEF AuditReaders
  <2> QED
    BY <2>2, <2>3
<1>15. /\ \A k \in OldIn(old, since) : k \in OldIn(all, since) /\ old[k] = all[k]
       /\ \A k \in OldIn(all, since) : k \in DOMAIN old => old[k] = all[k]
  BY <1>5 DEF PagesFollow
<1>16. ASSUME NEW k \in OldIn(seen, since) PROVE k \in OldIn(all, since) /\ seen[k] = all[k]
  <2>1. CASE k <= c
    <3>1. k \in 1..c /\ k \in OldIn(old, since)
      BY <2>1, <1>10, <1>11 DEF OldIn
    <3> QED
      BY <3>1, <1>11, <1>15
  <2>2. CASE k > c
    <3>1. k \in 1..next /\ k \in 1..n
      BY <1>4, <1>10 DEF OldIn
    <3> QED
      BY <2>2, <3>1, <1>10, <1>12 DEF OldIn
  <2>3. k \in 1..next
    BY <1>10 DEF OldIn
  <2> QED
    BY <2>1, <2>2, <2>3, <1>13
<1>17. ASSUME NEW k \in OldIn(all, since), k \in DOMAIN seen PROVE seen[k] = all[k]
  <2>1. CASE k <= c
    <3>1. k \in 1..c
      BY <2>1, <1>10, <1>17
    <3> QED
      BY <3>1, <1>10, <1>11, <1>15
  <2>2. CASE k > c
    BY <2>2, <1>10, <1>12, <1>17
  <2>3. k \in 1..next
    BY <1>10, <1>17
  <2> QED
    BY <2>1, <2>2, <2>3, <1>13
<1>18. PagesFollow(q, all)
  <2>1. q.seen = seen /\ q.since = since /\ q.cursor = next
    BY <1>14, Zenon
  <2>2. q.cursor = Len(q.seen) /\ q.cursor <= Len(all)
    BY <2>1, <1>2, <1>4, <1>7
  <2>3. /\ \A k \in OldIn(q.seen, q.since) : k \in OldIn(all, q.since) /\ q.seen[k] = all[k]
        /\ \A k \in OldIn(all, q.since) : k \in DOMAIN q.seen => q.seen[k] = all[k]
    BY <2>1, <1>16, <1>17
  <2> QED
    BY <2>2, <2>3, Zenon DEF PagesFollow
<1>19. PagesAreWhole(q, all)
  <2>1. next = n => OldIn(all, since) \subseteq DOMAIN seen
    BY <1>4, <1>10 DEF OldIn
  <2>2. q.seen = seen /\ q.since = since /\ (~q.more => next = n)
    BY <1>14, Zenon
  <2> QED
    BY <2>1, <2>2, Zenon DEF PagesAreWhole
<1> QED
  BY <1>5, <1>8, <1>14, <1>18, <1>19, Zenon

-----------------------------------------------------------------------------
(* AuditHistory: the invariant is inductive.                               *)

\* The history of an execution after an upsert: what it was, and the entries.
AuditEntry(e, i, moment, kind, prior, after) ==
  [id |-> e, sequence |-> i, at |-> moment, kind |-> kind, before |-> prior, after |-> after]

LEMMA Positions ==
  ASSUME NEW m \in Nat, NEW n \in Nat
  PROVE  /\ \A i \in 1..m : i \in 1..(m + n) /\ i <= m /\ ~(i > m)
         /\ \A i \in 1..(m + n) : \/ i \in 1..m /\ i <= m /\ ~(i > m)
                                  \/ i > m /\ ~(i <= m) /\ i - m \in 1..n /\ m + (i - m) = i
         /\ \A k \in 1..n : (m + 1) + k - 1 = m + k /\ m + k \in Nat /\ m + k \in 1..(m + n) /\ m + k > m
         /\ (m + 1) + n = m + n + 1 /\ m + n \in Nat /\ m + 0 + 1 = m + 1 /\ m + 0 = m
OBVIOUS

LEMMA SeqsJoined ==
  ASSUME NEW S, NEW s \in Seq(S), NEW t \in Seq(S), NEW m \in Nat, m = Len(s), NEW n \in Nat, n = Len(t)
  PROVE  /\ s \o t \in Seq(S) /\ Len(s \o t) = m + n
         /\ \A i \in 1..m : (s \o t)[i] = s[i]
         /\ \A i \in 1..(m + n) : i > m => (s \o t)[i] = t[i - m]
<1>1. \A i \in 1..(m + n) : (s \o t)[i] = IF i <= m THEN s[i] ELSE t[i - m]
  BY ConcatProperties
<1>2. s \o t \in Seq(S) /\ Len(s \o t) = m + n
  BY ConcatProperties
<1> QED
  BY <1>1, <1>2, Positions

LEMMA UpsertAppends ==
  ASSUME AuditTypeOK, LogsAreNumbered, NEW e \in AuditedIds, NEW record \in AuditRecords, UpsertExecution(e, record),
         Changes(audited[e], record) \in Seq(AuditKinds)
  PROVE  LET m == Len(auditLog[e])
             n == Len(Changes(audited[e], record))
         IN \E more \in Seq(AuditEntries) :
              /\ auditLog' = [auditLog EXCEPT ![e] = more]
              /\ nextSequence' = [nextSequence EXCEPT ![e] = m + n + 1]
              /\ Len(more) = m + n /\ \A i \in 1..m : more[i] = auditLog[e][i]
              /\ \A i \in 1..(m + n) : i > m =>
                   more[i] = AuditEntry(e, i, auditTime, Changes(audited[e], record)[i - m], audited[e], record)
<1> PICK kinds \in Seq(AuditKinds) : kinds = Changes(audited[e], record)
  OBVIOUS
<1> PICK m \in Nat, n \in Nat : m = Len(auditLog[e]) /\ n = Len(kinds)
  BY DEF AuditTypeOK
<1> DEFINE Appended(more) ==
      /\ auditLog' = [auditLog EXCEPT ![e] = more]
      /\ nextSequence' = [nextSequence EXCEPT ![e] = m + n + 1]
      /\ Len(more) = m + n /\ \A i \in 1..m : more[i] = auditLog[e][i]
      /\ \A i \in 1..(m + n) : i > m => more[i] = AuditEntry(e, i, auditTime, kinds[i - m], audited[e], record)
<1> SUFFICES \E more \in Seq(AuditEntries) : Appended(more)
  OBVIOUS
<1> PICK log \in Seq(AuditEntries), next \in Nat : log = auditLog[e] /\ next = nextSequence[e]
  BY DEF AuditTypeOK
<1>1. m = Len(log) /\ next = m + 1 /\ audited[e] \in AuditRecords \cup {Unrecorded} /\ auditTime \in Nat
  BY DEF AuditTypeOK, LogsAreNumbered
<1>2. CASE kinds = <<>>
  <2>1. n = 0 /\ nextSequence' = nextSequence /\ auditLog' = auditLog
    BY <1>2 DEF UpsertExecution
  <2>2. auditLog' = [auditLog EXCEPT ![e] = log] /\ nextSequence' = [nextSequence EXCEPT ![e] = next]
    BY <2>1 DEF AuditTypeOK
  <2>3. next = m + n + 1 /\ Len(log) = m + n
    BY <1>1, <2>1
  <2>4. \A i \in 1..(m + n) : ~(i > m)
    BY <2>1, Positions
  <2> QED
    BY <2>2, <2>3, <2>4
<1>3. CASE kinds # <<>>
  <2> DEFINE entries == [k \in DOMAIN kinds |->
                           [id |-> e, sequence |-> next + k - 1, at |-> auditTime, kind |-> kinds[k],
                            before |-> audited[e], after |-> record]]
  <2>1. /\ nextSequence' = [nextSequence EXCEPT ![e] = next + Len(entries)]
        /\ auditLog' = [auditLog EXCEPT ![e] = HistoryOrder(log \o entries)]
    BY <1>3 DEF UpsertExecution, NewSequence
  <2>2. DOMAIN kinds = 1..n /\ \A k \in 1..n : kinds[k] \in AuditKinds
    OBVIOUS
  <2>3. ASSUME NEW k \in 1..n
        PROVE  entries[k] = AuditEntry(e, m + k, auditTime, kinds[k], audited[e], record) /\ entries[k] \in AuditEntries
    <3>1. next + k - 1 = m + k /\ m + k \in Nat
      BY <1>1
    <3>2. entries[k] = AuditEntry(e, m + k, auditTime, kinds[k], audited[e], record)
      BY <2>2, <3>1 DEF AuditEntry
    <3>3. AuditEntry(e, m + k, auditTime, kinds[k], audited[e], record) \in AuditEntries
      BY <1>1, <2>2, <3>1 DEF AuditEntry, AuditEntries
    <3> QED
      BY <3>2, <3>3
  <2>4. entries \in [1..n -> AuditEntries]
    BY <2>2, <2>3
  <2> HIDE DEF entries
  <2>5. PICK made \in Seq(AuditEntries) : made = entries /\ Len(made) = n
    BY <2>4
  <2>6. ASSUME NEW k \in 1..n PROVE made[k].id = e /\ made[k].sequence = m + k /\ made[k].at = auditTime
    <3>1. made[k] = AuditEntry(e, m + k, auditTime, kinds[k], audited[e], record)
      BY <2>3, <2>5
    <3> QED
      BY <3>1 DEF AuditEntry
  <2>7. /\ \A i \in DOMAIN log : log[i].id = e /\ log[i].sequence = i /\ log[i].at <= auditTime
        /\ \A i, j \in DOMAIN log : i < j => log[i].at <= log[j].at
    BY DEF LogsAreNumbered
  <2>8. HistoryOrder(log \o made) = log \o made
    <3>1. \A i \in DOMAIN log : log[i].id = e /\ log[i].sequence = i /\ log[i].at <= auditTime
      BY <2>7
    <3>2. \A i, j \in DOMAIN log : i < j => log[i].at <= log[j].at
      BY <2>7
    <3>3. \A k \in DOMAIN made : made[k].id = e /\ made[k].sequence = Len(log) + k /\ made[k].at = auditTime
      BY <1>1, <2>5, <2>6
    <3> QED
      BY ONLY <3>1, <3>2, <3>3, <1>1, e \in AuditedIds, log \in Seq(AuditEntries),
              made \in Seq(AuditEntries), NumberedOnStays
  <2>9. PICK more \in Seq(AuditEntries) :
           /\ more = log \o made /\ Len(more) = m + n
           /\ \A i \in 1..m : more[i] = log[i]
           /\ \A i \in 1..(m + n) : i > m => more[i] = made[i - m]
    <3>1. m = Len(log) /\ n = Len(made)
      BY <1>1, <2>5
    <3> QED
      <4>1. log \o made \in Seq(AuditEntries) /\ Len(log \o made) = m + n
        BY ONLY <3>1, log \in Seq(AuditEntries), made \in Seq(AuditEntries), m \in Nat, n \in Nat, SeqsJoined
      <4>2. \A i \in 1..m : (log \o made)[i] = log[i]
        BY ONLY <3>1, log \in Seq(AuditEntries), made \in Seq(AuditEntries), m \in Nat, n \in Nat, SeqsJoined
      <4>3. \A i \in 1..(m + n) : i > m => (log \o made)[i] = made[i - m]
        BY ONLY <3>1, log \in Seq(AuditEntries), made \in Seq(AuditEntries), m \in Nat, n \in Nat, SeqsJoined
      <4> QED
        BY ONLY <4>1, <4>2, <4>3
  <2>10. ASSUME NEW i \in 1..(m + n), i > m
         PROVE  more[i] = AuditEntry(e, i, auditTime, kinds[i - m], audited[e], record)
    <3>1. i - m \in 1..n /\ m + (i - m) = i
      BY ONLY <2>10, m \in Nat, n \in Nat, i \in 1..(m + n)
    <3> QED
      BY <3>1, <2>3, <2>5, <2>9, <2>10
  <2>11. next + Len(entries) = m + n + 1
    <3>1. next + n = m + n + 1
      BY ONLY <1>1, m \in Nat, n \in Nat
    <3> QED
      BY <3>1, <2>5
  <2>12. auditLog' = [auditLog EXCEPT ![e] = more] /\ nextSequence' = [nextSequence EXCEPT ![e] = m + n + 1]
    BY <2>1, <2>5, <2>8, <2>9, <2>11
  <2> QED
    BY <2>9, <2>10, <2>12
<1> QED
  BY <1>2, <1>3

\* An upsert, seen from the history it leaves.
LEMMA UpsertKeeps ==
  ASSUME AuditIInv, NEW e \in AuditedIds, NEW record \in AuditRecords, UpsertExecution(e, record)
  PROVE  AuditIInv'
<1> USE DEF AuditIInv
<1> PICK prior \in AuditRecords \cup {Unrecorded}, log \in Seq(AuditEntries) : prior = audited[e] /\ log = auditLog[e]
  BY DEF AuditTypeOK
<1>1. PICK kinds \in Seq(AuditKinds) : /\ kinds = Changes(prior, record)
                                       /\ prior = Unrecorded => kinds = <<"created">>
                                       /\ prior # Unrecorded /\ kinds = <<>> => SameTrail(prior, record)
  BY ChangesTell
<1> PICK m \in Nat, n \in Nat : m = Len(log) /\ n = Len(kinds)
  OBVIOUS
<1>2. PICK more \in Seq(AuditEntries) :
           /\ auditLog' = [auditLog EXCEPT ![e] = more]
           /\ nextSequence' = [nextSequence EXCEPT ![e] = m + n + 1]
           /\ Len(more) = m + n /\ \A i \in 1..m : more[i] = log[i]
           /\ \A i \in 1..(m + n) : i > m => more[i] = AuditEntry(e, i, auditTime, kinds[i - m], prior, record)
  <2>1. kinds = Changes(audited[e], record) /\ Changes(audited[e], record) \in Seq(AuditKinds)
        /\ m = Len(auditLog[e])
    BY <1>1
  <2>2. PICK x \in Seq(AuditEntries) :
              /\ auditLog' = [auditLog EXCEPT ![e] = x]
              /\ nextSequence' = [nextSequence EXCEPT ![e] = Len(auditLog[e]) + Len(Changes(audited[e], record)) + 1]
              /\ Len(x) = Len(auditLog[e]) + Len(Changes(audited[e], record))
              /\ \A i \in 1..Len(auditLog[e]) : x[i] = auditLog[e][i]
              /\ \A i \in 1..(Len(auditLog[e]) + Len(Changes(audited[e], record))) : i > Len(auditLog[e]) =>
                   x[i] = AuditEntry(e, i, auditTime, Changes(audited[e], record)[i - Len(auditLog[e])], audited[e], record)
    BY <2>1, UpsertAppends
  <2>3. auditLog' = [auditLog EXCEPT ![e] = x] /\ nextSequence' = [nextSequence EXCEPT ![e] = m + n + 1] /\ Len(x) = m + n
    BY <2>1, <2>2
  <2>4. \A i \in 1..m : x[i] = log[i]
    BY <2>1, <2>2
  <2>5. \A i \in 1..(m + n) : i > m => x[i] = AuditEntry(e, i, auditTime, kinds[i - m], prior, record)
    BY <2>1, <2>2
  <2> QED
    BY <2>3, <2>4, <2>5
<1>3. auditTime' = auditTime /\ auditReader' = auditReader /\ audited' = [audited EXCEPT ![e] = record]
  BY DEF UpsertExecution
<1>4. AuditTypeOK'
  BY <1>2, <1>3 DEF AuditTypeOK
<1>5. auditLog'[e] = more /\ audited'[e] = record /\ nextSequence'[e] = m + n + 1
  BY <1>2, <1>3 DEF AuditTypeOK
<1>6. \A d \in AuditedIds : d # e => auditLog'[d] = auditLog[d] /\ audited'[d] = audited[d] /\ nextSequence'[d] = nextSequence[d]
  BY <1>2, <1>3 DEF AuditTypeOK
<1>7. DOMAIN more = 1..(m + n) /\ DOMAIN log = 1..m /\ \A i \in 1..(m + n) : i > m \/ i \in 1..m
  BY <1>2
<1>8. /\ \A i \in 1..m : more[i].id = e /\ more[i].sequence = i /\ more[i].at <= auditTime
      /\ \A i, j \in 1..m : i < j => more[i].at <= more[j].at
  <2>1. /\ \A i \in 1..m : log[i].id = e /\ log[i].sequence = i /\ log[i].at <= auditTime
        /\ \A i, j \in 1..m : i < j => log[i].at <= log[j].at
    BY <1>7 DEF LogsAreNumbered
  <2>2. \A i \in 1..m : more[i] = log[i]
    BY <1>2
  <2> QED
    BY ONLY <2>1, <2>2
<1>9. \A i \in 1..(m + n) : i > m =>
        /\ more[i].id = e /\ more[i].sequence = i /\ more[i].at = auditTime /\ more[i].before = prior /\ more[i].after = record
        /\ more[i].kind = kinds[i - m]
  <2> SUFFICES ASSUME NEW i \in 1..(m + n), i > m
               PROVE  /\ more[i].id = e /\ more[i].sequence = i /\ more[i].at = auditTime /\ more[i].before = prior
                      /\ more[i].after = record /\ more[i].kind = kinds[i - m]
    OBVIOUS
  <2>1. more[i] = AuditEntry(e, i, auditTime, kinds[i - m], prior, record)
    BY <1>2
  <2> QED
    BY <2>1 DEF AuditEntry
<1>10. auditTime \in Nat
  BY DEF AuditTypeOK
<1>11. LogsAreNumbered'
  <2>1. /\ nextSequence'[e] = Len(more) + 1
        /\ \A i \in DOMAIN more : more[i].id = e /\ more[i].sequence = i
        /\ \A i \in DOMAIN more : more[i].at <= auditTime
    BY <1>2, <1>5, <1>7, <1>8, <1>9, <1>10
  <2>2. ASSUME NEW i \in DOMAIN more, NEW j \in DOMAIN more, i < j PROVE more[i].at <= more[j].at
    <3>1. CASE j \in 1..m
      <4>1. i \in 1..m
        BY <2>2, <3>1, <1>7
      <4> QED
        BY <4>1, <3>1, <1>8, <2>2
    <3>2. CASE j > m
      BY <3>2, <2>1, <1>7, <1>9
    <3> QED
      BY <3>1, <3>2, <1>7
  <2> DEFINE Numbered(l, next, moment, d) ==
        /\ next = Len(l) + 1
        /\ \A i \in DOMAIN l : l[i].id = d /\ l[i].sequence = i
        /\ \A i \in DOMAIN l : l[i].at <= moment
        /\ \A i, j \in DOMAIN l : i < j => l[i].at <= l[j].at
  <2>3. \A d \in AuditedIds : Numbered(auditLog[d], nextSequence[d], auditTime, d)
    BY DEF LogsAreNumbered
  <2>4. Numbered(more, m + n + 1, auditTime, e)
    BY <2>1, <2>2, <1>5
  <2>5. ASSUME NEW d \in AuditedIds PROVE Numbered(auditLog'[d], nextSequence'[d], auditTime', d)
    <3> HIDE DEF Numbered
    <3>1. CASE d = e
      BY <3>1, <2>4, <1>3, <1>5
    <3>2. CASE d # e
      BY <3>2, <2>3, <1>3, <1>6
    <3> QED
      BY <3>1, <3>2
  <2> QED
    BY <2>5 DEF LogsAreNumbered
<1>12. LogsFollow'
  <2> DEFINE Led(l, a) ==
        /\ l = <<>> <=> a = Unrecorded
        /\ l # <<>> => l[1].kind = "created" /\ SameTrail(l[Len(l)].after, a)
        /\ \A i \in DOMAIN l : i # 1 => Follows(l[i - 1], l[i])
  <2>1. \A d \in AuditedIds : Led(auditLog[d], audited[d])
    BY DEF LogsFollow
  <2>2. Led(log, prior)
    BY <2>1
  <2>3. record # Unrecorded /\ SameTrail(record, record)
    BY AuditAssumption, TrailsChain
  <2>4. \A x \in AuditEntries : x.after \in AuditRecords
    BY DEF AuditEntries
  <2>5. Led(more, record)
    <3>1. m = 0 => n = 1 /\ kinds[1] = "created"
      <4>1. m = 0 => log = <<>>
        BY EmptySeq
      <4>2. m = 0 => kinds = <<"created">>
        BY <4>1, <1>1, <2>2
      <4>3. Len(<<"created">>) = 1 /\ <<"created">>[1] = "created"
        OBVIOUS
      <4> QED
        BY <4>2, <4>3
    <3>2. more # <<>>
      BY <3>1, <1>2
    <3>3. more[1].kind = "created"
      <4>1. CASE m = 0
        <5>1. 1 \in 1..(m + n) /\ 1 > m /\ 1 - m = 1
          <6>1. n = 1
            BY <4>1, <3>1
          <6> QED
            BY <4>1, <6>1
        <5> QED
          BY <5>1, <4>1, <3>1, <1>9
      <4>2. CASE m # 0
        <5>1. 1 \in 1..m /\ log # <<>>
          BY <4>2
        <5> QED
          BY <5>1, <2>2, <1>2
      <4> QED
        BY <4>1, <4>2
    <3>4. m # 0 => log # <<>> /\ log[m] \in AuditEntries /\ prior # Unrecorded /\ prior \in AuditRecords
                   /\ SameTrail(log[m].after, prior) /\ more[m] = log[m]
      <4>1. m # 0 => m \in 1..m /\ log # <<>>
        OBVIOUS
      <4>2. m # 0 => log[m] \in AuditEntries /\ more[m] = log[m]
        BY <4>1, <1>2
      <4>3. m # 0 => prior # Unrecorded /\ SameTrail(log[m].after, prior)
        BY <4>1, <2>2
      <4> QED
        BY <4>2, <4>3
    <3>5. SameTrail(more[Len(more)].after, record)
      <4>1. CASE n # 0
        <5>1. m + n \in 1..(m + n) /\ m + n > m
          BY <4>1
        <5> QED
          BY <5>1, <2>3, <1>2, <1>9
      <4>2. CASE n = 0
        <5>1. m # 0 /\ kinds = <<>> /\ Len(more) = m
          <6>1. m # 0
            BY <4>2, <3>1
          <6>2. kinds = <<>>
            BY <4>2, EmptySeq
          <6> QED
            BY <6>1, <6>2, <4>2, <1>2, Positions
        <5>2. SameTrail(prior, record)
          BY <5>1, <3>4, <1>1
        <5> QED
          BY <5>1, <5>2, <3>4, <2>4, TrailsChain
      <4> QED
        BY <4>1, <4>2
    <3>6. ASSUME NEW i \in DOMAIN more, i # 1 PROVE Follows(more[i - 1], more[i])
      <4>1. i \in 1..(m + n) /\ i - 1 \in 1..(m + n)
        BY <3>6, <1>7
      <4>2. CASE i \in 1..m
        <5>1. i - 1 \in 1..m
          BY <4>2, <3>6
        <5> QED
          BY <5>1, <4>2, <3>6, <2>2, <1>2, <1>7
      <4>3. CASE i > m /\ i - 1 > m
        BY <4>1, <4>3, <1>9 DEF Follows
      <4>4. CASE i > m /\ ~(i - 1 > m)
        <5>1. i - 1 = m /\ m # 0
          BY <4>1, <4>4, <3>6
        <5> QED
          BY <5>1, <4>1, <4>4, <3>4, <1>9 DEF Follows
      <4> QED
        BY <4>1, <4>2, <4>3, <4>4, <1>7
    <3> QED
      BY <3>2, <3>3, <3>5, <3>6, <2>3
  <2>6. \A d \in AuditedIds : Led(auditLog[d], audited[d])'
    <3> SUFFICES ASSUME NEW d \in AuditedIds PROVE Led(auditLog'[d], audited'[d])
      OBVIOUS
    <3>1. CASE d = e
      <4> HIDE DEF Led
      <4> QED
        BY <3>1, <2>5, <1>5
    <3>2. CASE d # e
      <4> HIDE DEF Led
      <4> QED
        BY <3>2, <2>1, <1>6
    <3> QED
      BY <3>1, <3>2
  <2> QED
    BY <2>6 DEF LogsFollow
<1>13. PagesFollow(auditReader, Filtered(auditReader.of))' /\ PagesAreWhole(auditReader, Filtered(auditReader.of))'
  <2> PICK r \in AuditReaders : r = auditReader
    BY DEF AuditTypeOK
  <2>1. r.of \in SUBSET AuditedIds /\ r.since \in Nat /\ r.since <= auditTime
    BY DEF AuditReaders
  <2> PICK of \in SUBSET AuditedIds, since \in Nat : of = r.of /\ since = r.since
    BY <2>1
  <2> PICK logs, grown : logs = auditLog /\ grown = auditLog'
    OBVIOUS
  <2>2. LogsAreOwn(logs) /\ Filtered(of) = Together(logs, of) /\ Together(logs, of) \in Seq(AuditEntries)
    BY HistoriesOf
  <2>3. LogsAreOwn(grown)
    BY <1>4, <1>11 DEF AuditTypeOK, LogsAreNumbered, LogsAreOwn
  <2>4. Filtered(of)' = Together(grown, of)
    BY DEF Filtered, Together
  <2>5. ASSUME NEW d \in AuditedIds
        PROVE  /\ ToSet(logs[d]) \subseteq ToSet(grown[d])
               /\ \A x \in ToSet(grown[d]) : x \in ToSet(logs[d]) \/ x.at >= since
    <3>1. CASE d # e
      BY <3>1, <1>6
    <3>2. CASE d = e
      <4>1. ToSet(logs[d]) = {log[i] : i \in 1..m} /\ ToSet(grown[d]) = {more[i] : i \in 1..(m + n)}
        BY <3>2, <1>5, <1>7 DEF ToSet
      <4>2. \A i \in 1..m : i \in 1..(m + n) /\ more[i] = log[i]
        BY <1>2
      <4>3. \A i \in 1..(m + n) : i \in 1..m \/ more[i].at >= since
        BY <2>1, <1>7, <1>9, <1>10
      <4> QED
        BY SMTT(30), <4>1, <4>2, <4>3
    <3> QED
      BY <3>1, <3>2
  <2>6. /\ Len(Together(logs, of)) <= Len(Together(grown, of))
        /\ \A k \in OldIn(Together(logs, of), since) :
              k \in OldIn(Together(grown, of), since) /\ Together(grown, of)[k] = Together(logs, of)[k]
        /\ \A k \in OldIn(Together(grown, of), since) : k \in OldIn(Together(logs, of), since)
    BY ONLY <2>2, <2>3, <2>5, of \in SUBSET AuditedIds, since \in Nat, TogetherGrows
  <2>7. Together(grown, of) \in Seq(AuditEntries)
    BY <2>3, TogetherSorted
  <2>8. PagesFollow(r, Together(logs, of)) /\ PagesAreWhole(r, Together(logs, of))
    BY <2>2
  <2>9. PagesFollow(r, Together(grown, of)) /\ PagesAreWhole(r, Together(grown, of))
    BY <2>2, <2>6, <2>7, <2>8, PagesKept
  <2> QED
    BY <2>4, <2>9, <1>3
<1> QED
  BY <1>3, <1>4, <1>11, <1>12, <1>13

LEMMA QueryKeeps ==
  ASSUME AuditIInv, NEW r \in AuditReaders, PagesFollow(r, Filtered(r.of)), r.since <= auditTime, QueryHistory(r),
         UNCHANGED <<auditTime, audited, nextSequence, auditLog, upserts>>
  PROVE  AuditIInv'
<1> USE DEF AuditIInv
<1>1. PICK of \in SUBSET AuditedIds : of = r.of
  BY DEF AuditReaders
<1>2. PICK all \in Seq(AuditEntries) : all = Filtered(of)
  BY HistoriesOf
<1>3. /\ auditReader'.of = of /\ auditReader'.since = r.since /\ auditReader' \in AuditReaders
      /\ PagesFollow(auditReader', all) /\ PagesAreWhole(auditReader', all)
  <2>1. auditReader' = Paged(r, all)
    BY <1>1, <1>2, Zenon DEF QueryHistory, Paged, PageEnd
  <2>2. PagesFollow(r, all)
    BY <1>1, <1>2
  <2>3. /\ Paged(r, all) \in AuditReaders /\ Paged(r, all).of = r.of /\ Paged(r, all).since = r.since
        /\ PagesFollow(Paged(r, all), all) /\ PagesAreWhole(Paged(r, all), all)
    BY <2>2, PageRead
  <2> QED
    BY <1>1, <2>1, <2>3
<1>4. AuditTypeOK'
  BY <1>3 DEF AuditTypeOK
<1>5. LogsAreNumbered' /\ LogsFollow'
  BY DEF LogsAreNumbered, LogsFollow
<1>6. Filtered(auditReader.of)' = all
  <2>1. Filtered(auditReader.of)' = Filtered(auditReader'.of)
    BY DEF Filtered
  <2> QED
    BY <2>1, <1>2, <1>3
<1> QED
  BY <1>3, <1>4, <1>5, <1>6

LEMMA AuditStarts == AuditInit => AuditIInv
<1> SUFFICES ASSUME AuditInit PROVE AuditIInv
  OBVIOUS
<1>1. NoReader \in AuditReaders /\ NoReader.seen = <<>> /\ NoReader.cursor = 0 /\ NoReader.since = 0 /\ NoReader.of = {}
      /\ ~NoReader.more
  BY DEF NoReader, AuditReaders
<1>2. AuditTypeOK
  BY <1>1 DEF AuditInit, AuditTypeOK
<1>3. LogsAreNumbered /\ LogsFollow
  BY DEF AuditInit, LogsAreNumbered, LogsFollow
<1>4. Filtered({}) \in Seq(AuditEntries) /\ \A k \in DOMAIN Filtered({}) : Filtered({})[k] \in AuditEntries
  BY <1>2, <1>3, HistoriesOf
<1>5. OldIn(Filtered({}), 0) = {}
  <2>1. \A x \in AuditEntries : ~(x.at < 0)
    BY DEF AuditEntries
  <2> QED
    BY <1>4, <2>1 DEF OldIn
<1>6. OldIn(<<>>, 0) = {} /\ Len(<<>>) = 0 /\ 0 <= Len(Filtered({}))
  BY <1>4 DEF OldIn
<1>7. PagesFollow(NoReader, Filtered({})) /\ PagesAreWhole(NoReader, Filtered({}))
  BY <1>1, <1>5, <1>6 DEF PagesFollow, PagesAreWhole
<1> QED
  BY <1>1, <1>2, <1>3, <1>7 DEF AuditIInv, AuditInit

LEMMA AuditSteps == AuditIInv /\ [AuditNext]_auditVars => AuditIInv'
<1> SUFFICES ASSUME AuditIInv, [AuditNext]_auditVars PROVE AuditIInv'
  OBVIOUS
<1>1. AuditTypeOK /\ LogsAreNumbered /\ auditReader \in AuditReaders /\ auditTime \in Nat
  BY DEF AuditIInv, AuditTypeOK
<1>2. CASE \E e \in AuditedIds, record \in AuditRecords : UpsertExecution(e, record)
  BY <1>2, UpsertKeeps
<1>3. CASE AuditTick
  <2>1. /\ auditTime' = auditTime + 1 /\ audited' = audited /\ nextSequence' = nextSequence
        /\ auditLog' = auditLog /\ auditReader' = auditReader
    BY <1>3 DEF AuditTick
  <2>2. AuditTypeOK' /\ LogsFollow'
    BY <2>1 DEF AuditIInv, AuditTypeOK, LogsFollow
  <2>3. LogsAreNumbered'
    <3> SUFFICES ASSUME NEW e \in AuditedIds, NEW i \in DOMAIN auditLog[e] PROVE auditLog[e][i].at <= auditTime + 1
      BY <1>1, <2>1 DEF LogsAreNumbered
    <3>1. auditLog[e][i].at <= auditTime /\ auditLog[e][i] \in AuditEntries
      BY <1>1 DEF LogsAreNumbered, AuditTypeOK
    <3> QED
      BY <3>1, <1>1 DEF AuditEntries
  <2>4. Filtered(auditReader.of)' = Filtered(auditReader.of)
    BY <2>1 DEF Filtered
  <2>5. auditReader.since <= auditTime + 1
    BY <1>1 DEF AuditIInv, AuditReaders
  <2> QED
    BY <2>1, <2>2, <2>3, <2>4, <2>5 DEF AuditIInv
<1>4. ASSUME NEW of \in {AuditedIds} \cup {{e} : e \in AuditedIds}, BeginReading(of) PROVE AuditIInv'
  <2> PICK r : r = [NoReader EXCEPT !.of = of, !.since = auditTime]
    OBVIOUS
  <2>1. of \in SUBSET AuditedIds
    OBVIOUS
  <2>2. r = [of |-> of, since |-> auditTime, cursor |-> 0, seen |-> <<>>, more |-> FALSE]
    BY DEF NoReader
  <2>3. r \in AuditReaders /\ r.of = of /\ r.since = auditTime /\ r.cursor = 0 /\ r.seen = <<>>
    BY ONLY <1>1, <2>1, <2>2, AuditAssumption DEF AuditReaders
  <2>4. Filtered(of) \in Seq(AuditEntries) /\ OldIn(<<>>, auditTime) = {} /\ DOMAIN <<>> = {} /\ Len(<<>>) = 0
    BY <1>1, <2>1, HistoriesOf DEF OldIn
  <2>5. PagesFollow(r, Filtered(of))
    BY <2>3, <2>4 DEF PagesFollow
  <2>6. QueryHistory(r) /\ UNCHANGED <<auditTime, audited, nextSequence, auditLog, upserts>>
    BY <1>4 DEF BeginReading
  <2>7. r.since <= auditTime
    BY <1>1, <2>3
  <2> QED
    BY <2>3, <2>5, <2>6, <2>7, QueryKeeps
<1>5. CASE ReadOn
  <2>1. QueryHistory(auditReader) /\ UNCHANGED <<auditTime, audited, nextSequence, auditLog, upserts>>
    BY <1>5 DEF ReadOn
  <2>2. PagesFollow(auditReader, Filtered(auditReader.of)) /\ auditReader.since <= auditTime
    BY DEF AuditIInv
  <2> PICK r \in AuditReaders : r = auditReader
    BY <1>1
  <2> QED
    BY <2>1, <2>2, QueryKeeps
<1>6. CASE UNCHANGED auditVars
  <2>1. Filtered(auditReader.of)' = Filtered(auditReader.of)
    BY <1>6 DEF Filtered, auditVars
  <2> QED
    BY <1>6, <2>1 DEF AuditIInv, AuditTypeOK, LogsAreNumbered, LogsFollow, auditVars
<1> QED
  BY <1>2, <1>3, <1>4, <1>5, <1>6 DEF AuditNext

(* The invariant says of an entry found by its number what the property asks *)
(* of it.                                                                    *)
LEMMA AuditTrailFollows == AuditIInv => AuditTrailIsComplete
<1> SUFFICES ASSUME AuditIInv PROVE AuditTrailIsComplete
  OBVIOUS
<1>1. ASSUME NEW e \in AuditedIds
      PROVE  LET log == auditLog[e]
                 At(n) == log[CHOOSE i \in DOMAIN log : log[i].sequence = n]
             IN /\ {log[i].sequence : i \in DOMAIN log} = 1 .. Len(log)
                /\ log # <<>> => /\ At(1).kind = "created"
                                 /\ SameTrail(At(Len(log)).after, audited[e])
                /\ \A n \in 2 .. Len(log) :
                     \/ At(n).before = At(n - 1).before /\ At(n).after = At(n - 1).after
                     \/ SameTrail(At(n - 1).after, At(n).before)
  <2> DEFINE log == auditLog[e]
             At(n) == log[CHOOSE i \in DOMAIN log : log[i].sequence = n]
  <2>1. log \in Seq(AuditEntries)
    BY DEF AuditIInv, AuditTypeOK
  <2>2. \A i \in DOMAIN log : log[i].sequence = i
    BY DEF AuditIInv, LogsAreNumbered
  <2>3. \A n \in DOMAIN log : At(n) = log[n]
    BY <2>2
  <2>4. /\ log # <<>> => log[1].kind = "created" /\ SameTrail(log[Len(log)].after, audited[e])
        /\ \A n \in DOMAIN log : n # 1 => Follows(log[n - 1], log[n])
    BY DEF AuditIInv, LogsFollow
  <2> HIDE DEF log, At
  <2>5. DOMAIN log = 1..Len(log) /\ Len(log) \in Nat /\ (log # <<>> => Len(log) # 0)
    BY <2>1, EmptySeq
  <2>6. {log[i].sequence : i \in DOMAIN log} = 1..Len(log)
    BY <2>2, <2>5
  <2>7. log # <<>> => At(1).kind = "created" /\ SameTrail(At(Len(log)).after, audited[e])
    <3>1. log # <<>> => 1 \in DOMAIN log /\ Len(log) \in DOMAIN log
      BY <2>5
    <3> QED
      BY <3>1, <2>3, <2>4
  <2>8. ASSUME NEW n \in 2..Len(log)
        PROVE  \/ At(n).before = At(n - 1).before /\ At(n).after = At(n - 1).after
               \/ SameTrail(At(n - 1).after, At(n).before)
    <3>1. n \in DOMAIN log /\ n - 1 \in DOMAIN log /\ n # 1
      BY <2>5
    <3>2. At(n) = log[n] /\ At(n - 1) = log[n - 1] /\ Follows(log[n - 1], log[n])
      BY <3>1, <2>3, <2>4
    <3> QED
      BY <3>2 DEF Follows
  <2> QED
    BY <2>6, <2>7, <2>8 DEF log, At
<1>2. LET all == Filtered(auditReader.of)
          seen == auditReader.seen
          Old(entries) == {k \in DOMAIN entries : entries[k].at < auditReader.since}
      IN /\ \A k \in Old(seen) : k \in Old(all) /\ seen[k] = all[k]
         /\ \A k \in Old(all) : k \in DOMAIN seen => seen[k] = all[k]
         /\ auditReader # NoReader /\ ~auditReader.more => Old(all) \subseteq DOMAIN seen
  <2>1. PICK all : all = Filtered(auditReader.of)
    OBVIOUS
  <2>2. PagesFollow(auditReader, all) /\ PagesAreWhole(auditReader, all)
    BY <2>1 DEF AuditIInv
  <2>3. /\ \A k \in OldIn(auditReader.seen, auditReader.since) :
             k \in OldIn(all, auditReader.since) /\ auditReader.seen[k] = all[k]
        /\ \A k \in OldIn(all, auditReader.since) : k \in DOMAIN auditReader.seen => auditReader.seen[k] = all[k]
        /\ ~auditReader.more => OldIn(all, auditReader.since) \subseteq DOMAIN auditReader.seen
    BY <2>2 DEF PagesFollow, PagesAreWhole
  <2> QED
    BY <2>1, <2>3, Zenon DEF OldIn
<1> QED
  BY <1>1, <1>2 DEF AuditTrailIsComplete

(* The history of every execution is numbered without a gap and leads from   *)
(* its creation to the record that is stored, and who pages through it while *)
(* it grows misses nothing that was recorded before the first page           *)
(* (runtimeAuditProjections.ts:230-341, 389-419).                            *)
THEOREM HistoriesAreComplete == AuditSpec => []AuditTrailIsComplete
<1>1. AuditIInv => AuditTrailIsComplete
  BY AuditTrailFollows
<1> QED
  BY <1>1, AuditStarts, AuditSteps, PTL DEF AuditSpec
=============================================================================
