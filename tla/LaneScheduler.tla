---------------------------- MODULE LaneScheduler ----------------------------
(***************************************************************************)
(* The lane scheduler of packages/projection-worker-core                   *)
(* (targetLaneScheduler.ts), which serialises the work of one process per  *)
(* source and per target document.  run(keys, operation) reserves every    *)
(* key synchronously by chaining onto the tail promise of the key's lane,  *)
(* waits for all previous holders, runs the operation, and releases all    *)
(* its lanes in one callback; a lane nobody holds is dropped from the map. *)
(*                                                                         *)
(* A lane is an object: it is created when a key has none and forgotten    *)
(* when the map drops it, while a run keeps the objects it reserved.  The  *)
(* objects of a key are told apart by a member of Objects, so that a run   *)
(* holding a lane the map has dropped would be a state of this module.     *)
(***************************************************************************)
EXTENDS Integers, FiniteSets

CONSTANTS
  Runs,      \* calls of run() in progress; a settled one may be made again
  Keys,      \* lane keys
  Objects,   \* identities of the lane objects of one key
  NoLane,    \* `undefined`
  Resolved   \* a promise that has been resolved

ASSUME LanesAssumption ==
  /\ IsFiniteSet(Runs)
  /\ NoLane \notin Objects
  /\ Resolved \notin Runs

VARIABLES
  lanes,     \* lanes[k]: the lane object the map has for the key, or NoLane
  tail,      \* tail[k][o]: the run whose promise ends the chain, or Resolved
  pending,   \* pending[k][o]: reservations not yet released
  held,      \* held[r][k]: the lane object the run reserved, or NoLane
  previous,  \* previous[r][k]: the run whose promise r awaits, or Resolved
  state,     \* state[r]: idle, waiting or running
  before     \* history: <<x, r>> if x was called before r, both unsettled

vars == <<lanes, tail, pending, held, previous, state, before>>

States == {"idle", "waiting", "running"}

TypeOK ==
  /\ lanes \in [Keys -> Objects \cup {NoLane}]
  /\ tail \in [Keys -> [Objects -> Runs \cup {Resolved}]]
  /\ pending \in [Keys -> [Objects -> Nat]]
  /\ held \in [Runs -> [Keys -> Objects \cup {NoLane}]]
  /\ previous \in [Runs -> [Keys -> Runs \cup {Resolved}]]
  /\ state \in [Runs -> States]
  /\ before \in SUBSET (Runs \X Runs)

Init ==
  /\ lanes = [k \in Keys |-> NoLane]
  /\ tail = [k \in Keys |-> [o \in Objects |-> Resolved]]
  /\ pending = [k \in Keys |-> [o \in Objects |-> 0]]
  /\ held = [r \in Runs |-> [k \in Keys |-> NoLane]]
  /\ previous = [r \in Runs |-> [k \in Keys |-> Resolved]]
  /\ state = [r \in Runs |-> "idle"]
  /\ before = {}

-----------------------------------------------------------------------------
Active == {r \in Runs : state[r] # "idle"}
KeysOf(r) == {k \in Keys : held[r][k] # NoLane}
Holders(k) == {r \in Runs : held[r][k] # NoLane}

\* An object no one can reach any more, or that was never created.
Unused(k, o) == lanes[k] # o /\ \A r \in Runs : held[r][k] # o

\* The lane of each key in ks: the one in the map or a fresh object.
LaneOf(k, fresh) == IF lanes[k] = NoLane THEN fresh[k] ELSE lanes[k]

\* Mutant of PreviousOf: a reservation waits for no one.
PreviousUnchained(k) == Resolved

\* The promise a new reservation of the key waits for.
PreviousOf(k) == IF lanes[k] = NoLane THEN Resolved ELSE tail[k][lanes[k]]

\* The counter of the lane with the new reservation.
Counted(k, o) == (IF lanes[k] = NoLane THEN 0 ELSE pending[k][o]) + 1

\* reserve() of every key, in one synchronous step of run().
Reserve(r, ks, fresh) ==
  /\ \A k \in ks : lanes[k] = NoLane => Unused(k, fresh[k])
  /\ lanes' = [k \in Keys |-> IF k \in ks THEN LaneOf(k, fresh) ELSE lanes[k]]
  /\ tail' = [k \in Keys |-> [o \in Objects |->
                IF k \in ks /\ o = LaneOf(k, fresh) THEN r ELSE tail[k][o]]]
  /\ pending' = [k \in Keys |-> [o \in Objects |->
                   IF k \in ks /\ o = LaneOf(k, fresh)
                   THEN Counted(k, o) ELSE pending[k][o]]]
  /\ held' = [held EXCEPT ![r] =
                [k \in Keys |-> IF k \in ks THEN LaneOf(k, fresh) ELSE NoLane]]
  /\ previous' = [previous EXCEPT ![r] =
                    [k \in Keys |-> IF k \in ks THEN PreviousOf(k) ELSE Resolved]]

\* run(keys, operation) is called.
Call(r, ks) ==
  /\ state[r] = "idle"
  /\ \E fresh \in [Keys -> Objects] : Reserve(r, ks, fresh)
  /\ state' = [state EXCEPT ![r] = "waiting"]
  /\ before' = before \cup (Active \X {r})

\* Mutant of Start: a run waits for some of its lanes, not for all.
StartOnAny(r) ==
  /\ state[r] = "waiting"
  /\ KeysOf(r) = {} \/ \E k \in KeysOf(r) : previous[r][k] = Resolved
  /\ state' = [state EXCEPT ![r] = "running"]
  /\ UNCHANGED <<lanes, tail, pending, held, previous, before>>

\* Every awaited promise is resolved and the operation begins.
Start(r) ==
  /\ state[r] = "waiting"
  /\ \A k \in KeysOf(r) : previous[r][k] = Resolved
  /\ state' = [state EXCEPT ![r] = "running"]
  /\ UNCHANGED <<lanes, tail, pending, held, previous, before>>

\* Mutant of Dropped: a lane is dropped while others wait in it.
DroppedEagerly(r) == {k \in KeysOf(r) : lanes[k] = held[r][k]}

\* The lanes the run is the last to hold.
Dropped(r) ==
  {k \in KeysOf(r) : pending[k][held[r][k]] = 1 /\ lanes[k] = held[r][k]}

\* Mutant of Resolve: the promise of the run is never resolved.
ResolveNothing(r) == UNCHANGED <<tail, previous>>

\* The promise of the run is resolved, wherever it is kept.
Resolve(r) ==
  /\ tail' = [k \in Keys |-> [o \in Objects |->
                IF tail[k][o] = r THEN Resolved ELSE tail[k][o]]]
  /\ previous' = [x \in Runs |-> [k \in Keys |->
                    IF previous[x][k] = r THEN Resolved ELSE previous[x][k]]]

\* The operation settles, with a value or an error, and finally() releases
\* every lane in one callback.
Settle(r) ==
  /\ state[r] = "running"
  /\ pending' = [k \in Keys |-> [o \in Objects |->
                   IF held[r][k] = o THEN pending[k][o] - 1 ELSE pending[k][o]]]
  /\ Resolve(r)
  /\ lanes' = [k \in Keys |-> IF k \in Dropped(r) THEN NoLane ELSE lanes[k]]
  /\ held' = [held EXCEPT ![r] = [k \in Keys |-> NoLane]]
  /\ state' = [state EXCEPT ![r] = "idle"]
  /\ before' = {p \in before : p[1] # r /\ p[2] # r}

Next == \E r \in Runs :
  \/ \E ks \in SUBSET Keys : Call(r, ks)
  \/ Start(r)
  \/ Settle(r)

Spec == Init /\ [][Next]_vars

\* A resolved promise chain runs its continuation, and every operation the
\* coordinator puts on a lane settles.
FairSpec == Spec /\ \A r \in Runs : WF_vars(Start(r)) /\ WF_vars(Settle(r))

-----------------------------------------------------------------------------
(* The operation of a run overlaps no operation called before it that      *)
(* shares a key, however many keys each of them reserved and in whatever    *)
(* order they settle (targetLaneScheduler.ts:48-54).  As any two active     *)
(* runs are ordered, no two operations on one key overlap at all.           *)
FifoExclusion ==
  \A x, r \in Runs :
    <<x, r>> \in before /\ state[r] = "running" => KeysOf(x) \cap KeysOf(r) = {}

(* The map holds a lane for exactly the keys somebody has reserved, and it  *)
(* is the object they all reserved: no lane leaks, and no run is left in a  *)
(* lane that newcomers do not see (targetLaneScheduler.ts:37-45).           *)
LanesAreShared ==
  \A k \in Keys :
    /\ (lanes[k] = NoLane) <=> (Holders(k) = {})
    /\ \A r \in Holders(k) : held[r][k] = lanes[k]

(* Conjuncts that make the two properties inductive: active runs are        *)
(* totally ordered by their calls; the counter of a live lane counts its    *)
(* holders; the chain of a lane ends in its youngest holder, and each       *)
(* holder awaits the next older one.                                        *)
CallsAreOrdered ==
  /\ before \subseteq Active \X Active
  /\ \A x, y \in Active : x # y => (<<x, y>> \in before \/ <<y, x>> \in before)
  /\ \A x, y \in Runs : <<x, y>> \in before => <<y, x>> \notin before
  /\ \A x, y, z \in Runs :
       <<x, y>> \in before /\ <<y, z>> \in before => <<x, z>> \in before

IdleHoldsNothing ==
  \A r \in Runs : state[r] = "idle" => KeysOf(r) = {}

PendingCountsHolders ==
  \A k \in Keys : lanes[k] # NoLane => pending[k][lanes[k]] = Cardinality(Holders(k))

TailIsYoungest ==
  \A k \in Keys : lanes[k] # NoLane =>
    LET t == tail[k][lanes[k]] IN
    /\ t \in Holders(k)
    /\ \A x \in Holders(k) : x # t => <<x, t>> \in before

PreviousIsNextOlder ==
  \A k \in Keys : \A r \in Holders(k) :
    LET p == previous[r][k] IN
    IF p = Resolved
    THEN \A x \in Holders(k) : <<x, r>> \notin before
    ELSE /\ p \in Holders(k) /\ <<p, r>> \in before
         /\ \A x \in Holders(k) :
              x # p /\ <<x, r>> \in before => <<x, p>> \in before

IInv ==
  /\ TypeOK
  /\ FifoExclusion
  /\ LanesAreShared
  /\ CallsAreOrdered
  /\ IdleHoldsNothing
  /\ PendingCountsHolders
  /\ TailIsYoungest
  /\ PreviousIsNextOlder

(* The scheduler is a FIFO lock manager: every step is one of FifoLanes, in *)
(* which a run waits for exactly the older runs it shares a key with.       *)
Promise == INSTANCE FifoLanes WITH keys <- [r \in Runs |-> KeysOf(r)]
ImplementsFifoLanes == Promise!Spec

(* Every call of run() gets to run its operation.                           *)
EveryRunStarts == \A r \in Runs : state[r] = "waiting" ~> state[r] = "running"
=============================================================================
