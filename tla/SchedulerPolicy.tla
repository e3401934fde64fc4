--------------------------- MODULE SchedulerPolicy ---------------------------
(***************************************************************************)
(* evaluateSchedulerPolicy(): which of the due triggers of several tenants  *)
(* run now.  Every round credits the tenants that may still run with their  *)
(* weight and picks from the one with the most credit, unless one has been  *)
(* passed over too often.  A candidate is its rank (priority, run time and  *)
(* ids put together; lower is better); tenants are numbered as their ids    *)
(* sort.                                                                    *)
(***************************************************************************)
EXTENDS Integers, Sequences, SequencesExt, FiniteSets, FiniteSetsExt

CONSTANTS
  Tenants, Weights, QueueLengths, Limits, FirstRanks, Capacities,
  Unlimited  \* Number.POSITIVE_INFINITY, above every number of candidates

ASSUME PolicyAssumption ==
  /\ IsFiniteSet(Tenants) /\ Tenants = 1 .. Cardinality(Tenants)
  /\ Weights \subseteq Nat /\ QueueLengths \subseteq Nat /\ Limits \subseteq Nat
  /\ FirstRanks \subseteq Nat /\ Capacities \subseteq Nat

VARIABLES
  tenants,   \* tenantStateById
  capacity,  \* maxDecisions
  selected,  \* the candidates picked, in order
  deferred   \* the ones left with their reason, <<>> before the loop ends

policyVars == <<tenants, capacity, selected, deferred>>

\* The queue of a tenant is sorted; its limit has what it consumed taken off.
NewTenant(weight, length, first, limit) ==
  [weight |-> weight, queue |-> [i \in 1..length |-> first + i], deficit |-> 0,
   skipped |-> 0, remaining |-> limit, selected |-> 0]

PolicyInit ==
  /\ \E weight \in [Tenants -> Weights], length \in [Tenants -> QueueLengths],
        first \in [Tenants -> FirstRanks], limit \in [Tenants -> Limits] :
       tenants = [t \in Tenants |-> NewTenant(weight[t], length[t], first[t], limit[t])]
  /\ capacity \in Capacities
  /\ selected = <<>>
  /\ deferred = <<>>

Eligible == {t \in Tenants : tenants[t].queue # <<>> /\ tenants[t].remaining > 0}

\* Mutant of StarvationThreshold: far beyond any queue.
NeverStarved(eligible) == 100 * Cardinality(eligible)

StarvationThreshold(eligible) == 2 * Cardinality(eligible)

TotalWeight(eligible) == FoldSet(LAMBDA t, sum : sum + tenants[t].weight, 0, eligible)

\* The tenants as a round finds them: credited, and one more round passed over.
Credited(t) == [tenants[t] EXCEPT !.skipped = @ + 1, !.deficit = @ + tenants[t].weight]

\* compareTenantRuntimeState
Precedes(t, u, threshold) ==
  LET a == Credited(t) b == Credited(u)
      aStarved == a.skipped >= threshold
      bStarved == b.skipped >= threshold
  IN IF aStarved # bStarved THEN aStarved
     ELSE IF a.deficit # b.deficit THEN a.deficit > b.deficit
     ELSE IF Head(a.queue) # Head(b.queue) THEN Head(a.queue) < Head(b.queue)
     ELSE t < u

Winner(eligible) == CHOOSE t \in eligible :
  \A u \in eligible \ {t} : Precedes(t, u, StarvationThreshold(eligible))

Round ==
  /\ deferred = <<>> /\ Len(selected) < capacity /\ Eligible # {}
  /\ LET winner == Winner(Eligible)
     IN /\ selected' = Append(selected, <<winner, Head(tenants[winner].queue)>>)
        /\ tenants' = [t \in Tenants |->
             IF t = winner
             THEN [Credited(t) EXCEPT !.queue = Tail(@), !.skipped = 0, !.remaining = @ - 1,
                                      !.selected = @ + 1, !.deficit = @ - TotalWeight(Eligible)]
             ELSE IF t \in Eligible THEN Credited(t) ELSE tenants[t]]
  /\ UNCHANGED <<capacity, deferred>>

Reason(t) == IF tenants[t].remaining <= 0 THEN "tenant_rate_limited"
             ELSE "global_capacity_exhausted"

\* What is left in the queues, by tenant and rank.
Defer ==
  /\ deferred = <<>>
  /\ Len(selected) >= capacity \/ Eligible = {}
  /\ deferred' = FlattenSeq([t \in Tenants |-> [i \in DOMAIN tenants[t].queue |->
                   [candidate |-> <<t, tenants[t].queue[i]>>, reason |-> Reason(t)]]])
  /\ deferred' # <<>>
  /\ UNCHANGED <<tenants, capacity, selected>>

PolicyNext == Round \/ Defer

PolicySpec == PolicyInit /\ [][PolicyNext]_policyVars

-----------------------------------------------------------------------------
\* The longest a tenant waits.  Until it starves that is twice the number of
\* the tenants; after that every other tenant may come first once, and, since
\* tenants that run out lower the threshold for those that do not, again.
LongestWait == IF Cardinality(Tenants) = 1 THEN 0 ELSE 5 * Cardinality(Tenants) - 7

(* No tenant with a candidate it may run is passed over for longer than      *)
(* LongestWait rounds, however light it weighs against the others; a limit   *)
(* is never exceeded, and a candidate is deferred for capacity only when all *)
(* of the capacity was used.                                                 *)
NoTenantStarves ==
  /\ \A t \in Tenants : tenants[t].skipped <= LongestWait /\ tenants[t].remaining >= 0
  /\ \A i \in DOMAIN deferred :
       deferred[i].reason = "global_capacity_exhausted" => Len(selected) = capacity
=============================================================================
