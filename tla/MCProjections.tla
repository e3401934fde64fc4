---------------------------- MODULE MCProjections ----------------------------
(* The projection pipelines outside the commit coordinator, side by side:    *)
(* the polling daemon of the runtime core, the legacy runtime, the worker    *)
(* core with the adapter that replays a feed through it, routes of the       *)
(* projection router, a patch write of the Mongo store, and batches written  *)
(* by commitAtomicMany.  They share no state: a behaviour is one of theirs.  *)
EXTENDS MCProjectionDaemon, WorkerCore, LegacyProjection, MCPatchPlan, AtomicMany,
        ProjectionRouter

VARIABLE part

\* A replay that meets an event again, one that joins two targets in a batch,
\* and one without targets.
CONSTANTS x, y
MCReplayFeed == <<1, 2, 1, 3>>
MCTargetsOf == <<{x}, {x, y}, {}>>
MCBatchModeOf == <<"all", "all", "none">>

\* The second commit is joined before any link is there, the fourth after.
Own(to, links) == [own |-> TRUE, to |-> to, links |-> links]
JoinedCommit == [own |-> FALSE, to |-> <<>>, links |-> FALSE]
MCLegacyFeed == <<Own(<<x>>, FALSE), JoinedCommit, Own(<<x, y>>, TRUE), JoinedCommit, Own(<<y>>, FALSE)>>

\* A batch of two writes, one that writes the same documents in the other
\* order, and one that writes a document twice.
CONSTANTS b1, b2, b3
MCWritesOf == (b1 :> <<<<x>>, <<y>>>>) @@ (b2 :> <<<<y, x>>>>) @@ (b3 :> <<<<y>>, <<y>>>>)
MCSequenceOf == (b1 :> 1) @@ (b2 :> 2) @@ (b3 :> 3)

\* An own event links and relinks a document to an aggregate, whose events two
\* routes follow: one unlinks, one names a document of its own as well.
CONSTANTS q1, q2, q3, z
MCRouteOf ==
  LET mutation(op, t) == [op |-> op, source |-> z, target |-> t]
      route(own, joins, named, mutations) ==
        [own |-> own, joins |-> joins, source |-> z, named |-> named, mutations |-> mutations]
  IN (q1 :> route(TRUE, FALSE, {x}, <<mutation("add", x), mutation("add", y)>>))
     @@ (q2 :> route(FALSE, TRUE, {}, <<mutation("remove", x)>>))
     @@ (q3 :> route(TRUE, TRUE, {x}, <<mutation("add", x)>>))

DaemonPart == vars
NoPatch == document = {} /\ request = {} /\ outcome = "none"
MCInit ==
  /\ part \in {"daemon", "worker", "legacy", "patch", "batch", "router"}
  /\ Init /\ WorkerInit /\ LegacyInit /\ AtomicInit /\ RouterInit
  /\ part # "legacy" => kind = "processor"
  /\ part # "daemon" => mode = "live"
  /\ part # "batch" => adapter = "mongo"
  /\ IF part = "patch" THEN PatchInit ELSE NoPatch

MCNext ==
  /\ UNCHANGED part
  /\ \/ part = "daemon" /\ Next /\ UNCHANGED <<workerVars, legacyVars, patchVars, atomicVars, routerVars>>
     \/ part = "worker" /\ WorkerNext /\ UNCHANGED <<DaemonPart, legacyVars, patchVars, atomicVars, routerVars>>
     \/ part = "legacy" /\ LegacyNext /\ UNCHANGED <<DaemonPart, workerVars, patchVars, atomicVars, routerVars>>
     \/ part = "patch" /\ PatchNext /\ UNCHANGED <<DaemonPart, workerVars, legacyVars, atomicVars, routerVars>>
     \/ part = "batch" /\ AtomicNext /\ UNCHANGED <<DaemonPart, workerVars, legacyVars, patchVars, routerVars>>
     \/ part = "router" /\ RouterNext /\ UNCHANGED <<DaemonPart, workerVars, legacyVars, patchVars, atomicVars>>

MCSpec == MCInit /\ [][MCNext]_<<part, DaemonPart, workerVars, legacyVars, patchVars, atomicVars, routerVars>>

\* The polls of the replay are alike.
MCPollSymmetry == Permutations(ReplayPolls)
=============================================================================
