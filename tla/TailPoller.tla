------------------------------ MODULE TailPoller ------------------------------
(***************************************************************************)
(* The pollers of the workers of CommitCoordinator                         *)
(* (projection-transport/src/sourceTailPoller.ts).  A pass of a poller     *)
(* walks its sources one after the other and hands the commits between the *)
(* coverage and the tail to processPolled.  Whatever fails ends the whole  *)
(* pass, and the next pass begins at the first source again: a source is   *)
(* reached only by a pass that got through all sources listed before it.   *)
(*                                                                         *)
(* Everything else is CommitCoordinator's: a step of this module is one of *)
(* its steps, which the poller follows, or a step of a poller alone.       *)
(***************************************************************************)
EXTENDS CommitCoordinator, Sequences

CONSTANTS
  Deployments, \* how a queue may be run: its workers, the order in which
               \* each of them polls the sources, and two bounds: the workers
               \* the broker delivers to, and how long each source's log gets
  PassCommits  \* most commits the pages of one source hold in one pass:
               \* maxPages * maxCommits

ASSUME PollingAssumption ==
  /\ PassCommits \in Nat \ {0}
  /\ \A d \in Deployments :
       /\ d.workers \subseteq Workers /\ d.consumers \subseteq d.workers
       /\ d.order \in Seq(Sources) /\ d.order # <<>>
       /\ \A i, j \in DOMAIN d.order : i # j => d.order[i] # d.order[j]
       /\ d.limit \in [Sources -> 0 .. MaxSeq + 1]

VARIABLES
  deployment,  \* the deployment at hand; it never changes
  poller,      \* the pass of each worker's poller
  failedPasses \* passes that failed by themselves so far

polledVars == <<vars, deployment, poller, failedPasses>>

\* Waiting for the timer, or for the worker to be started again.
Resting == [pc |-> "probe", at |-> 1, after |-> Null, through |-> Null, left |-> 0]

Pollers == [pc : {"probe", "load", "page", "await"}, at : Nat \ {0},
            after : Int, through : Int, left : 0 .. PassCommits]

PolledTypeOK ==
  /\ TypeOK
  /\ deployment \in Deployments
  /\ poller \in [Workers -> Pollers]
  /\ \A w \in Workers : poller[w].at <= Len(deployment.order)
  /\ failedPasses \in 0 .. MaxFaults

\* The source a pass has come to.
Polled(w) == deployment.order[poller[w].at]

SetPoller(w, p) == poller' = [poller EXCEPT ![w] = p]

PolledInit ==
  /\ Init
  /\ deployment \in Deployments
  /\ poller = [w \in Workers |-> Resting]
  /\ failedPasses = 0

\* MaxFaults bounds the failures of tasks and passes together.
FaultsLeft == faults + failedPasses < MaxFaults

-----------------------------------------------------------------------------
\* The poller's own steps.

\* The source is registered; its tail is read.
Probe(w) ==
  /\ poller[w].pc = "probe"
  /\ SetPoller(w, [poller[w] EXCEPT !.pc = "load", !.through = tail[Polled(w)] - 1])
  /\ UNCHANGED <<vars, deployment, failedPasses>>

\* The coverage, or the accepted baseline, is read.  It may lie beyond the
\* tail read before, when others have covered a new commit in between: then
\* the pass fails.  How many commits the pages will hold depends on their size.
Load(w) ==
  LET p == poller[w] IN
  /\ p.pc = "load"
  /\ IF After(Polled(w)) > p.through THEN SetPoller(w, Resting)
     ELSE \E left \in 1 .. PassCommits :
       SetPoller(w, [p EXCEPT !.pc = "page", !.after = After(Polled(w)), !.left = left])
  /\ UNCHANGED <<vars, deployment, failedPasses>>

\* The next commit of the page is handed to processPolled, which takes the
\* lane of the source.
PollNext(w) ==
  LET p == poller[w] IN
  /\ p.pc = "page"
  /\ p.after < p.through /\ p.left > 0
  /\ \E n \in Seqs : n = p.after + 1 /\ Receive(w, Polled(w), n, TRUE)
  /\ SetPoller(w, [p EXCEPT !.pc = "await", !.left = @ - 1])
  /\ UNCHANGED <<deployment, failedPasses>>

\* The next source of the order, or the end of the pass.
NextSource(w) ==
  IF poller[w].at < Len(deployment.order)
  THEN [Resting EXCEPT !.at = poller[w].at + 1]
  ELSE Resting

\* Mutant of LeaveSource: the pass returns with the first source caught up.
LeaveSourceCaughtUp(w) ==
  LET p == poller[w] IN
  /\ p.pc = "page"
  /\ p.after = p.through \/ p.left = 0
  /\ SetPoller(w, IF p.after = p.through THEN Resting ELSE NextSource(w))
  /\ UNCHANGED <<vars, deployment, failedPasses>>

\* The source is caught up, or its pages are used up.
LeaveSource(w) ==
  LET p == poller[w] IN
  /\ p.pc = "page"
  /\ p.after = p.through \/ p.left = 0
  /\ SetPoller(w, NextSource(w))
  /\ UNCHANGED <<vars, deployment, failedPasses>>

PollerStep(w) ==
  /\ w \in deployment.workers
  /\ Probe(w) \/ Load(w) \/ PollNext(w) \/ LeaveSource(w)

\* A read of the pass fails, or the worker dies while its tasks are idle.
PassFails(w) ==
  /\ FaultsLeft
  /\ failedPasses' = failedPasses + 1
  /\ poller[w].pc # "await" /\ poller[w] # Resting
  /\ SetPoller(w, Resting)
  /\ UNCHANGED <<vars, deployment>>

-----------------------------------------------------------------------------
\* The coordinator's steps, and what they tell the poller.

\* The task ends with this step, and its outcome is not `completed`.
Refused(w, s) ==
  LET t == task[w][s] IN
  \/ t.pc \in {"gap", "advance"}
  \/ /\ t.pc = "dispatch" /\ ~Skips(t.def, s, t.at)
     /\ Terminal(t.def, s, t.at) /\ Applicable(t.def, s, t.at) # {}
  \/ t.pc = "reconcile" /\ coverage[s] # t.at

\* processPolled resolves: on to the next commit, or the end of the pass.
Answered(w, s, completed) ==
  LET p == poller[w] IN
  IF task[w][s].poll /\ task'[w][s].pc = "idle"
  THEN SetPoller(w, IF completed THEN [p EXCEPT !.pc = "page", !.after = @ + 1]
                    ELSE Resting)
  ELSE UNCHANGED poller

PolledTaskStep(w, s) ==
  /\ TaskStep(w, s) /\ Answered(w, s, ~Refused(w, s))
  /\ UNCHANGED <<deployment, failedPasses>>

PolledFaulty(w, s) ==
  /\ FaultsLeft
  /\ Faulty(w, s) /\ Answered(w, s, FALSE)
  /\ UNCHANGED <<deployment, failedPasses>>

PolledCrash(w) ==
  /\ FaultsLeft
  /\ Crash(w) /\ SetPoller(w, Resting)
  /\ UNCHANGED <<deployment, failedPasses>>

\* A pushed notification of any commit, at any time and any number of times.
Notify(w, s) ==
  /\ w \in deployment.consumers
  /\ \E n \in Seqs : Receive(w, s, n, FALSE)
  /\ UNCHANGED <<deployment, poller, failedPasses>>

LogGrows(s) ==
  /\ tail[s] < deployment.limit[s]
  /\ AppendCommit(s)
  /\ UNCHANGED <<deployment, poller, failedPasses>>

PolledNext ==
  \/ \E s \in Sources : LogGrows(s)
  \/ \E w \in deployment.workers :
       \/ PollerStep(w) \/ PassFails(w) \/ PolledCrash(w)
       \/ \E i \in DOMAIN deployment.order : LET s == deployment.order[i] IN
            Notify(w, s) \/ PolledTaskStep(w, s) \/ PolledFaulty(w, s)

PolledSpec == PolledInit /\ [][PolledNext]_polledVars

\* Every awaited call returns, timers fire, and a worker that dies or cannot
\* finish its bootstrap is started again.  The one step a poller may have to
\* wait with is taking a lane, which is first come first served: its turn
\* comes however many notifications keep the lane busy.  Of a source nothing
\* is assumed: whether a pass reaches it is the poller's doing.
PolledFairness ==
  \A w \in Workers :
    /\ SF_polledVars(PollerStep(w))
    /\ \A s \in Sources : WF_polledVars(PolledTaskStep(w, s))

PolledFairSpec == PolledSpec /\ PolledFairness

-----------------------------------------------------------------------------
\* A pass cannot get past the source: it holds a commit some definition cannot
\* take, or its log ends before the baseline it was accepted with.
Holds(s) ==
  \/ tail[s] < StartAnchor[s]
  \/ \E c \in StartAnchor[s] .. tail[s] - 1, d \in Defs : Stops(d, s, c)

(* Once the faults are over, every commit of a polled source is covered,      *)
(* unless a commit at or before it stops the source, or the passes never get  *)
(* past a source listed before it (sourceTailPoller.ts:146-185).              *)
EventuallyCovered ==
  \A s \in Sources : \A c \in StartAnchor[s] .. MaxSeq :
    (/\ c < tail[s]
     /\ \A b \in StartAnchor[s] .. c, d \in Defs : ~Stops(d, s, b)) ~>
    (\/ coverage[s] >= c
     \/ \E i, j \in DOMAIN deployment.order :
          i < j /\ deployment.order[j] = s /\ Holds(deployment.order[i]))
=============================================================================
