------------------------------ MODULE FifoLanes ------------------------------
(***************************************************************************)
(* What a lane scheduler promises, without promises, lane objects or       *)
(* counters: a run names a set of keys when it is called and starts once   *)
(* every run called before it with a key in common has settled.            *)
(* LaneScheduler implements this specification.                            *)
(***************************************************************************)
CONSTANTS Runs, Keys

VARIABLES
  state,   \* state[r]: idle, waiting or running
  keys,    \* keys[r]: the keys of the run, none while it is idle
  before   \* <<x, r>>: x was called before r, and both have yet to settle

vars == <<state, keys, before>>

Active == {r \in Runs : state[r] # "idle"}

Init ==
  /\ state = [r \in Runs |-> "idle"]
  /\ keys = [r \in Runs |-> {}]
  /\ before = {}

Call(r, ks) ==
  /\ state[r] = "idle"
  /\ state' = [state EXCEPT ![r] = "waiting"]
  /\ keys' = [keys EXCEPT ![r] = ks]
  /\ before' = before \cup (Active \X {r})

Start(r) ==
  /\ state[r] = "waiting"
  /\ \A x \in Runs : <<x, r>> \in before => keys[x] \cap keys[r] = {}
  /\ state' = [state EXCEPT ![r] = "running"]
  /\ UNCHANGED <<keys, before>>

Settle(r) ==
  /\ state[r] = "running"
  /\ state' = [state EXCEPT ![r] = "idle"]
  /\ keys' = [keys EXCEPT ![r] = {}]
  /\ before' = {p \in before : p[1] # r /\ p[2] # r}

Next == \E r \in Runs :
  \/ \E ks \in SUBSET Keys : Call(r, ks)
  \/ Start(r)
  \/ Settle(r)

Spec == Init /\ [][Next]_vars
=============================================================================
