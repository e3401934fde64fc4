SPECIFICATION Spec
CONSTANTS
  n1 = n1
  n2 = n2
  n3 = n3
  Notes = {n1, n2, n3}
  Malformed = {}
  Contradicted = {n2}
  Terminal = {n3}
  Prefetch = 2
  MaxPasses = 2
  MaxFaults = 1
INVARIANTS NothingLost WorkerAndPollerAgree
