SPECIFICATION Spec
CONSTANTS
  w1 = w1
  w2 = w2
  s1 = s1
  s2 = s2
  l1 = l1
  Workers = {w1, w2}
  Sources = {s1, s2}
  Docs = {1, 2}
  Links = {l1}
  NoLink = NoLink
  NoDoc = NoDoc
  Log <- LinkedLog
  Strategy = "own_record"
  StableSingleTarget = FALSE
  MaxConflictRetries = 0
  FaultKinds = {"unknown"}
  MaxFaults = 1
SYMMETRY Symmetry
CONSTRAINT UnknownLate
INVARIANTS FoldedOnceInOrder AtomicFold RetriesAreForConflicts
