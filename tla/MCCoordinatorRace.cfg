SPECIFICATION Spec
CONSTANTS
  w1 = w1
  w2 = w2
  s1 = s1
  s2 = s2
  t1 = t1
  t2 = t2
  Workers = {w1, w2}
  Sources = {s2}
  Targets = {t1, t2}
  NumDefs = 3
  Strategy <- MCStrategy
  Route <- MCRoute
  StartAnchor <- MCAnchor
  Poison <- MCNoPoison
  MaxGapCommits = 1
  MaxSeq = 2
  MaxFaults = 2
SYMMETRY MCWorkerSymmetry
INVARIANTS
  ExactlyOnceInOrder
  CoverageIsBacked
  AckedIsDurable
PROPERTIES
  ImplementsPromise
CHECK_DEADLOCK FALSE
