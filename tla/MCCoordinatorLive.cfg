SPECIFICATION PolledFairSpec
CONSTANTS
  w1 = w1
  w2 = w2
  s1 = s1
  s2 = s2
  t1 = t1
  t2 = t2
  Workers = {w1, w2}
  Sources = {s1, s2}
  Targets = {t1, t2}
  NumDefs = 3
  Strategy <- MCStrategy
  Route <- MCStoppingRoute
  StartAnchor <- MCAnchor
  Poison <- MCPoison
  MaxGapCommits = 1
  MaxSeq = 2
  MaxFaults = 1
  Deployments <- MCDeployments
  PassCommits = 1
INVARIANTS
  StoppedCommitHalts
PROPERTIES
  EventuallyCovered
CHECK_DEADLOCK FALSE
