SPECIFICATION FairSpec
CONSTANTS
  w1 = w1
  w2 = w2
  s1 = s1
  s2 = s2
  l1 = l1
  Workers = {w1, w2}
  Sources = {s1, s2}
  Docs = {1}
  Links = {}
  NoLink = NoLink
  NoDoc = NoDoc
  Log <- SharedLog
  Strategy = "in_document"
  StableSingleTarget = FALSE
  MaxConflictRetries = 0
  FaultKinds = {"call", "reply", "unknown", "crash"}
  MaxFaults = 1
PROPERTIES EventuallyFolded
