SPECIFICATION FairSpec
CONSTANTS
  n1 = n1
  n2 = n2
  n3 = n3
  Notes = {n1, n2}
  Malformed = {n2}
  Contradicted = {}
  Terminal = {n1}
  Prefetch = 1
  MaxPasses = 2
  MaxFaults = 2
PROPERTIES CallsSettle
