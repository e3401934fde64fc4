SPECIFICATION MCSpec
CONSTANTS
  Clients = {c1, c2}
  Sources = {s1}
  Manifests = {m1, m2}
  Joined = {m1}
  Anchors = {0, 1}
  Inventories = {i1, i2}
  Moved = Moved
  None = None
  MaxSeq = 2
  MaxApprovals = 2
  MaxFaults = 1
  Sizes = {1, 2, 4}
  MaxHistory = 5
  MaxCommits = 2
  MaxBytes = 3
  MaxPages = 2
  TakenDocs = {1}
  Folders = {f1, f2}
  Times = {1, 2}
  MaxStates = 6
  MaxTakeoverFaults = 2
SYMMETRY Symmetry
INVARIANTS OneRegistry PagesCoverTheHistory OldWritesAreNoticed
PROPERTIES CoverageByOne
