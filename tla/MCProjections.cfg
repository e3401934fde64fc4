SPECIFICATION MCSpec
CONSTANTS
  Docs = {a, b}
  Links = {l}
  NoDoc = NoDoc
  NoLink = NoLink
  Events <- MCEvents
  StoreKind = "memory"
  BatchSize = 3
  MaxLog = 4
  x = x
  y = y
  p1 = p1
  p2 = p2
  p3 = p3
  ReplayFeed <- MCReplayFeed
  TargetsOf <- MCTargetsOf
  BatchModeOf <- MCBatchModeOf
  ReplayTargets = {x, y}
  ReplayPolls = {p1, p2, p3}
  ReplayBatch = 3
  CacheEntries = 1
  MaxForeign = 1
  MaxWorkerFaults = 1
  LegacyFeed <- MCLegacyFeed
  LegacyDocs = {x, y}
  LegacyBatch = 3
  MaxLegacyFaults = 2
  Absent = Absent
  e1 = e1
  e2 = e2
  e3 = e3
  new = new
  FreshDocument <- MCFreshDocument
  PatchedDocuments <- MCDocuments
  Patches <- MCPatches
  b1 = b1
  b2 = b2
  b3 = b3
  BatchCalls = {b1, b2, b3}
  BatchDocs = {x, y}
  WritesOf <- MCWritesOf
  SequenceOf <- MCSequenceOf
  MaxBatchTries = 2
  MaxBatchFaults = 1
  q1 = q1
  q2 = q2
  q3 = q3
  z = z
  Routes = {q1, q2, q3}
  RouteOf <- MCRouteOf
  LinkSources = {z}
  LinkTargets = {x, y}
  Fleeting = {y}
SYMMETRY MCPollSymmetry
INVARIANTS
  FoldsFollowTheLog
  DocumentsCoverTheCursor
  CursorAndCacheAreBacked
  RoutesReachTheLinked
  PatchesLandWhole
  BatchesAreWhole
CHECK_DEADLOCK FALSE
