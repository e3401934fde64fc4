SPECIFICATION Spec
CONSTANTS
  s1 = s1
  d1 = d1
  d2 = d2
  d3 = d3
  NoSaga = NoSaga
  WindowLimit = 2
  Dispatches = {d1, d2, d3}
  DispatchOf <- MCDispatchOf
  Outputs <- MCOutputs
  MaxRestarts = 1
  TriggerIds = {1, 2}
  Intervals = {0, 2}
  CatchUpBounds = {2}
  MaxTime = 5
  MaxSchedules = 2
  Tenants = {1, 2, 3}
  Weights = {1, 50}
  QueueLengths = {1, 9}
  Limits = {2, 100}
  FirstRanks = {0}
  Capacities = {10}
  Unlimited = 100
  t1 = t1
  t2 = t2
  r1 = r1
  r2 = r2
  Tokens = {t1, t2}
  Requests = {r1, r2}
  NoToken = NoToken
  MaxCalls = 4
  AuditedIds = {1, 2}
  AuditRecords <- MCAuditRecords
  MaxAuditTime = 2
  MaxUpserts = 4
  PageLimit = 2
  m1 = m1
  m2 = m2
  a1 = a1
  a2 = a2
  Mirages = {m1, m2}
  Dispatched = {a1, a2}
  EventCount <- MCEventCount
  SaveCalls = {1, 2, 3}
  MaxDepotFaults = 1
  TargetsByType <- MCTargetsByType
  StaticTypes = {"add", "note"}
  EventsOf <- MCEventsOf
  Sent <- MCSent
  Drops <- MCDrops
  RootState <- MCRootState
  MaxApplied = 5
  n1 = n1
  n2 = n2
  g1 = g1
  g2 = g2
  Enveloped = {n1, n2}
  EnvelopePlugins = {g1, g2}
  CommandPlugins = {g1}
  Payloads = {1, 2, 3}
  HeaderWriters <- MCHeaderWriters
  MaxDispatches = 2
  MaxTouches = 1
  Builders = {"order", "sale"}
  AggregateName <- MCAggregateName
  BuilderCalls <- MCBuilderCalls
  ParentsOf <- MCParentsOf
  MaxBuilderCalls = 4
SYMMETRY MCSymmetry
INVARIANTS
  EventsLandOnTheirEntity
  ExtensionsMatchTheCommand
  BridgeKeepsTheRecord
  OccurrencesOnce
  NoTenantStarves
  SagasRunAsBuilt
  AuditTrailIsComplete
  SavesAndEffectsFollowTheStream
  BuiltAsDeclared
CHECK_DEADLOCK FALSE
