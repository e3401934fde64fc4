SPECIFICATION MCSpec
CONSTANTS
  r1 = r1
  r2 = r2
  r3 = r3
  k1 = k1
  k2 = k2
  o1 = o1
  o2 = o2
  Runs = {r1, r2, r3}
  Keys = {k1, k2}
  Objects = {o1, o2}
  NoLane = NoLane
  Resolved = Resolved
  s1 = s1
  s2 = s2
  c1 = c1
  c2 = c2
  c3 = c3
  c4 = c4
  c5 = c5
  c6 = c6
  Calls = {c1, c2, c3, c4, c5, c6}
  CallOf <- MCCallOf
  NoCall = NoCall
  NoBarrier = NoBarrier
  NoStep = NoStep
  NoSaga = NoSaga
  WindowLimit = 2
  SunkCommands = {c1, c2, c3}
  NotACommand = NotACommand
  Readers = {1}
  EventsDecided <- MCEventsDecided
INVARIANTS
  FifoExclusion
  LanesAreShared
  InboundInOrder
  AuditTrailIsContinuous
  CommandsTakeTurns
PROPERTIES
  ImplementsFifoLanes
  EveryRunStarts
  OnlyAGateBlocks
CHECK_DEADLOCK FALSE
