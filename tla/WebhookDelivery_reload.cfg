SPECIFICATION Spec
CONSTANTS
  h1 = h1
  q1 = q1
  Hooks <- OneHook
  Requests <- OneRequest
  QueueSize = 2
  BusSize = 1
  MaxAttempts = 2
  MaxEvents = 3
  MaxLoads = 1
INVARIANT TypeOK
INVARIANT OrderPerLoad
INVARIANT OneHistoryRow
INVARIANT OneLoadPerEvent
INVARIANT DrainLeavesAtMostOne
CHECK_DEADLOCK FALSE
