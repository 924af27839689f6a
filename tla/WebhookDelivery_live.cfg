SPECIFICATION FairSpec
CONSTANTS
  h1 = h1
  q1 = q1
  Hooks <- OneHook
  Requests <- OneRequest
  QueueSize = 1
  BusSize = 1
  MaxAttempts = 2
  MaxEvents = 2
  MaxLoads = 1
PROPERTY ConsumerNeverStalls
PROPERTY QueuedIsDelivered
CHECK_DEADLOCK FALSE
