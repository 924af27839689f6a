SPECIFICATION Spec
CONSTANTS
  h1 = h1
  q1 = q1
  Hooks <- OneHook
  Requests <- OneRequest
  QueueSize = 2
  BusSize = 1
  MaxAttempts = 2
  MaxEvents = 1
  MaxLoads = 1
INVARIANT LoadedHooksRun
CHECK_DEADLOCK FALSE
