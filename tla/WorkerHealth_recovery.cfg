SPECIFICATION MonitorSpec
CONSTANTS
  w1 = w1
  q1 = q1
  r1 = r1
  Workers <- OneWorker
  Requests <- NoRequest
  Readers <- OneReader
  FailThreshold = 3
  MaxConfig = 1
  MaxFlips = 3
  MaxRestarts = 0
INVARIANT RecoveryAnnounced
