SPECIFICATION FairSpec
CONSTANTS
  w1 = w1
  q1 = q1
  r1 = r1
  Workers <- OneWorker
  Requests <- OneRequest
  Readers <- OneReader
  FailThreshold = 3
  MaxConfig = 2
  MaxFlips = 1
  MaxRestarts = 1
INVARIANT TypeOK
INVARIANT EventsFollowStatus
INVARIANT ConfirmedOutageIsCurrent
PROPERTY CacheConverges
PROPERTY CallersReturn
