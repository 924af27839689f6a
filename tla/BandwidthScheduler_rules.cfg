SPECIFICATION FairSpec
CONSTANTS
  Nil = Nil
  r1 = r1
  r2 = r2
  q1 = q1
  DaysPerWeek = 2
  MinutesPerDay = 3
  Rules <- TwoRules
  Windows <- TwoWindows
  Rates <- TwoRates
  Offered <- TwoOffers
  Initial <- Low
  Requests <- OneRequest
  MaxSchedules = 2
  MaxRequests = 2
  MaxMishaps = 1
  MaxMinutes = 3
INVARIANT TypeOK
INVARIANT PrioritiesDistinct
INVARIANT OpenRulesOverlap
INVARIANT BaselineCaptured
INVARIANT MemoryIsMarker
INVARIANT WritesAreDue
INVARIANT ImposedIsMarked
PROPERTY LimitsFollowRules
