SPECIFICATION FairSpec
CONSTANTS
  Nil = Nil
  r1 = r1
  r2 = r2
  q1 = q1
  DaysPerWeek = 2
  MinutesPerDay = 3
  Rules <- OneRule
  Windows <- TwoWindows
  Rates <- TwoRates
  Offered <- TwoOffers
  Initial <- Low
  Requests <- OneRequest
  MaxSchedules = 1
  MaxRequests = 1
  MaxMishaps = 1
  MaxMinutes = 3
PROPERTY DefaultsRestored
