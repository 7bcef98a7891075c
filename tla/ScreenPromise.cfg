SPECIFICATION Spec
CONSTANTS
  Cards = {1, 2}
  Studied = {}
  RatingsGiven = {1, 3}
  DayLength = 2
  AgeUnit = 2
  MaxDuration = 1
  MaxTime = 4
  MaxMounts = 2
  MaxSessions = 2
  MaxLost = 1
PROPERTIES PromiseKept
CHECK_DEADLOCK FALSE
