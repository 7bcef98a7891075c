SPECIFICATION StatsSpec
CONSTANTS
  Cards = {1, 2}
  MaxTime = 4
  MaxReviews = 2
  LastCreation = 0
  RatingsGiven = {1, 3}
  DayLength = 2
  ZoneChange = 3
  OffsetBefore = 1
  OffsetAfter = 0
  Lag = 1
  NewCardsPerDay = 1
  MaxReviewsPerDay = 2
  Limit = 2
  Days = 2
  Nothing = Nothing
INVARIANTS StatsTypeOK NoCardTwice NothingWithheld OverrunBounded
INVARIANTS AllowanceFollowsLocalDate EveryCardAccounted TodayIsCharted
CHECK_DEADLOCK FALSE
