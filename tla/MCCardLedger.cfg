SPECIFICATION Spec
CONSTANTS
  c1 = c1
  c2 = c2
  d1 = d1
  Cards = {c1, c2}
  Decks = {d1}
  Times <- MCTimes
  DayLength = 2
  MaxReviews = 3
SYMMETRY Symmetry
INVARIANTS TypeOK ScheduleExists RepsCountReviews IntroducedOnce LogReplays
PROPERTIES SuspendedFrozen AppendOnly
