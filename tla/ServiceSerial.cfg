SPECIFICATION FairSpec
CONSTANTS
  c1 = c1
  c2 = c2
  d1 = d1
  w1 = w1
  w2 = w2
  NoWorker = NoWorker
  Cards = {c1, c2}
  Decks = {d1}
  Workers = {w1, w2}
  Times = {0}
  SubmitRatings = {4}
  DayLength = 1
  MaxReviews = 2
  Overlap = FALSE
PROPERTIES ImplementsLedger RequestAnswered StopsWhenTold
