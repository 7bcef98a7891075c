SPECIFICATION Spec
CONSTANTS
  w1 = w1
  w2 = w2
  front = front
  back = back
  name = name
  limits = limits
  Workers = {w1, w2}
  CardFields = {front, back}
  DeckFields = {name, limits}
  MaxStamp = 3
SYMMETRY Symmetry
PROPERTIES OnlyWhatWasAsked EditKeepsSuspension EditsTruthful
CHECK_DEADLOCK FALSE
