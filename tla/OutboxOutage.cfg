SPECIFICATION Spec
CONSTANTS
  r1 = r1
  r2 = r2
  r3 = r3
  d1 = d1
  d2 = d2
  Reviews = {r1, r2}
  Poisoned = {}
  MaxReloads = 0
  Waiters = {d1, d2}
SYMMETRY Symmetry
PROPERTIES OutlivesOutage
CHECK_DEADLOCK FALSE
