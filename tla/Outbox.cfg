SPECIFICATION FairSpec
CONSTANTS
  r1 = r1
  r2 = r2
  r3 = r3
  d1 = d1
  d2 = d2
  Reviews = {r1, r2, r3}
  Poisoned = {r3}
  MaxReloads = 1
  Waiters = {d1}
INVARIANTS NeverStalls DrainsAwaitWork NothingLost AcceptedWasApplied OrderUntilRetried
PROPERTIES ImplementsDelivery EventuallySettled DrainResolves
CHECK_DEADLOCK FALSE
