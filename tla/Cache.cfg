SPECIFICATION Spec
CONSTANTS
  Keys = {k1}
  Old = {o1}
  New = {n1, n2}
  Changeable = {n1}
  Nobody = Nobody
  NoData = NoData
INVARIANT QuietListIsServers
PROPERTIES OlderFetchNeverHides ListSettles
CHECK_DEADLOCK FALSE
