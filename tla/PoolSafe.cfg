\* One connection more than there are readers of work orders.
SPECIFICATION PoolFairSpec
CONSTANTS
  Connections = {c1, c2, c3}
  Readers = {r1, r2}
  Writers = {w1}
  Probe = probe
  MaxLength = 2
INVARIANT ConnectionsAccounted
INVARIANT UnreadyMeansDown
PROPERTY RequestsEnd
PROPERTY ReadyWhenUp
