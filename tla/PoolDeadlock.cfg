\* As many readers of work orders as there are connections.
SPECIFICATION PoolSpec
CONSTANTS
  Connections = {c1, c2}
  Readers = {r1, r2}
  Writers = {}
  Probe = probe
  MaxLength = 1
INVARIANT UnreadyMeansDown
