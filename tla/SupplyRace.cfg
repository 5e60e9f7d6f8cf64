SPECIFICATION Spec
CONSTANTS
  Services = {w1, w2}
  pads = pads
  fluid = fluid
  Supplies <- MCSupplies
  Requests = {r1, r2, r3}
  Batches <- MCBatches
  Faults = TRUE
SYMMETRY SymmetricRequests
INVARIANT LinksResolve
INVARIANT OncePerService
INVARIANT AllOrNothing
INVARIANT StrippedIsRemoved
CHECK_DEADLOCK FALSE
