SPECIFICATION Spec
CONSTANTS
  c1 = c1
  v1 = v1
  u1 = u1
  n1 = n1
  Seed <- MCSeed
  CustomerIds = {c1, c2}
  VehicleIds = {v1, v2}
  UserIds = {u1, u2}
  Usernames = {n1, n2}
  Texts <- MCTexts
  Plates <- MCPlates
  ValidPlates <- MCValidPlates
  Requests = {r1}
  Faults = TRUE
INVARIANT ReferencesResolve
INVARIANT RegisteredOnce
INVARIANT WrittenDocumentsWellFormed
INVARIANT OrderPartiesWereTrue
CHECK_DEADLOCK FALSE
