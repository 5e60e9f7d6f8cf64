SPECIFICATION Spec
CONSTANTS
  Requests = {r1, r2, r3}
  oil = oil
  brakes = brakes
  Ids <- MCIds
  Titles <- MCTitles
  LongTitle = "long"
  NulTitle = "nul"
  MaxInt = 3
  Forms <- MCForms
  Existing <- MCExisting
  Faults = TRUE
SYMMETRY SymmetricRequests
INVARIANT TypeOK
INVARIANT TitlesUnique
INVARIANT ItemsResolve
INVARIANT SnapshotsOffered
INVARIANT DeletedForever
INVARIANT RacesAnswered
CHECK_DEADLOCK FALSE
