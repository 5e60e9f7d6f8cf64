\* Three customers' requests decide the last two services at one moment.
SPECIFICATION FairSpec
CONSTANTS
  Calls = {c1, c2, c3}
  InitialStatuses = {"AGUARDANDO_APROVACAO"}
  Quotes <- QuoteColumns
  FirstQuote <- NoQuote
  Faults = FALSE
  Services = {s1, s2}
  InitialServices = {s1, s2}
  Operations = {"approve", "reject"}
INVARIANT ApprovedTotalSettles
PROPERTY DecidedOrderMoves
PROPERTY StatusFollowsTable
CHECK_DEADLOCK FALSE
