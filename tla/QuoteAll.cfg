SPECIFICATION Spec
CONSTANTS
  Quotes <- QuoteColumns
  FirstQuote <- NoQuote
  Calls = {c1, c2}
  InitialStatuses = {"RECEBIDA", "EM_DIAGNOSTICO", "AGUARDANDO_APROVACAO"}
  Faults = TRUE
  Services = {s1, s2}
  InitialServices = {s1}
  Operations = {"put", "approve", "reject", "approveAll", "rejectAll", "add", "remove"}
SYMMETRY RequestSymmetry
INVARIANT TypeOK
INVARIANT StampsMatchStatus
INVARIANT PastConnected
INVARIANT OkMeansEntered
INVARIANT QuoteSentMeansMailed
PROPERTY UsesTransitionTo
CHECK_DEADLOCK FALSE
