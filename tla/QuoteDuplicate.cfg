SPECIFICATION Spec
CONSTANTS
  Calls = {c1, c2, c3}
  InitialStatuses = {"RECEBIDA"}
  Quotes <- QuoteColumns
  FirstQuote <- NoQuote
  Faults = FALSE
  Services = {s1}
  InitialServices = {s1}
  Operations = {"put"}
INVARIANT NoDuplicateNotice
CHECK_DEADLOCK FALSE
