SPECIFICATION Spec
CONSTANTS
  Calls = {c1, c2, c3}
  InitialStatuses = {"EM_EXECUCAO"}
  Quotes = {quote}
  FirstQuote = quote
  Faults = FALSE
  brake = brake  oil = oil  wash = wash  pad = pad  fluid = fluid
  Services <- ThreeServices
  ApprovedServices <- TwoServices
  StartedServices = {}
  Supplies <- TwoSupplies
  Needs <- SharedNeeds
  InitialStock <- TightStock
  Operations = {"start", "finalize"}
  Resubmits = TRUE
INVARIANT DeductedOnce
CHECK_DEADLOCK FALSE
