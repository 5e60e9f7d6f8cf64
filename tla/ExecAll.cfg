SPECIFICATION Spec
CONSTANTS
  Calls = {c1, c2, c3}
  InitialStatuses = {"EM_EXECUCAO"}
  Quotes = {quote}
  FirstQuote = quote
  Faults = TRUE
  brake = brake  oil = oil  wash = wash  pad = pad  fluid = fluid
  Services <- ThreeServices
  ApprovedServices <- TwoServices
  StartedServices = {}
  Supplies <- TwoSupplies
  Needs <- SharedNeeds
  InitialStock <- TightStock
  Operations = {"put", "start", "finalize"}
  Resubmits = TRUE
SYMMETRY RequestSymmetry
INVARIANT StockAccounts
INVARIANT DeductedIsFinished
PROPERTY UsesTransitionTo
CHECK_DEADLOCK FALSE
