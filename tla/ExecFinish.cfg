SPECIFICATION FairSpec
CONSTANTS
  Calls = {c1, c2, c3, c4}
  InitialStatuses = {"EM_EXECUCAO"}
  Quotes = {quote}
  FirstQuote = quote
  Faults = FALSE
  brake = brake  oil = oil  wash = wash  pad = pad  fluid = fluid
  Services <- ThreeServices
  ApprovedServices <- TwoServices
  StartedServices = {brake}
  Supplies <- TwoSupplies
  Needs <- SharedNeeds
  InitialStock <- TightStock
  Operations = {"start", "finalize", "track"}
  Resubmits = FALSE
CHECK_DEADLOCK FALSE
INVARIANT FinishedIsDeducted
INVARIANT ShownFinishedIsFinished
PROPERTY FinishedServicesFinishOrder
