\* Three racing calls over an order waiting for approval, no other writer.
SPECIFICATION TransitionFairSpec
CONSTANTS
  Calls = {c1, c2, c3}
  InitialStatuses = {"AGUARDANDO_APROVACAO"}
  Quotes = {quote}
  FirstQuote = quote
  Faults = TRUE
INVARIANT TransitionTypeOK
INVARIANT OneMoverPerStatus
INVARIANT NoDuplicateNotice
INVARIANT ConflictMeansOvertaken
PROPERTY EveryCallAnswered
PROPERTY ImplementsLifecycle
PROPERTY SettlesNotices
CHECK_DEADLOCK FALSE
