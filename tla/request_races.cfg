SPECIFICATION FairSpec
CONSTANTS
  MaxRequests = 2
  Incoming <- AllSorts
  AllowCustom = TRUE
  WorkersEnabled = TRUE
  BatchEligibleSizeMax = 3
INVARIANTS
  OneAnswer
  RequestsTracked
PROPERTY RequestsEnd
CHECK_DEADLOCK FALSE
