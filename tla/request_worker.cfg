SPECIFICATION FairSpec
CONSTANTS
  MaxRequests = 1
  Incoming <- OneWorkerRequest
  AllowCustom = TRUE
  WorkersEnabled = TRUE
  BatchEligibleSizeMax = 3
PROPERTY EventuallyAnswered
CHECK_DEADLOCK FALSE
