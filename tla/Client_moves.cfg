SPECIFICATION FairSpec
CONSTANTS
  Requests = {r1}
  Cancellers = {k1}
  MaxPolls = 2
  CurlMoves = TRUE
  CurlGaps = FALSE
  PollErrors = FALSE
  SetupErrors = FALSE
  LateCalls = FALSE
PROPERTY DestructorReturns
CHECK_DEADLOCK FALSE
