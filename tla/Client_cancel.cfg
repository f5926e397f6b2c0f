SPECIFICATION FairSpec
CONSTANTS
  Requests = {r1}
  Cancellers = {k1, k2}
  MaxPolls = 3
  CurlMoves = FALSE
  CurlGaps = FALSE
  PollErrors = FALSE
  SetupErrors = FALSE
  LateCalls = FALSE
PROPERTIES
  CancelReturns
  DestructorReturns
