SPECIFICATION Spec
CONSTANTS
  Requests = {r1}
  Cancellers = {k1, k2}
  MaxPolls = 2
  CurlMoves = TRUE
  CurlGaps = TRUE
  PollErrors = TRUE
  SetupErrors = TRUE
  LateCalls = TRUE
SYMMETRY Symmetry
INVARIANTS
  CancelledAgree
  WaitersKnown
PROPERTY ImplementsClientContract
CHECK_DEADLOCK FALSE
