SPECIFICATION Spec
CONSTANTS
  Requests = {r1, r2}
  Cancellers = {k1}
  MaxPolls = 3
  CurlMoves = FALSE
  CurlGaps = FALSE
  PollErrors = FALSE
  SetupErrors = FALSE
  LateCalls = FALSE
SYMMETRY Symmetry
INVARIANTS
  TypeOK
  SocketsLive
  CancelledAgree
  ManagedUntilNotified
  WaitersKnown
PROPERTY ImplementsClientContract
