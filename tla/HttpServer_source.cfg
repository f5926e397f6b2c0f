SPECIFICATION Spec
CONSTANTS
  Conns = {c1, c2}
  NoConn = NoConn
  Acceptors = {a1}
  SslAcceptors = {}
  HandlerThreads = {"pool", "user"}
  SourceCalled = TRUE
  GracefulStop = FALSE
SYMMETRY Symmetry
INVARIANTS
  CountMatchesList
  SweepCoversAll
CHECK_DEADLOCK FALSE
