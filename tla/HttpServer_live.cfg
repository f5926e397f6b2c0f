SPECIFICATION FairSpec
CONSTANTS
  Conns = {c1, c2}
  NoConn = NoConn
  Acceptors = {a1}
  SslAcceptors = {a1}
  HandlerThreads = {"user"}
  SourceCalled = FALSE
  GracefulStop = TRUE
PROPERTIES
  StopListenersReturns
  StopReturns
