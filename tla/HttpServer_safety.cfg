SPECIFICATION Spec
CONSTANTS
  Conns = {c1, c2, c3}
  NoConn = NoConn
  Acceptors = {a1}
  SslAcceptors = {a1}
  HandlerThreads = {"pool", "user"}
  SourceCalled = FALSE
  GracefulStop = FALSE
SYMMETRY Symmetry
INVARIANTS
  TypeOK
  ReferencesLive
  OwnNeverFails
  ServerDestroysDisowned
  CountMatchesList
  AcceptorsQuiesced
  SweepCoversAll
  NoneOutlivesStop
  Inv
PROPERTY ImplementsContract
