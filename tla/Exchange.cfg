SPECIFICATION FairSpec
CONSTANTS
  ClientRequests <- MCClientRequests
  ClientParser = "ragel"
  PeerRequests <- MCPeerRequests
  Fields <- MCFields
  Texts <- MCTexts
  Chunkings <- MCChunkings
  MaxRequests = 2
  MaxRedirects = 1
  MaxHeaders = 1
INVARIANTS
  HeadsRead
  LookupFinds
  ResponsesRead
  HeadersRead
  FramingIntact
PROPERTY Completes
CHECK_DEADLOCK FALSE
