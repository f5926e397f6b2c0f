SPECIFICATION FairSpec
CONSTANTS
  BUF_SIZE = 3
  Backends = {"ragel", "stream"}
  Messages <- SomeMessages
  MaxMessages = 3
  MaxLong <- OneLongHead
  Table <- SomeRoutes
  SizeLimit = 1
INVARIANTS
  TypeOK
  StreamIntact
  BodiesIntact
  HeadIntact
  RoomToRead
  RequestsInOrder
  RefusedOnlyIfIgnored
PROPERTY AllAnswered
