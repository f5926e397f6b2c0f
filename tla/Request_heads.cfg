SPECIFICATION Spec
CONSTANTS
  BUF_SIZE = 3
  Backends = {"ragel"}
  Messages <- SomeMessages
  MaxMessages = 3
  MaxLong <- TwoLongHeads
  Table <- SomeRoutes
  SizeLimit = 1
INVARIANTS
  HeadIntact
