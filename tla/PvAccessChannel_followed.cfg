CONSTANTS
  u1 = u1
  f1 = f1
  Closed = Closed
  Worker = Worker
  Nobody = Nobody
  Empty = Empty
  Up = Up
  Down = Down
  Default = 0
  Users <- OneUser
  Fields <- OneField
  Scalars <- Bits
  StartFirst = TRUE
  FullPuts = TRUE
  MaxQueue = 2
  MaxPublished = 3
SPECIFICATION FairChannelSpec
PROPERTIES ImplementsSharedVariable Arrives
