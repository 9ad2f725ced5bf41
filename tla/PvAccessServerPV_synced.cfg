CONSTANTS
  u1 = u1
  u2 = u2
  f1 = f1
  f2 = f2
  Closed = Closed
  Worker = Worker
  Nobody = Nobody
  Default = 0
  Users <- TwoUsers
  Fields <- TwoFields
  Scalars <- Bits
  StartFirst = TRUE
  FullPuts = TRUE
SPECIFICATION FairSpec
INVARIANTS ServedIsSet ToldTheLatest
PROPERTY Propagates
