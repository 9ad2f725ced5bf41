CONSTANTS
  v1 = v1
  v2 = v2
  f1 = f1
  Empty = Empty
  Up = Up
  Down = Down
  Scalar = Scalar
  Values <- TwoValues
  Foreign <- OneForeign
  MaxQueue = 1
  MaxPuts = 2
SPECIFICATION WrapperSpec
INVARIANTS CacheFollows TrueMeansPut ConnectedHasValue
PROPERTY RefusedOnlyStale
