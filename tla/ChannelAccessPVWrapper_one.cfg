CONSTANTS
  w1 = w1
  v1 = v1
  v2 = v2
  c1 = c1
  c2 = c2
  Empty = Empty
  NoCallback = NoCallback
  Waiters <- OneWaiter
  Values <- TwoValues
  Callbacks <- TwoCallbacks
SPECIFICATION FairWrapperSpec
INVARIANTS NobodyForgotten OldCallbackIsOver CallbackUpToDate
PROPERTIES ReadsWereReported ReturnsWhenReady
