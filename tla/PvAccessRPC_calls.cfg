CONSTANTS
  c1 = c1
  c2 = c2
  o1 = o1
  Idle = Idle
  Clients <- TwoCalls
  Others <- OneOther
  MaxRequests = 2
SPECIFICATION FairSpec
INVARIANTS SpeakTheSame HandlerOutlivesCalls
PROPERTIES ImplementsRemoteCall EveryCallReturns
CHECK_DEADLOCK FALSE
