\* The discipline of CAChannelManager: no destruction while calls are in progress.
CONSTANTS
  c1 = c1
  c2 = c2
  c3 = c3
  Callers <- ThreeCallers
  MayOverlap = FALSE
SPECIFICATION FairSpec
INVARIANT NobodyLeftBehind
PROPERTIES CallsReturn DestructorReturns ImplementsTaskService
