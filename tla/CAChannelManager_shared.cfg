\* Two user threads and the callbacks call the manager, which can stop for good.
CONSTANTS
  u1 = u1
  u2 = u2
  Users <- TwoUsers
  CallbackThread = cbt
  NoThread = NoThread
  NoId = NoId
  MaxId = 2
SPECIFICATION FairSpec
INVARIANTS CallbackOnLiveEntry NothingLeaked ContextIffNeeded TasksOnLiveChannels
  HandleUsedExclusively StallsOnlyOnRemoval
PROPERTY OperationsEnd
CHECK_DEADLOCK FALSE
