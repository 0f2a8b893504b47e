SPECIFICATION FairSpec
CONSTANTS
  SlotCount = 2
  Calls <- MCCalls
  Jobs <- MCJobs
  JobOf <- MCJobOf
  Shutdowns = {"s1"}
  NoCall = 0
INVARIANTS
  RuntimeTypeOK
  LaunchedOnce
  ShutdownDrained
  AnswerMatchesStored
  StartsInOrder
PROPERTIES
  CallsReturn
CHECK_DEADLOCK FALSE
