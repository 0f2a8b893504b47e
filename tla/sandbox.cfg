SPECIFICATION FairSpec
CONSTANTS
  Commands <- MCCommands
  NoCommand = "noCommand"
INVARIANTS
  AnswerIsOwn
  OwnedRemovedOnce
PROPERTIES
  ChainDrains
CHECK_DEADLOCK FALSE
