SPECIFICATION FairRunSpec
CONSTANTS
  Commands <- MCCommands
  NoCommand = "noCommand"
INVARIANTS
  RunTypeOK
  VerifiedAtRest
  NothingHeld
  EvidenceIsTrue
PROPERTIES
  RunReturns
CHECK_DEADLOCK FALSE
