SPECIFICATION Spec
CONSTANTS
  Heads <- MCHeads
  Trees = {"t1", "t2"}
  TreeOf <- MCTreeOf
  Outputs = {1, 2}
  Builds = 2
  MaxEntries = 1
  MaxChanges = 2
  Revisions <- MCRevisions
  Candidates <- MCCandidates
  NoModel = "noModel"
INVARIANTS
  CandidateFromOwnIndex
  CallsAccountedFor
PROPERTIES
  JobReturns
CHECK_DEADLOCK FALSE
