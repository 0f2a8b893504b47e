SPECIFICATION Spec
CONSTANTS
  c1 = c1
  c2 = c2
  w1 = w1
  w2 = w2
  Works = {w1, w2}
  Nodes = {w1, w2}
  Attempts = {w1, w2}
  WorkOf <- MCSelf
  NodeOf <- MCSelf
  Manifests = {}
  Owners = {"direct-task-service"}
  Models = {"model"}
  NoModel = "no_model"
  LeaseTTL = 1
  MaxTime = 2
  MaxGeneration = 7
  Callers = {"caller"}
  Keys = {}
  NoKey = "no_key"
  Payloads = {"payload"}
  NoWork = "no_work"
  Claimers = {c1, c2}
  LongRuns = TRUE
  CrashAnywhere = TRUE
  MaxFaults = 2
SYMMETRY ServiceSymmetry
INVARIANTS
  VerdictMatchesProof
  OneLaunchPerFault
PROPERTIES
  NoRelaunchAfterProof
