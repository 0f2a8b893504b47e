SPECIFICATION Spec
CONSTANTS
  w1 = w1
  a1 = a1
  a2 = a2
  d1 = d1
  d2 = d2
  k1 = k1
  k2 = k2
  Nodes <- MCNodes
  Works = {w1}
  Attempts = {a1, a2}
  WorkOf <- MCWorkOf
  NodeOf <- MCNodeOf
  Manifests <- Chain
  Owners = {"worker"}
  Models = {"model"}
  NoModel = "no_model"
  LeaseTTL = 1
  MaxTime = 1
  MaxGeneration = 2
  Dispatchers = {d1, d2}
  Workers = {k1, k2}
  BlockerMaps <- NoBlockers
  NoNode = 0
  NoAttempt = "no_attempt"
  MaxFailures = 1
SYMMETRY ProcessSymmetry
INVARIANTS
  DispatchTypeOK
  StartedAfterDependencies
  VerdictFromAcceptedResult
  AcceptedResultCompletable
