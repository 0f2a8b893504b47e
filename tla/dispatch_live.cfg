SPECIFICATION FairSpec
CONSTANTS
  w1 = w1
  a1 = a1
  a2 = a2
  d1 = d1
  d2 = d2
  k1 = k1
  k2 = k2
  Nodes <- MCNodes
  Works = {w1}
  Attempts = {a1, a2}
  WorkOf <- MCWorkOf
  NodeOf <- MCNodeOf
  Manifests <- Chain
  Owners = {"worker"}
  Models = {"model"}
  NoModel = "no_model"
  LeaseTTL = 1
  MaxTime = 2
  MaxGeneration = 3
  Dispatchers = {d1}
  Workers = {k1}
  BlockerMaps <- NoBlockers
  NoNode = 0
  NoAttempt = "no_attempt"
  MaxFailures = 2
PROPERTIES
  NodesSettle
