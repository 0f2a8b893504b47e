SPECIFICATION Spec
CONSTANTS
  c1 = c1
  c2 = c2
  w1 = w1
  w2 = w2
  w3 = w3
  Works = {w1, w2, w3}
  Nodes <- MCNodes
  Attempts = {}
  WorkOf <- MCWorkOf
  NodeOf <- MCNodeOf
  Manifests <- MCManifests
  Owners = {}
  Models = {}
  NoModel = "no_model"
  LeaseTTL = 1
  MaxTime = 0
  MaxGeneration = 0
  Callers = {c1, c2}
  Keys = {"key"}
  NoKey = "no_key"
  Payloads = {"p", "q"}
  NoWork = "no_work"
  Evidence <- MCEvidence
  Touchable <- MCTouchable
  Policies <- MCPolicies
  NoEvidence = NoEvidence
  NoNode = 0
SYMMETRY IntakeSymmetry
INVARIANTS
  KeyNamesOneWork
  AnswersAreOwn
  OverlapsSerialized
  SerializedByFrozenEvidence
