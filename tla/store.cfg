SPECIFICATION StoreSpec
CONSTANTS
  n1 = n1
  w1 = w1
  a1 = a1
  a2 = a2
  Nodes <- MCNodes
  Works <- MCWorks
  Attempts <- MCAttempts
  WorkOf <- MCWorkOf
  NodeOf <- MCNodeOf
  Manifests <- MCManifests
  Owners = {"worker"}
  Models = {"model"}
  NoModel = "no_model"
  LeaseTTL = 1
  MaxTime = 2
  MaxGeneration = 2
SYMMETRY AttemptSymmetry
INVARIANTS
  TypeOK
  SingleHonouredGrant
  StoreInv
  CompletionAppliedOnce
PROPERTIES
  ImplementsLedger
  RevocationIsFinal
  AcceptedResultImmutable
CHECK_DEADLOCK FALSE
