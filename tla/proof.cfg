SPECIFICATION Spec
CONSTANTS
  Workers = {"a", "b", "c"}
  Injected = "b"
  JobOrder <- MCJobOrder
  SlotCount = 2
  MaxStage1 = 2
  MaxStage2 = 1
INVARIANTS
  VerifiedIsProven
  Stage2ReportIsTrue
  
CHECK_DEADLOCK FALSE
