SPECIFICATION Spec
CONSTANTS
  MaxTx = 3
  Sources = {"auto", "human", "llm"}
  Verdicts = {"verified", "empty"}
INVARIANTS
  CallTextIsServed
CHECK_DEADLOCK FALSE
