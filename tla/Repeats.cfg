SPECIFICATION Spec
CONSTANTS
  Codes <- Solutions
  Errors = {"KeyError", "IndexError"}
  Outcomes = {"PASSED", "RUNTIME_ERROR", "COMPILE_ERROR"}
  Claims = {"O(n)"}
  CostOf <- Cost
  GradeReplies <- EveryReply
  Inputs = 3
  Backlog <- Waiting
  Remarks <- Hints
INVARIANT RepeatsAreRepeats
CHECK_DEADLOCK FALSE
