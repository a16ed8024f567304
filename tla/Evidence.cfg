SPECIFICATION Spec
CONSTANTS
  Codes <- Solutions
  Errors = {"KeyError"}
  Outcomes = {"PASSED", "COMPILE_ERROR"}
  Claims = {"O(n)"}
  CostOf <- Cost
  GradeReplies <- EveryReply
  Inputs = 3
  Backlog <- Waiting
  Remarks <- Acts
INVARIANTS ObserverAgrees MilestonesAreEarned ReadersAgree
CHECK_DEADLOCK FALSE
