SPECIFICATION FairSpec
CONSTANTS
  Sessions = {"s"}
  Replicas = {"p", "q"}
  Graders <- TwoGraders
  MaxAttempts = 2
  Budgets <- Mishaps
  Deleters = {"d", "e"}
  AccountRequests = {"a"}
INVARIANTS NothingOutlivesDeletion
PROPERTIES ReadyReportStands ReportSettles DeletionCompletes
CHECK_DEADLOCK FALSE
