SPECIFICATION FairSpec
CONSTANTS
  Keys = {"prep", "direct", "other"}
  Preparations = {"prep"}
  Calls = {"c", "d"}
  Grace = 1
  Abandon = 2
  Expected = 2
  Settings <- Everything
  UserOf <- Owner
  AsksFor <- Picked
  Questions = {"q1", "q2"}
  Replicas = {"p", "q"}
  MaxActive = 1
  Monthly = 1
INVARIANTS AdmissionHolds ReadyIsOneInterview CreditedOnce
PROPERTIES StartedEnds
CHECK_DEADLOCK FALSE
