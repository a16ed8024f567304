SPECIFICATION Spec
CONSTANTS
  WrapUpSeconds = 120
  FollowUpMinSeconds = 360
  FollowUpsAvailable = 2
  MaxHintLevel = 2
  HintBudget = 3
  AcknowledgesSmallTalk = FALSE
  Families <- SomeFamilies
  Probes <- SomeProbes
  FollowUps <- SomeFollowUps
  Facts <- SomeFacts
  Settings <- Rounds
  MaxRepeats = 1
INVARIANT KeepsToTheScenario
PROPERTIES WindsDownUnderPressure
