SPECIFICATION FairSpec
CONSTANTS
  WrapUpSeconds = 0
  FollowUpMinSeconds = 2
  FollowUpsAvailable = 1
  MaxHintLevel = 2
  HintBudget = 2
  AcknowledgesSmallTalk = FALSE
  Timers = {}
  Requests = {"http"}
  StartRemaining = 2
  SettingNames = {"opening", "observed", "recovered"}
  SettingOf <- Named
INVARIANTS NotLeftSpeaking
PROPERTIES OwedOpeningIsReoffered ObserverCatchesUp
CHECK_DEADLOCK FALSE
