SPECIFICATION FairSpec
CONSTANTS
  WrapUpSeconds = 0
  FollowUpMinSeconds = 2
  FollowUpsAvailable = 1
  MaxHintLevel = 2
  HintBudget = 2
  AcknowledgesSmallTalk = FALSE
  Timers = {"timer"}
  Requests = {"http"}
  StartRemaining = 2
  SettingNames = {"talk", "grounded"}
  SettingOf <- Named
INVARIANT RecoveryIsExact
PROPERTIES OneReplyPerTurn HeldTurnIsSettled LastQuestionIsAnswered
CHECK_DEADLOCK FALSE
