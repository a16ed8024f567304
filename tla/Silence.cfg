SPECIFICATION Spec
CONSTANTS
  FrameMs = 250
  CalibratePercent = 97
  AdaptPercent = 22
  MinVoiced = 1
  Mode = "MOCK"
  Settings <- Conversations
  Replies <- ModelReplies
  Cap = 15
  MaxLag = 1
PROPERTIES NeverCutShort FinishedIsAnswered
CHECK_DEADLOCK FALSE
