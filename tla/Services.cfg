SPECIFICATION FairSpec
CONSTANTS
  Runs = {1, 2, 3}
  RunSessions = {"a", "b"}
  SessionOf <- SessionOfRun
  Concurrency = 1
  MaxDepth = 1
  Callers = {1, 2}
  Threshold = 2
  Cooldown = 2
  Timeout = 1
  Server = "server"
  Others = {"script"}
  Renders = {1, 2}
  Microphones = {"headset", "builtin"}
  Choices = 1
  Changes = 3
INVARIANTS NoPlaceIsWasted PlayedWhole
PROPERTIES RunsAreAnswered VoiceComesBack MicrophoneComesBack
CHECK_DEADLOCK FALSE
