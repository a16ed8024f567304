SPECIFICATION FairSpec
CONSTANTS
  Settings <- Troubles
  MaxMints = 3
  MaxDials = 2
  MaxWords = 2
INVARIANTS CompletedWasHeard
PROPERTIES UtterancesEnd AuthorizationCloses WordsGetThrough
CHECK_DEADLOCK FALSE
