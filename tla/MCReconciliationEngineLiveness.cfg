SPECIFICATION FairSpec
CONSTANTS
  Intents = {n1, n2}
  Workers = {w1}
  MaxItems = 2
  MaxToken = 2
  MaxCompletions = 2
  MaxRestarts = 0
  MaxAttempts = 2
  Modes = {"up", "outage", "http_error", "unreachable"}
  StartDocs = {"posted", "dropped", "draft", "unknown"}
  DocSteps <- Learning
  MaxCrashes = 1
PROPERTY WaitingItemsLeave
CHECK_DEADLOCK FALSE
