SPECIFICATION FairSpec
CONSTANTS
  Intents = {n1}
  Workers = {w1}
  MaxItems = 1
  MaxToken = 3
  MaxCompletions = 3
  MaxRestarts = 0
  MaxAttempts = 2
  Modes = {"up", "outage", "http_error", "unreachable"}
  StartDocs = {"posted", "dropped", "draft", "unknown"}
  DocSteps <- Settling
  MaxCrashes = 0
\* Each of these is violated; TLC reports one at a time.
PROPERTY AmbiguousNeverRetried
\* PROPERTY RetryOnlyWhenAbsent
\* PROPERTY NoItemStuck
CHECK_DEADLOCK FALSE
