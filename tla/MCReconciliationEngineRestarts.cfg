SPECIFICATION Spec
CONSTANTS
  Intents = {n1, n2, n3}
  Workers = {w1}
  MaxItems = 3
  MaxToken = 2
  MaxCompletions = 2
  MaxRestarts = 2
  MaxAttempts = 2
  Modes = {"up"}
  StartDocs = {"posted", "unknown"}
  DocSteps = {}
  MaxCrashes = 0
\* Each of these is violated; TLC reports one at a time.
INVARIANT OneItemPerIntent
\* PROPERTY RestartRestores
CHECK_DEADLOCK FALSE
