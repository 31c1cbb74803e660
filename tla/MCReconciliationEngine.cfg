SPECIFICATION Spec
CONSTANTS
  Intents = {n1, n2}
  Workers = {w1, w2}
  MaxItems = 2
  MaxToken = 2
  MaxCompletions = 2
  MaxRestarts = 2
  MaxAttempts = 2
  Modes = {"up", "http_error", "unreachable"}
  StartDocs = {"posted"}
  DocSteps = {}
  MaxCrashes = 0
SYMMETRY Symmetry
INVARIANT ItemsInv
PROPERTY StaleAnswersIgnored
PROPERTY RestartReplays
CHECK_DEADLOCK FALSE
