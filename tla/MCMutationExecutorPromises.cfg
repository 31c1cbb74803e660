SPECIFICATION Spec
CONSTANTS
  k1 = k1
  k2 = k2
  p1 = p1
  p2 = p2
  Keys = {k1, k2}
  Payloads = {p1, p2}
  DerivedKey <- MCDerivedKey
  Refs = {r1, r2}
  Workers = {w1, w2}
  Capacity = 3
  MaxToken = 2
  MaxFaults = 1
  Faults = {"append", "write", "provider", "timeout", "crash"}
\* Each of these is violated; TLC reports one at a time.
INVARIANT FailedMeansNoMutation
\* INVARIANT ExternalRefUnique
\* INVARIANT SuccessIsAudited
CHECK_DEADLOCK FALSE
