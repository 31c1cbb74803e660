SPECIFICATION Spec
CONSTANTS
  k1 = k1
  k2 = k2
  p1 = p1
  p2 = p2
  Keys = {k1}
  Payloads = {p1, p2}
  DerivedKey <- MCDerivedKey
  Refs = {r1, r2}
  Workers = {w1, w2}
  Capacity = 2
  MaxToken = 2
  MaxFaults = 2
  Faults = {"append", "write", "provider", "timeout", "crash"}
INVARIANT ProviderAtMostOnce
INVARIANT AuditBeforeProvider
INVARIANT CallsClaimedPayload
INVARIANT ReferencesAreReal
INVARIANT AuditNeverOverclaims
PROPERTY ImplementsContract
CHECK_DEADLOCK FALSE
