SPECIFICATION Spec
CONSTANTS
  Keys = {k1, k2}
  Payloads = {p1, p2}
  Workers = {w1, w2}
  Recorded = {"UNCERTAIN", "RESOLVED_PRESENT"}
  Capacity = 1
  TTL = 2
  MaxTime = 3
  MaxToken = 3
  MaxRestarts = 1
SYMMETRY Symmetry
INVARIANT ClaimsInv
PROPERTY FencingNeverRegresses
PROPERTY TakeoverWaits
PROPERTY LatestOwnerOnly
CHECK_DEADLOCK FALSE
