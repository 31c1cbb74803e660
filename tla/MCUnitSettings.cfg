SPECIFICATION Spec
CONSTANTS
  Callers = {t1, t2}
  Settings = {s1}
  Times = {1, 2}
  MaxRows = 3
  MaxRaced = 2
SYMMETRY CallerSymmetry
INVARIANT VersionsInv
INVARIANT HistoryIsAChain
CHECK_DEADLOCK FALSE
