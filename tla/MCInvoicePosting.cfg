SPECIFICATION Spec
CONSTANTS
  l1 = l1
  l2 = l2
  Actors = {a1, p1}
  Posters = {p1}
  LineSets <- OneOrTwoLines
  Channels = {c1}
  MaxDrafts = 2
  MaxDocs = 3
  MaxVersions = 2
INVARIANT DraftPostedOnce
INVARIANT NoLostInvoice
INVARIANT ReadModelMatches
PROPERTY SnapshotFrozen
CHECK_DEADLOCK FALSE
