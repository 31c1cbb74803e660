SPECIFICATION Spec
CONSTANTS
  alice = alice  bob = bob  u1 = u1  u2 = u2  r1 = r1  r2 = r2  r3 = r3  idr = idr  usd = usd
  c1 = c1  c2 = c2  a = a  b = b
  Actors = {alice, bob}
  Units = {u1, u2}
  Refs = {r1, r2, r3}
  Roles = {"FINANCE-REQUESTER", "FINANCE-POSTER"}
  Customers = {c1, c2}
  Keys = {"K1"}
  Lines <- LineSets
  FirstRoster <- Roster
  Configurations <- ConfigChoices
  SettingsOf <- SettingsVersions
  MaxDrafts = 2
  MaxIssued = 2
  MaxTime = 2
  MaxChanges = 1
SYMMETRY DraftSymmetry
CHECK_DEADLOCK FALSE
INVARIANT DraftsInv
INVARIANT HashIdentifiesPreview
INVARIANT OverrideOnlyDecides
PROPERTY RevisedDraftsAreFrozen
PROPERTY ReviewIsCurrent
