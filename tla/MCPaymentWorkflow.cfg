SPECIFICATION Spec
CONSTANTS
  a1 = a1
  a2 = a2
  i1 = i1
  i2 = i2
  u1 = u1
  u2 = u2
  Actors = {a1, a2}
  Units = {u1, u2}
  Invoices = {i1, i2}
  Evidence = {e1, e2}
  Keys = {k1}
  Amounts = {1}
  UnitOf <- TwoUnits
  Total <- Totals
  MayRecord <- Clerks
  MaxPayments = 2
  MaxClaims = 2
INVARIANT BooksInv
INVARIANT LocalViewIsTrue
PROPERTY NoBlindRetry
PROPERTY ReconcileStaysInScope
CHECK_DEADLOCK FALSE
