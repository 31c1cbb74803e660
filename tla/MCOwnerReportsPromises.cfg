SPECIFICATION ReportSpec
CONSTANTS
  alice = alice  u1 = u1  u2 = u2  idr = idr  usd = usd  r1 = r1  r2 = r2  r3 = r3
  Actors = {alice}
  Units = {u1, u2}
  Refs = {r1, r2, r3}
  Roles = {"OWNER", "UNIT-SALES"}
  Invoices = {1, 2}
  Currencies = {idr, usd}
  UnitRank <- Rank
  Rosters <- OneRoster
  PageLength = 2
  MaxAmount = 1
  MaxInstant = 1
INVARIANT CurrenciesNeverMixed
