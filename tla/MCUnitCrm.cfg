SPECIFICATION CrmSpec
CONSTANTS
  c1 = c1  c2 = c2  a1 = a1  a2 = a2  u1 = u1  u2 = u2  u3 = u3  k1 = k1
  Clients = {c1, c2}
  Actors = {a1, a2}
  Units = {u1, u2, u3}
  Scope = {u1, u2}
  Contacts = {k1}
  LeadNatives = {"LEAD", "REPLIED"}
  QuoteNatives = {"DRAFT", "OPEN"}
  Searches <- NewLeads
  Rosters <- OneRoster
  Limits = {1}
  MaxLeads = 2
  MaxWork = 3
  MaxQuotes = 1
  MaxOutside = 1
SYMMETRY CrmSymmetry
INVARIANT LeadsInv
INVARIANT PagesAreComplete
CHECK_DEADLOCK FALSE
