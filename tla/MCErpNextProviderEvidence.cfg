SPECIFICATION Spec
CONSTANTS
  workflow = workflow
  operator = operator
  Clients = {workflow, operator}
  Does <- TwoPayers
  Invoices = {i1, i2}
  InScope = {i1}
  Evidence = {e1}
  MaxEntries = 2
  Total = 2
  MaxFaults = 0
INVARIANT OneEntryPerEvidence
CHECK_DEADLOCK FALSE
