SPECIFICATION Spec
CONSTANTS
  workflow = workflow
  operator = operator
  Clients = {workflow, operator}
  Does <- OnePoster
  Invoices = {i1, i2}
  InScope = {i1}
  Evidence = {e1}
  MaxEntries = 2
  Total = 2
  MaxFaults = 1
PROPERTY RejectedMeansNoMutation
CHECK_DEADLOCK FALSE
