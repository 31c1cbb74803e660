SPECIFICATION FairSpec
CONSTANTS
  workflow = workflow
  operator = operator
  Clients = {workflow, operator}
  Does <- MCDoes
  Invoices = {i1, i2}
  InScope = {i1}
  Evidence = {e1}
  MaxEntries = 2
  Total = 1
  MaxFaults = 1
INVARIANT AnswersAreTrue
INVARIANT DocumentsInv
PROPERTY EveryCallEnds
CHECK_DEADLOCK FALSE
