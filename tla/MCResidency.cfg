SPECIFICATION FairSpec
CONSTANTS
  a = a
  b = b
  t1 = t1
  l1 = l1
  Callers = {t1}
  Loaders = {l1}
  Values <- MCValues
  Droppable = {b}
  Size <- MCSize
  Needs <- MCNeeds
  Budgets = {1, 2}
  NumFlights = 5
  MaxJobs = 1
  NoFlight = NoFlight
INVARIANTS
  Accounted
  SingleFlight
PROPERTIES
  BudgetKept
  GetsReturn
