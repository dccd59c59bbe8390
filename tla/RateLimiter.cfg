SPECIFICATION Spec
CONSTANTS
  Clients = {c1, c2}
  Requests = {r1, r2, r3, r4}
  MaxRequests = 2
  Window = 4
  MaxLag = 4
  MaxTime = 10
SYMMETRY Symmetry
CHECK_DEADLOCK FALSE
INVARIANTS
  BudgetRespected
  RefusedOnlyOverBudget
PROPERTIES
  ImplementsTokenBucket
