\* Two payments of one customer, two goroutines, the process killed at any point.
SPECIFICATION Spec
CONSTANTS
  MaxDay = 1
  MaxCrashes = 1
  Users = {u1}
  Foreign = {}
  OperatorAccounts <- NoOperator
  None = None
  Payments = {p1, p2}
  Workers = {w1, w2}
  PlanIds = {1}
  PlanRows <- MCRows
  CustomRequests <- NoCustom
  Custom = Custom
INVARIANTS
  CreditedAtMostOnce
  NoFreeTime
  LossIsExplained
  AckedIsSettled
  RefusedIsRace
PROPERTIES
  FullTermUnlessStale
  LedgerSpec
SYMMETRY Symmetry
\* Everything sold and settled, the site has nothing left to do.
CHECK_DEADLOCK FALSE
