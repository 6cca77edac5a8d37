\* Liveness: goroutines run, the provider retries, the process is killed once.
SPECIFICATION FairSpec
CONSTANTS
  MaxDay = 0
  MaxCrashes = 1
  Users = {u1}
  Foreign = {}
  OperatorAccounts <- NoOperator
  None = None
  Payments = {p1, p2}
  Workers = {w1}
  PlanIds = {1}
  PlanRows <- MCRows
  CustomRequests <- NoCustom
  Custom = Custom
PROPERTIES
  Settles
\* Everything sold and settled, the site has nothing left to do.
CHECK_DEADLOCK FALSE
