\* The site's promise that access follows payment.
SPECIFICATION Spec
CONSTANTS
  MaxDay = 0
  MaxCrashes = 0
  Users = {u1}
  Foreign = {}
  OperatorAccounts <- NoOperator
  None = None
  Payments = {p1}
  Workers = {w1}
  PlanIds = {1}
  PlanRows <- MCRows
  CustomRequests <- NoCustom
  Custom = Custom
INVARIANTS
  PaidIsActivated
\* Everything sold and settled, the site has nothing left to do.
CHECK_DEADLOCK FALSE
