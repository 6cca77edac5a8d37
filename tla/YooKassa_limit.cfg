\* The site's promise that the device limit is the plan's.
SPECIFICATION Spec
CONSTANTS
  MaxDay = 0
  MaxCrashes = 0
  Users = {u1}
  Foreign = {f1}
  OperatorAccounts <- MCOperator
  None = None
  Payments = {p1}
  Workers = {w1}
  PlanIds = {1}
  PlanRows <- MCRows
  CustomRequests <- NoCustom
  Custom = Custom
PROPERTIES
  LimitIsThePlans
\* Everything sold and settled, the site has nothing left to do.
CHECK_DEADLOCK FALSE
