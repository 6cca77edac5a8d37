\* Payments and trials prolong, says the code.
SPECIFICATION Spec
CONSTANTS
  MaxDay = 0
  MaxCrashes = 0
  Users = {u1}
  Foreign = {}
  OperatorAccounts <- Nothing
  None = None
  Payments = {p1, p2}
  Workers = {w1}
  PlanIds = {1}
  PlanRows <- MCRows
  CustomRequests <- Nothing
  Custom = Custom
  TrialWorkers = {h1}
  MaxTrials = 1
  Jobs = {}
  Mute = {}
PROPERTIES
  GrantsProlong
\* Everything sold and given, the site has nothing left to do.
CHECK_DEADLOCK FALSE
