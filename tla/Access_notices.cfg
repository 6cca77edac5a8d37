\* A payment that renews access, an operator and a kill under the notifier's runs.  The
\* customer has two accounts, so that one can stand in the way of the other.
SPECIFICATION Spec
CONSTANTS
  MaxDay = 1
  MaxCrashes = 1
  Users = {u1}
  Foreign = {f1}
  OperatorAccounts <- MCEnding
  None = None
  Payments = {p1}
  Workers = {w1}
  PlanIds = {}
  PlanRows <- Nothing
  CustomRequests <- MCCustom
  Custom = Custom
  TrialWorkers = {}
  MaxTrials = 0
  Jobs = {j1}
  Mute = {}
INVARIANTS
  NoFreeTime
  OnceUnlessTrouble
PROPERTIES
  NobodyPassedOver
  NoFalseAlarm
\* Everything sold and everybody told, the site has nothing left to do.
CHECK_DEADLOCK FALSE
