\* A payment and a trial of one customer, an operator, an administrator who
\* rewrites the plan, a crash, time passing.
SPECIFICATION Spec
CONSTANTS
  MaxDay = 1
  MaxCrashes = 1
  Users = {u1}
  Foreign = {}
  OperatorAccounts <- MCOperator
  None = None
  Payments = {p1}
  Workers = {w1}
  PlanIds = {1}
  PlanRows <- MCTwoRows
  CustomRequests <- MCCustom
  Custom = Custom
  TrialWorkers = {h1}
  MaxTrials = 1
  Jobs = {}
  Mute = {}
INVARIANTS
  TypeOK
  NoFreeTime
  RefusedIsRace
  SoldIsRecorded
PROPERTIES
  FullTermUnlessStale
\* Everything sold and given, the site has nothing left to do.
CHECK_DEADLOCK FALSE
