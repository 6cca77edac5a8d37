\* Two goroutines of one customer, operators' accounts, one kill, a day passing.
SPECIFICATION Spec
CONSTANTS
  MaxDay = 2
  MaxCrashes = 1
  Users = {u1}
  Foreign = {f1}
  OperatorAccounts <- MCOperator
  None = None
  TrialWorkers = {h1, h2}
  MaxTrials = 2
INVARIANTS
  TypeOK
  OnceUnlessUnguarded
  MarkedWasGiven
  GivenIsMarked
  LiveIsShown
SYMMETRY Symmetry
\* Requests stop at MaxTrials; then nothing is left to do.
CHECK_DEADLOCK FALSE
