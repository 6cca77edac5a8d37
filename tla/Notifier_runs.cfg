\* Two runs at a time over three days, an operator, the process killed once.
SPECIFICATION Spec
CONSTANTS
  MaxDay = 2
  MaxCrashes = 1
  Users = {u1}
  Foreign = {}
  OperatorAccounts <- MCOperator
  None = None
  Jobs = {j1, j2}
  Mute = {}
INVARIANTS
  TypeOK
  OnceUnlessTrouble
  RecordedWasMailed
PROPERTIES
  NoFalseAlarm
SYMMETRY Symmetry
\* The days end, and then nothing is left to do.
CHECK_DEADLOCK FALSE
