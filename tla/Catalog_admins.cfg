\* Two requests at a time on two plans, failures, the process killed once.
SPECIFICATION Spec
CONSTANTS
  MaxDay = 0
  MaxCrashes = 1
  PlanIds = {1, 2}
  Details = {"old", "new"}
  Places = {0, 1}
  NewPlans <- MCNewPlans
  Patches <- MCPatches
  Arrangements <- MCArrangements
  Editors = {e1, e2}
  None = None
INVARIANTS
  TypeOK
  AsAcknowledged
PROPERTIES
  DeletedStaysDeleted
\* Every id given out and every plan deleted, there is nothing left to do.
CHECK_DEADLOCK FALSE
