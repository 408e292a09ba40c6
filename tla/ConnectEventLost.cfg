SPECIFICATION Spec
CONSTANTS
  Creator = {c1}
  Refresher = {x1}
  MaxChanges = 2
INVARIANT AckedIsStored
CHECK_DEADLOCK FALSE
