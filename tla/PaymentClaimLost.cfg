SPECIFICATION Spec
CONSTANTS
  Order = {o1}
  Req = {r1}
  Copy = {c1}
  Price = {1}
  FailPoints <- Everywhere
  MaxFailures = 1
INVARIANTS AckedIsApplied
CHECK_DEADLOCK FALSE
