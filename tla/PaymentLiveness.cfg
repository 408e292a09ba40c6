SPECIFICATION FairSpec
CONSTANTS
  Order = {o1}
  Req = {r1, r2}
  Copy = {c1, c2}
  Price = {1}
  FailPoints <- BeforeClaim
  MaxFailures = 2
INVARIANTS AckedIsApplied
PROPERTIES PaidGetsOrder PaidDeliveryGetsCourier
CHECK_DEADLOCK FALSE
