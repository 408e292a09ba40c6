SPECIFICATION Spec
CONSTANTS
  Order = {o1, o2}
  Req = {r1, r2}
  Copy = {c1, c2}
  Price = {1, 2}
  FailPoints <- Everywhere
  MaxFailures = 2
SYMMETRY Symmetry
INVARIANTS TypeOK AppliedOnce PaidMeansCharged SettledOnce
PROPERTIES KitchenWorkKept ImplementsIdeal
CHECK_DEADLOCK FALSE
