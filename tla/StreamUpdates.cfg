SPECIFICATION Spec
CONSTANTS
  Order = {o1, o2}
  Tenant = {t1, t2}
  Req = {r1, r2, r3}
  Client = {c1}
SYMMETRY Symmetry
INVARIANTS TypeOK NoForeignOrders EveryChangeIsSent
CHECK_DEADLOCK FALSE
