SPECIFICATION Spec
CONSTANTS
  Order = {o1}
  Tenant = {t1}
  Req = {r1}
  Client = {c1}
INVARIANTS QuietScreensCurrent
CHECK_DEADLOCK FALSE
