SPECIFICATION Spec
CONSTANTS
  Order = {o1}
  Tenant = {t1, t2}
  Req = {r1, r2}
  Ops <- Op
  Kinds <- AllKinds
  Demo1 = d1
  Demo2 = d2
  Demo3 = o1
SYMMETRY Symmetry
INVARIANTS TypeOK ServedAfterArrival StampedStatus StatusExplained
PROPERTIES TerminalLeft NoFalseWaiting TenantIsolation ImplementsAtomic
