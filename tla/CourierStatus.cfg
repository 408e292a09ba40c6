SPECIFICATION Spec
CONSTANTS
  Order = {o1}
  Tenant = {t1}
  Job = {j1}
  Hook = {h1, h2}
  MaxQuotes <- QuotedOnce
  o1 = o1
  Reported = {"pickup"}
  Naming = {FALSE}
SYMMETRY Symmetry
INVARIANTS LatestStatus
