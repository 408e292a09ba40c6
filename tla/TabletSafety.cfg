SPECIFICATION Spec
CONSTANTS
  Req = {r1, r2, r3}
  QuestionLimit = 1
  WarningAfter = 1
  ExpireAfter = 2
  HistoryCap = 1
  MaxTime = 3
SYMMETRY Symmetry
INVARIANTS TypeOK AnsweredWithinLimit
PROPERTIES PaidSessionKept ActiveSessionKept
CHECK_DEADLOCK FALSE
