SPECIFICATION Spec
CONSTANTS
  Req = {r1, r2}
  QuestionLimit = 1
  WarningAfter = 1
  ExpireAfter = 2
  HistoryCap = 1
  MaxTime = 2
SYMMETRY Symmetry
PROPERTIES NewSessionCanAsk
CHECK_DEADLOCK FALSE
