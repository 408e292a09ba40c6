INIT Init
NEXT Next
CONSTANTS
  Joiner = {One, Other}
  Reply = {One, Other}
  Issue = {One, Other}
  Tenant = {One, Other}
  Creator = {One, Other}
  Refresher = {One, Other}
  Clerk = {One, Other}
  Caller = {One, Other}
  Review = {i1, i2}
  Reader = {i1}
  Item = {i1, i2}
  Table = {"menu", "promotions", "reservations", "legacyOrders", "reviews"}
  MaxChanges = 2
  Life = 3
  Slack = 1
  Horizon = 5
  Mills <- MCMills
  Quantity = {0, 1, 2}
  QuotedFee <- MCQuotedFee
  TaxBps = 825
  FeeBps = 500
SYMMETRY Symmetry
INVARIANTS TypeOK LatestMailOpens OneAccount ReadyWhenCharged
           OrphanExplained TokenAlive ServedForOwnRestaurant ChargedIsReported
PROPERTIES ReadMeansListed ClosedGroupKept StatusMovesOn UnaskedFieldsKept
CHECK_DEADLOCK FALSE
