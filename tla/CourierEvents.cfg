SPECIFICATION Spec
CONSTANTS
  Order = {o1, o2}
  Tenant = {t1}
  Job = {j1}
  Reported = {"pickup"}
  Naming = {TRUE, FALSE}
  Hook = {h1, h2}
  MaxQuotes <- QuotedTwice
  o1 = o1
SYMMETRY Symmetry
INVARIANTS TypeOK OwnCourier RowAndKitchenAgree AddressOfQuote
