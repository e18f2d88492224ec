\* Two orders that want one unit more than there is, a duplicate payment,
\* refunds and a crash.
SPECIFICATION FairSpec
CONSTANTS
  o1 = o1
  o2 = o2
  p1 = p1
  p2 = p2
  p3 = p3
  Order = {o1, o2}
  Payment = {p1, p2, p3}
  Product = {unit}
  OrderOf <- PaysOrder
  Payer <- PaidBy
  Quantity <- Units21
  Price <- OneEach
  Amount <- Charges
  Shelf <- TwoEach
  MaxAttempts = 2
  MaxRequested <- Asked
  None = none
  MaxFaults = 1
INVARIANTS TypeOK UnitsConserved BackOnlyIfRefunded ShortIsRefunded
PROPERTIES SoldUnitsReturn
CHECK_DEADLOCK FALSE
