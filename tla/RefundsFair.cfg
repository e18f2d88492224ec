\* A store that also refunds from its own account: no faults but the provider's,
\* which repeats a notice until it is answered.
SPECIFICATION NotifiedSpec
CONSTANTS
  p1 = p1
  p2 = p2
  o1 = o1
  r1 = r1
  r2 = r2
  r3 = r3
  h1 = h1
  h2 = h2
  Payment <- OnePayment
  Order = {o1}
  OrderOf <- SameOrder
  Amount <- TwoPesos
  MercadoPago = {p1}
  Refund = {r1, r2, r3}
  RefundAmounts = {2, 3}
  Epsilon = 1
  MaxAttempts = 2
  Hook = {h1}
  Worker = worker
  None = none
  MaxFaults = 0
PROPERTIES RefundsEnd FullRefundClosesOrder StoreRefundsAreRecorded
CHECK_DEADLOCK FALSE
