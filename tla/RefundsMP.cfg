\* A Mercado Pago charge with two webhooks in flight, errors and a crash.
SPECIFICATION Spec
CONSTANTS
  p1 = p1
  p2 = p2
  o1 = o1
  r1 = r1
  r2 = r2
  r3 = r3
  h1 = h1
  h2 = h2
  Payment <- OnePayment
  Order = {o1}
  OrderOf <- SameOrder
  Amount <- TwoPesos
  MercadoPago = {p1}
  Refund = {r1, r2, r3}
  RefundAmounts = {2, 3}
  Epsilon = 1
  MaxAttempts = 2
  Hook = {h1, h2}
  Worker = worker
  None = none
  MaxFaults = 1
SYMMETRY RowAndHookSymmetry
INVARIANTS TypeOK RefundCap ReturnedIsBacked StatusIsEarned
PROPERTIES RefundEnds KeepsLedger
CHECK_DEADLOCK FALSE
