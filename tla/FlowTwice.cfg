\* A return and a webhook of one payment at once.
SPECIFICATION Spec
CONSTANTS
  p1 = p1
  p2 = p2
  o1 = o1
  h1 = h1
  h2 = h2
  Payment = {p1}
  Order = {o1}
  OrderOf <- SameOrder
  MercadoPago = {p1}
  Handler = {h1, h2}
  Worker = worker
  None = none
  TakePayments = 1
  TakeOrders = 1
  MaxFaults = 0
INVARIANTS AutoRefundHasReason
