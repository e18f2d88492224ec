\* Two tabs of one order, at Mercado Pago and at Webpay, one request at a time.
SPECIFICATION Spec
CONSTANTS
  p1 = p1
  p2 = p2
  o1 = o1
  h1 = h1
  h2 = h2
  Payment = {p1, p2}
  Order = {o1}
  OrderOf <- SameOrder
  MercadoPago = {p1}
  Handler = {h1}
  Worker = worker
  None = none
  TakePayments = 2
  TakeOrders = 1
  MaxFaults = 1
INVARIANTS TypeOK ChargesAreReal SoldOnce NoDoubleCharge
PROPERTIES KeepsLife
