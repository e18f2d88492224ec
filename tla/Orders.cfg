\* Checkout, shipping and points, with two requests at a time.
SPECIFICATION Spec
CONSTANTS
  o1 = o1
  o2 = o2
  used = used
  new = new
  ana = ana
  shop = shop
  aide = aide
  None = None
  Order = {o1, o2}
  Product = {used, new}
  Person = {ana, shop, aide}
  Buyer <- MCBuyer
  Cart <- MCCart
  SellerOf <- MCSellerOf
  StoreGoods = {new}
  Price <- MCPrice
  OfferPrice <- MCOfferPrice
  ShippingCost <- MCShippingCost
  StaffOf <- MCStaffOf
  Operators = {ana}
  Rates = {5, 500}
  Handler = {h1, h2}
  MaxRequests = 4
  MaxChanges = 1
  MaxFaults = 1
INVARIANTS TypeOK OrdersAreEarned
SYMMETRY Symmetry
CHECK_DEADLOCK FALSE
