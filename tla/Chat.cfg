\* One thread, two requests at a time, three requests.
SPECIFICATION Spec
CONSTANTS
  Buyer = buyer
  Seller = seller
  Admin = admin
  None = none
  h1 = h1
  h2 = h2
  Handler = {h1, h2}
  Limit = 1
  MaxRequests = 3
  MaxFaults = 1
SYMMETRY Requests
INVARIANTS TypeOK ContactsAfterTrade UnreadIsNoticed
PROPERTIES BlockHolds OneNoticePerBurst
CHECK_DEADLOCK FALSE
