\* Payments of quotations and memberships.
SPECIFICATION FairSpec
CONSTANTS
  mp = mp
  wp = wp
  ms = ms
  q1 = q1
  None = None
  Worker = worker
  Payment = {mp, wp, ms}
  Quotation = {q1}
  QuoteOf <- MCQuoteOf
  Provider <- MCProvider
  Handler = {h1, h2}
  MaxAttempts = 2
  MaxRequests = 3
  MaxFaults = 1
INVARIANTS TypeOK QuotePaidOnce
PROPERTIES CompletedIsHonoured
CHECK_DEADLOCK FALSE
