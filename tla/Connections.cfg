\* Two stores, two accounts, two token pairs.
SPECIFICATION FairSpec
CONSTANTS
  s1 = s1
  s2 = s2
  Store = {s1, s2}
  a1 = a1
  a2 = a2
  Account = {a1, a2}
  owner = owner
  Actor = {owner}
  h1 = h1
  Handler = {h1}
  None = none
  RenewalTake = 2
  MaxTokens = 2
  MaxFaults = 1
INVARIANTS TypeOK TokenIsOwn DisconnectHolds
PROPERTIES RevokedIsPaused
CHECK_DEADLOCK FALSE
