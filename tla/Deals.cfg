\* An exchange already proposed and a sale of the same bicycle, two requests at
\* a time and the sweep.
SPECIFICATION FairSpec
CONSTANTS
  ana = ana
  beto = beto
  carla = carla
  bike = bike
  coat = coat
  d1 = d1
  d2 = d2
  User = {ana, beto, carla}
  Product = {bike, coat}
  Owner <- Owners
  Price <- Prices
  Gap = 1
  Deal = {d1, d2}
  Terms <- Proposals
  Standing = {d2}
  Threshold = 2
  Handler = {h1, h2}
  Sweeper = sweeper
  None = none
  MaxRequests = 4
  MaxFaults = 1
INVARIANTS TypeOK PointsAreEarned BlockIsEarned
PROPERTIES LateDealsEnd
CHECK_DEADLOCK FALSE
