SPECIFICATION FairSpec
CONSTANTS
  w1 = w1
  w2 = w2
  MaxDay = 4
  MaxSpend = 1
  Lookback = 3
  Keep = 2
  Workers <- MCWorkers
  NoRow = NoRow
  NoOne = NoOne
INVARIANTS
  TypeOK
  NeverInvented
  CompleteStays
PROPERTIES
  UsageConverges
