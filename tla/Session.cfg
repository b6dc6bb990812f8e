SPECIFICATION FairSpec
CONSTANTS
  w1 = w1
  w2 = w2
  a = a
  b = b
  Accounts <- MCAccounts
  Configs <- MCConfigs
  Customers <- MCCustomers
  Programs <- MCPrograms
  Ids <- MCIds
  Workers <- MCWorkers
  None = None
  MaxCrashes = 1
INVARIANTS
  TypeOK
  OwnAccount
  RotationStored
PROPERTIES
  KeepsGettingIn
  StrangerGoes
