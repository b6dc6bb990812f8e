SPECIFICATION FairSpec
CONSTANTS
  w1 = w1
  w2 = w2
  Items <- MCItems
  WithId <- MCWithId
  Workers <- MCWorkers
  PushLimit = 1
  MaxBoot = 2
  NoOne = NoOne
INVARIANTS
  TypeOK
  PushedOnce
  HistoryNotPushed
  NotifiedMeansTold
PROPERTIES
  ListedIsStored
  KeepsPromise
