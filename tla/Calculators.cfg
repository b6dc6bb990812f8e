SPECIFICATION Spec
CONSTANTS
  Thresholds <- MCThresholds
  Lengths = {0, 1, 2, 3}
  Shapes <- MCShapes
  MaxTiers = 3
  RequestRules <- MCRequestRules
  Today = 3
  Histories <- MCHistories
  MaxInstances = 2
  BreakdownLimit = 1
  Groups = {1, 2}
  Upstreams <- MCUpstreams
  MaxUpstreams = 2
  None = None
INVARIANTS
  TiersApply
  TiersCover
  ChartAddsUp
  TodayAgrees
  BestIsCheapest
CHECK_DEADLOCK FALSE
