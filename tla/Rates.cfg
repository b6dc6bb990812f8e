SPECIFICATION FairSpec
CONSTANTS
  w1 = w1
  w2 = w2
  Groups <- MCGroups
  Ratios <- MCRatios
  Answers <- MCAnswers
  MinPercent = 60
  Workers <- MCTwoWorkers
  None = None
  NoOne = NoOne
INVARIANTS
  TypeOK
  UntoldHasReason
  OnePerCooldown
PROPERTIES
  RatiosConverge
