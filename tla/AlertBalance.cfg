SPECIFICATION FairSpec
CONSTANTS
  Rules <- MCBalance
  Quick <- MCNone
  Repeats <- MCNone
  Announces <- MCBalance
  Required <- MCRequired
  Targets <- MCOneTarget
  NoRule = NoRule
INVARIANTS
  TypeOK
  AlertOnce
  AlertingMeansTold
PROPERTIES
  AlertReaches
