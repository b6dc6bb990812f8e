SPECIFICATION FairSpec
CONSTANTS
  Rules <- MCConnectivity
  Quick <- MCNone
  Repeats <- MCConnectivity
  Announces <- MCConnectivity
  Required <- MCRequired
  Targets <- MCOneTarget
  NoRule = NoRule
INVARIANTS
  NotSilentlyClosed
PROPERTIES
  RecoveryReaches
