SPECIFICATION FairSpec
CONSTANTS
  Rules <- MCQuick
  Quick <- MCQuick
  Repeats <- MCNone
  Announces <- MCQuick
  Required <- MCRequired
  Targets <- MCOneTarget
  NoRule = NoRule
PROPERTIES
  ReportedAgain
