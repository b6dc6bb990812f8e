SPECIFICATION Spec
CONSTANTS
  Rules <- MCQuick
  Quick <- MCQuick
  Repeats <- MCNone
  Announces <- MCQuick
  Required <- MCRequired
  Targets <- MCOneTarget
  NoRule = NoRule
INVARIANTS
  AlertOncePerSpell
