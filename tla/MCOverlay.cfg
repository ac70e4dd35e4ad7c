\* A day and a half of two minutes each.
SPECIFICATION OverlaySpec
CONSTANTS
  v1 = v1
  v2 = v2
  v3 = v3
  other = other
  None = None
  Curated <- MCCurated
  Selections <- MCSelections
  Elsewhere <- MCElsewhere
  Minutes = 2
  MaxClock = 6
  ClockTargets <- MCClockTargets
INVARIANTS
  OverlayTypeOK
  DealtOut
  AskedVerseStays
  OncePerDay
PROPERTIES
  DrawIsNew
  OpensInItsMinute
