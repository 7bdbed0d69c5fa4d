\* Two slots, three ticks, two clicks.
CONSTANTS
  Max5h = 70
  Max7d = 80
  Fallback = 1
  Slots = {a1, a2}
  PauseAfter = 2
  Reports <- MCReports
  MaxTime = 3
  MaxRequests = 2
SPECIFICATION FairSpec
INVARIANTS TypeOK PausesAreSound ThrottleIsExact
PROPERTIES LimitPauseHolds OnlyAPersonLifts LimitPauseEnds
