\* A failure of one slot while another has limit-paused the lane; no clicks.
CONSTANTS
  Max5h = 70
  Max7d = 80
  Fallback = 1
  Slots = {a1, a2}
  PauseAfter = 1
  Reports <- MCReports
  MaxTime = 3
  MaxRequests = 0
SPECIFICATION Spec
SYMMETRY Symmetry
INVARIANTS StreakStaysPaused
