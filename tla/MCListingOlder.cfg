SPECIFICATION Spec
CONSTANTS
  c1 = c1
  c2 = c2
  Channels = {c1, c2}
  Seeded = {c1}
  MaxUploads <- MCMaxUploads
  Shorts <- MCShorts
  Limit = 2
  PageSize = 2
  MaxPages = 2
  AutoRefresh = FALSE
  MaxRequests = 2
  MaxFaults = 0
  Removable <- MCRemovable
PROPERTIES LoadsOlder
CHECK_DEADLOCK FALSE
