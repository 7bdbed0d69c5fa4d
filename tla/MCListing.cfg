SPECIFICATION FairSpec
CONSTANTS
  c1 = c1
  c2 = c2
  Channels = {c1, c2}
  Seeded = {c1}
  MaxUploads <- MCMaxUploads
  Shorts <- MCShorts
  Limit = 1
  PageSize = 2
  MaxPages = 2
  AutoRefresh = TRUE
  MaxRequests = 2
  MaxFaults = 1
  Removable <- MCRemovable
INVARIANTS TypeOK NoGap QueuedOnlyIfNew
PROPERTIES AddedIsListed UploadsArrive
