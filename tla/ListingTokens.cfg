SPECIFICATION Spec
CONSTANTS
  NKeys = 3
  PrefixSets <- SomePrefixes
  Group <- Folders
  DefaultMax = 2
  Rewinds <- AllOrNone
  MaxActive = 1
  MaxAsked = {0, 1, 2}
  MaxPages = 4
  MaxOps = 2
  MaxClock = 2
  ListLimit = 2
  RuleLists <- Lists
  Uploads = {u1}
  None = None
INVARIANT TokenPagesComplete
CHECK_DEADLOCK FALSE
