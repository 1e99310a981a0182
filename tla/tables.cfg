SPECIFICATION Spec
CONSTANTS
  c1 = c1
  c2 = c2
  None = None
  Blank = Blank
  Clicks = {c1, c2}
  Alias = "pg"
  Catalog = "datafusion"
  Default = "public"
  Lower <- MCLower
  Order <- MCOrder
  Objects <- MCObjects
  Internal <- MCInternal
  Databases <- MCDatabases
  Profiles <- MCProfiles
  Texts <- MCTexts
  ListLimit = 2
  PageSize = 1
  MaxChanges = 1
INVARIANTS
  ListedIsQueryable
  ExactNameWins
  TreeComplete
PROPERTY LoadMoreEnds
\* the tree and the daemon go on
CHECK_DEADLOCK FALSE
