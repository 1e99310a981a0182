SPECIFICATION Spec
CONSTANTS
  l = l
  k = k
  r = r
  s = s
  u = u
  one = "one"
  two = "two"
  three = "three"
  null = "null"
  Tables <- MCTables
  Remote = {r, s}
  Unsupported = {u}
  Values = {"one", "two", "three"}
  Null = "null"
  Cast <- MCCast
  Plans <- MCPlans
  Contents <- MCContents
  MaxLocalRows = 2
  MaxChanges = 1
INVARIANTS
  RewriteKeepsResult
  RewriteNarrows
  AccountsForJoins
\* the pass ends with the walk
CHECK_DEADLOCK FALSE
