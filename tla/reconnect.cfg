\* One request at a time: an alias is registered again.
SPECIFICATION Spec
CONSTANTS
  t1 = t1
  t2 = t2
  e1 = e1
  e2 = e2
  pg = pg
  csv = csv
  orders = orders
  Orders = Orders
  None = None
  Tables = {orders}
  Tasks = {t1}
  DatabaseNames = {pg}
  FileNames = {}
  Endpoints = {e1, e2}
  Spellings = {orders}
  Listing <- Listed
  Queries <- OneRef
  MaxGeneration = 2
INVARIANT ReconnectedIsFresh
