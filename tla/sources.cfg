\* Two requests about a file and about one alias that two databases take in turns.
SPECIFICATION Spec
CONSTANTS
  t1 = t1
  t2 = t2
  e1 = e1
  e2 = e2
  pg = pg
  csv = csv
  orders = orders
  Orders = Orders
  None = None
  Tables = {orders}
  Tasks = {t1, t2}
  DatabaseNames = {pg}
  FileNames = {csv}
  Endpoints = {e1, e2}
  Spellings = {orders, Orders}
  Listing <- Listed
  Queries <- BothRefs
  MaxGeneration = 2
SYMMETRY Symmetric
INVARIANTS TypeOK SchemaOfItsSource GenerationIdentifies TablesAgree RemovedNotQueried
PROPERTY OthersSpared
