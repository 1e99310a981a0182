SPECIFICATION Spec
CONSTANTS
  Tasks = {t1}
  t1 = t1
  t2 = t2
  t3 = t3
  MaxPermits = 1
  MaxQueries = 1
  MaxBufferedRows = 3
  MaxBufferedBytes = 9
  DefaultPageSize = 1
  MaxPageSize = 2
  PageSizes = {1, 2}
  PageIndexes = {0, 1}
  Formats = {Unset, "arrow_ipc"}
  Timeouts = {"none"}
  BatchSizes = {0, 2}
  BatchBytes = {1}
  MaxStreamRows = 4
  Unset = Unset
  NoTask = NoTask
  NoSession = NoSession
INVARIANT OverBudgetIsError
