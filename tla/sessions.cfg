\* Streams that may stall for ever: what frees the tasks that wait for them.
SPECIFICATION FairSpec
CONSTANTS
  Tasks = {t1, t2, t3}
  t1 = t1
  t2 = t2
  t3 = t3
  MaxPermits = 2
  MaxQueries = 1
  MaxBufferedRows = 2
  MaxBufferedBytes = 2
  DefaultPageSize = 1
  MaxPageSize = 1
  PageSizes = {1}
  PageIndexes = {0}
  Formats = {"arrow_ipc", "other"}
  Timeouts = {"none", "some", "zero"}
  BatchSizes = {1}
  BatchBytes = {1}
  MaxStreamRows = 1
  Unset = Unset
  NoTask = NoTask
  NoSession = NoSession
INVARIANTS TypeOK PermitAccounting LockHeldByReader NoOrphanSession
PROPERTIES CancelUnblocks TimeoutEndsRead
