\* Two tasks page through one query: short batches, the buffer limits, errors
\* and cancellation.
SPECIFICATION Spec
CONSTANTS
  Tasks = {t1, t2}
  t1 = t1
  t2 = t2
  t3 = t3
  MaxPermits = 2
  MaxQueries = 1
  MaxBufferedRows = 3
  MaxBufferedBytes = 3
  DefaultPageSize = 2
  MaxPageSize = 2
  PageSizes = {0, 1, 3, Unset}
  PageIndexes = {0, 1, 2}
  Formats = {Unset}
  Timeouts = {"none", "some"}
  BatchSizes = {0, 1, 2}
  BatchBytes = {1, 2}
  MaxStreamRows = 4
  Unset = Unset
  NoTask = NoTask
  NoSession = NoSession
SYMMETRY TaskSymmetry
INVARIANTS BufferBounded HandleInv ExactPages RepeatablePages
PROPERTIES CancelledNotRead PromiseKept
