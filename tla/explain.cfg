SPECIFICATION Spec
CONSTANTS
  None = None
  Queries <- MCQueries
  Databases <- MCDatabases
  Statistics <- MCStatistics
  MaxNodes = 4
  MaxRows = 100
  MaxBytes = 1000
  MaxUsize = 65535
  MaxRequests = 2
INVARIANTS
  GraphIsPlan
  CardsAgree
  MetricsOnOwnNode
  SqlOfItsScan
  LineageResolves
PROPERTY ExplainAnswers
\* the last request is answered
CHECK_DEADLOCK FALSE
