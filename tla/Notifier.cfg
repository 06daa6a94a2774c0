SPECIFICATION Spec
CONSTANTS
  Failure = {k1, k2}
  Key = {k1, k2}
  Empty = Empty
  DlqCap = 2
  Severity = {1, 2}
  Kind = {"thread", "event"}
  RouteSeverity = {1}
  ChannelCap = 2
  MaxAttempts = 3
  Delay = 5
  MaxBackoff <- MaxBackoffOf
  RetryAfter = {7}
  IntBits = 4
  maxThreadMapSize = 1
  NoJob = NoJob
  MaxIncidents = 2
  MaxSilences = 1
SYMMETRY Symmetry
INVARIANTS LatestFailures EveryPageEnds ThreadsExact PauseWithinBounds
CHECK_DEADLOCK FALSE
