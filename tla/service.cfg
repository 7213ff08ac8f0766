\* Two senders that can fill a pool of two, a reader (status or health) and a
\* monitored row.  The process may exit.
SPECIFICATION FairSpec
CONSTANTS
  Senders = {s1, s2}
  Readers = {q1}
  Rows = {r1}
  Monitor = monitor
  PoolSize = 2
  MaxUpdates = 1
INVARIANTS
  TypeOK
  NoConnectionLeaks
  StorageOutlivesRequests
PROPERTIES
  RequestsEnd
  MonitorRuns
  ShutdownEnds
CHECK_DEADLOCK FALSE
