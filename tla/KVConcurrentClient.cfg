\* Three threads that share one connection and make three calls between them;
\* the connection may break.  The calls run out.
CONSTANTS
  Threads = {t1, t2, t3}
  Shared = c1
  Clients = {c1}
  SeqIds = {0, 1, 2}
  MaxCalls = 3
  Keys = {k1}
  Values = {v1}
  Empty = Empty
  NoThread = NoThread
  NoSeqid = NoSeqid
  MayFail = FALSE
  LockedOps = {"kvset", "kvget"}
  Setters = {t1}
  Workload <- SetOrGet
SPECIFICATION FairSpec
INVARIANTS TypeOK HeaderKept SleepersWatched
PROPERTIES AtMostOnce CallsEnd
CHECK_DEADLOCK FALSE
