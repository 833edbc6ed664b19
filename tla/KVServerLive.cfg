\* kvserver_consistent under all three calls: races of kvdelete happen and
\* the process may crash; a crashed process takes no step.
CONSTANTS
  Conns = {c1, c2, c3}
  Keys = {k1}
  Values = {v1}
  Empty = Empty
  Absent = Absent
  NoConn = NoConn
  Ops <- EveryCall
  SetValues <- Values
  LockedOps <- kvserver_consistent_locks
  MaxFaults = 2
SPECIFICATION FairSpec
INVARIANTS TypeOK LockingSuffices StuckHasCause
PROPERTIES LockReleased ServerProgress
CHECK_DEADLOCK FALSE
