\* kvserver_consistent serving two clients that also delete.
CONSTANTS
  Conns = {c1, c2}
  Keys = {k1}
  Values = {v1}
  Empty = Empty
  Absent = Absent
  NoConn = NoConn
  Ops <- EveryCall
  SetValues <- Values
  LockedOps <- kvserver_consistent_locks
  MaxFaults = 0
SPECIFICATION Spec
INVARIANT RaceFree
CHECK_DEADLOCK FALSE
