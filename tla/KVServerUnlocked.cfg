\* kvserver serving two clients that set and get.
CONSTANTS
  Conns = {c1, c2}
  Keys = {k1}
  Values = {v1}
  Empty = Empty
  Absent = Absent
  NoConn = NoConn
  Ops <- SetGet
  SetValues <- Values
  LockedOps <- kvserver_locks
  MaxFaults = 0
SPECIFICATION Spec
PROPERTY Linearizable
CHECK_DEADLOCK FALSE
