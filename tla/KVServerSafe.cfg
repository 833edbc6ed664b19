\* kvserver_consistent under kvset and kvget, one allocation failing.
CONSTANTS
  Conns = {c1, c2, c3}
  Keys = {k1, k2}
  Values = {v1, v2}
  Empty = Empty
  Absent = Absent
  NoConn = NoConn
  Ops <- SetGet
  SetValues <- Strings
  LockedOps <- kvserver_consistent_locks
  MaxFaults = 1
SPECIFICATION Spec
INVARIANT RaceFree
PROPERTY Linearizable
SYMMETRY Symmetry
