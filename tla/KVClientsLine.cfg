\* A kvclient_1 alone: what it makes of a line of two options.
CONSTANTS
  Clients = {c1}
  SeqIds = {0}
  OneShot = {}
  Keys = {k1}
  Values = {v1}
  Empty = Empty
  NoFile = NoFile
  MayFail = FALSE
  LockedOps = {"kvset", "kvget"}
  Missing = Missing
  Lines <- SomeLines
SPECIFICATION Spec
PROPERTY EveryOptionPerformed
CHECK_DEADLOCK FALSE
