\* A kvclient and a kvclient_1 against one server: connections break and
\* allocations fail; the programs end.
CONSTANTS
  Clients = {c1, c2}
  SeqIds = {0}
  OneShot = {c1}
  Keys = {k1}
  Values = {v1}
  Empty = Empty
  NoFile = NoFile
  MayFail = TRUE
  LockedOps = {"kvset", "kvget"}
  Missing = Missing
  Lines <- SomeLines
SPECIFICATION FairSpec
INVARIANTS TypeOK InSync NoEmptyFile
PROPERTIES AtMostOnce CallsAsAsked CallsEnd ThreadsEnd
CHECK_DEADLOCK FALSE
