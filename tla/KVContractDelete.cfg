\* What kvstore.thrift says of kvdelete: keys deleted that were never stored.
CONSTANTS
  Conns = {c1, c2}
  Keys = {k1, k2}
  Values = {v1, v2}
  Empty = Empty
  NoPair = NoPair
  Ops <- EveryCall
  SetValues <- Values
  MayFail = FALSE
SPECIFICATION CSpec
PROPERTY DeleteContract
