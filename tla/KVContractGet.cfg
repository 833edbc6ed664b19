\* What kvstore.thrift says of kvget: any string stored, "" included.
CONSTANTS
  Conns = {c1, c2}
  Keys = {k1, k2}
  Values = {v1, v2}
  Empty = Empty
  NoPair = NoPair
  Ops <- EveryCall
  SetValues <- Strings
  MayFail = FALSE
SPECIFICATION CSpec
PROPERTY GetContract
