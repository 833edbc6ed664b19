\* The loops of the test on every table of four entries; they end.
CONSTANTS
  Keys = {k1, k2}
  Values = {v1, v2}
  Empty = Empty
  Unfilled = Unfilled
  TableSize = 4
  Margin = 1
  key_2 = k2
  value_1 = v1
  value_2 = v2
SPECIFICATION ChecksSpec
INVARIANTS ChecksTypeOK VerdictExact ThirdCheckSilent
CHECK_DEADLOCK FALSE
