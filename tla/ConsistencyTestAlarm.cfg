\* The verdict of the test on a server that answers every call atomically.
CONSTANTS
  Keys = {k1, k2}
  Values = {v1, v2}
  Empty = Empty
  Unfilled = Unfilled
  num_of_threads = 2
  num_of_runs = 2
  TableSize = 4
  Margin = 1
  key_2 = k2
  value_1 = v1
  value_2 = v2
  Workload <- Key2Workload
  InitialContents <- EmptyServer
SPECIFICATION Spec
INVARIANTS NoFalseAlarm

CHECK_DEADLOCK FALSE
