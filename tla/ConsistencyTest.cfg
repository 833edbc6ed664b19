\* Two threads of two calls each against a server that starts empty, or with a
\* pair of key_2; the last of the four events is not printed.  The process ends.
CONSTANTS
  Keys = {k1, k2}
  Values = {v1, v2}
  Empty = Empty
  Unfilled = Unfilled
  num_of_threads = 2
  num_of_runs = 2
  TableSize = 4
  Margin = 1
  key_2 = k2
  value_1 = v1
  value_2 = v2
  Workload <- Key2Workload
  InitialContents <- UsedServer
SPECIFICATION FairSpec
INVARIANTS TypeOK GapsAtEnd AlarmNeedsCause
PROPERTIES FreshNumbersGrow Termination
CHECK_DEADLOCK FALSE
