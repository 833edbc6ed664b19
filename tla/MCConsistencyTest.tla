------------------------- MODULE MCConsistencyTest --------------------------
(***************************************************************************)
(* ConsistencyTest for TLC: two threads, a server that is empty or not.    *)
(***************************************************************************)
EXTENDS ConsistencyTest

EmptyServer == {[k \in Keys |-> Empty]}

\* What an earlier run of the test may have left.
UsedServer == EmptyServer \cup {[k \in Keys |-> IF k = key_2 THEN value_1 ELSE Empty]}

Set(k, v) == [fname |-> "kvset", key |-> k, value |-> v]

Get(k) == [fname |-> "kvget", key |-> k, value |-> Empty]

\* Sets of key_2 to both values, gets of it, and gets of the other keys.
Key2Workload == {Set(key_2, v) : v \in Values} \cup {Get(k) : k \in Keys}
=============================================================================
