----------------------------- MODULE MCKVServer -----------------------------
(***************************************************************************)
(* KVServer for TLC: the two programs as instances, on a few connections,  *)
(* keys and values, with the symmetry of each of these sets.               *)
(***************************************************************************)
EXTENDS KVServer, TLC

\* What consistency_test issues, and every call of the service.
SetGet == {"kvset", "kvget"}
EveryCall == AllOps

Symmetry == Permutations(Conns) \cup Permutations(Keys) \cup Permutations(Values)
=============================================================================
