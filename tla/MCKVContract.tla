---------------------------- MODULE MCKVContract ----------------------------
(***************************************************************************)
(* KVContract for TLC.                                                     *)
(***************************************************************************)
EXTENDS KVContract

EveryCall == AllOps
=============================================================================
