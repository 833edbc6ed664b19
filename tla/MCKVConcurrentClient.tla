------------------------ MODULE MCKVConcurrentClient ------------------------
(***************************************************************************)
(* KVConcurrentClient for TLC: threads that set or get one key.            *)
(***************************************************************************)
EXTENDS KVConcurrentClient

CONSTANT Setters  \* the threads that set; the others get

\* The answers differ: that to a get has a value once a set took effect.
SetOrGet ==
  [t \in Threads |->
     IF t \in Setters THEN [fname : {"kvset"}, key : Keys, value : Values]
                      ELSE [fname : {"kvget"}, key : Keys, value : {Empty}]]
=============================================================================
