---------------------------- MODULE KVStoreTypes ----------------------------
(***************************************************************************)
(* The data of kvstore.thrift: keys, values, the Result structure and the  *)
(* three calls of service KVStore.  A key or a non-empty string is an      *)
(* opaque element of Keys or Values; the empty string is kept apart        *)
(* because kvget compares the value it read with "".                       *)
(***************************************************************************)
CONSTANTS Keys,    \* the keys the clients use
          Values,  \* the non-empty strings they store
          Empty    \* the string ""

ASSUME EmptyAssumption == Empty \notin Values

Strings == Values \cup {Empty}

(***************************************************************************)
(* enum ErrorCode and struct Result.  errortext is left out: it is set     *)
(* exactly when error is kError, to a fixed text.                          *)
(***************************************************************************)
ErrorCode == {"kSuccess", "kKeyNotFound", "kError"}

Result == [value : Strings, error : ErrorCode]

\* A default-constructed Result: value "" and error 0, which is kSuccess.
DefaultResult == [value |-> Empty, error |-> "kSuccess"]

(***************************************************************************)
(* What a call carries to the server and what comes back: a T_REPLY with   *)
(* the Result, or a T_EXCEPTION when the handler let an exception escape.  *)
(***************************************************************************)
AllOps == {"kvset", "kvget", "kvdelete"}

Requests ==
  [fname : {"kvset"}, key : Keys, value : Strings]
    \cup [fname : {"kvget", "kvdelete"}, key : Keys, value : {Empty}]

Replies == [mtype : {"T_REPLY", "T_EXCEPTION"}, result : Result]

NoRequest == [fname |-> "none", key |-> "none", value |-> "none"]

NoReply == [mtype |-> "none", result |-> DefaultResult]

Reply(res) == [mtype |-> "T_REPLY", result |-> res]

Exception == [mtype |-> "T_EXCEPTION", result |-> DefaultResult]

\* The Result of a kvget that read string v (found or not is v # "").
Lookup(v) ==
  [value |-> v, error |-> IF v = Empty THEN "kKeyNotFound" ELSE "kSuccess"]

Succeeded == [value |-> Empty, error |-> "kSuccess"]

NotStored == [value |-> Empty, error |-> "kError"]
-----------------------------------------------------------------------------
(***************************************************************************)
(* The sequential meaning of the three handlers.                           *)
(***************************************************************************)
Effect(r, m) ==
  CASE r.fname = "kvset"    -> [m EXCEPT ![r.key] = r.value]
    [] r.fname = "kvget"    -> m
    [] r.fname = "kvdelete" -> [m EXCEPT ![r.key] = Empty]

Answer(r, m) == IF r.fname = "kvget" THEN Lookup(m[r.key]) ELSE Succeeded

\* The answers of a handler in which an allocation failed: kvset reports
\* kError or lets the exception escape, kvget reports kKeyNotFound.
FailureAnswers(r) ==
  CASE r.fname = "kvset"    -> {Reply(NotStored), Exception}
    [] r.fname = "kvget"    -> {Reply(Lookup(Empty))}
    [] r.fname = "kvdelete" -> {}
=============================================================================
