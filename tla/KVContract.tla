----------------------------- MODULE KVContract -----------------------------
(***************************************************************************)
(* The comments of kvstore.thrift on the three calls, set against what the *)
(* handlers do.  They speak of the key-value pairs that exist; the map of  *)
(* KVStore does not tell a pair (key, "") from no pair, so the pairs the   *)
(* clients created and did not delete are kept here in a history variable. *)
(***************************************************************************)
EXTENDS KVStore

CONSTANT NoPair  \* "no pair exists for this key", which is no string

VARIABLE pairs  \* pairs[k]: the value of the pair with key k, or NoPair

cvars == <<content, phase, req, reply, pairs>>

CTypeOK == TypeOK /\ pairs \in [Keys -> Strings \cup {NoPair}]

CInit == Init /\ pairs = [k \in Keys |-> NoPair]

\* What a call is documented to do to the pairs.
Documented(r, p) ==
  CASE r.fname = "kvset"    -> [p EXCEPT ![r.key] = r.value]
    [] r.fname = "kvget"    -> p
    [] r.fname = "kvdelete" -> [p EXCEPT ![r.key] = NoPair]

CPerform(c) == Perform(c) /\ pairs' = Documented(req[c], pairs)

CNext ==
  \E c \in Conns :
    \/ \E r \in Issued : Invoke(c, r) /\ UNCHANGED pairs
    \/ CPerform(c)
    \/ Fail(c) /\ UNCHANGED pairs
    \/ Return(c) /\ UNCHANGED pairs

CSpec == CInit /\ [][CNext]_cvars
-----------------------------------------------------------------------------
Answers(c) == phase[c] = "invoked" /\ phase'[c] = "done"

\* kvstore.thrift on kvget: "If a key-value pair exists, return its value and
\* kSuccess.  If a key-value pair does not exist, return error kKeyNotFound."
GetContract ==
  [][\A c \in Conns :
       Answers(c) /\ req[c].fname = "kvget" =>
         LET v == pairs[req[c].key] IN
         IF v = NoPair THEN reply'[c].result.error = "kKeyNotFound"
                       ELSE reply'[c].result = [value |-> v, error |-> "kSuccess"]]_cvars

\* kvstore.thrift on kvdelete: "If a key-value pair exists, delete it and
\* return kSuccess.  If a key-value pair does not exist, return kKeyNotFound."
DeleteContract ==
  [][\A c \in Conns :
       Answers(c) /\ req[c].fname = "kvdelete" =>
         reply'[c].result.error =
           IF pairs[req[c].key] = NoPair THEN "kKeyNotFound" ELSE "kSuccess"]_cvars
=============================================================================
