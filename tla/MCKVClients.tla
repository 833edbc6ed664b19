---------------------------- MODULE MCKVClients -----------------------------
(***************************************************************************)
(* KVClients for TLC: one kvclient and one kvclient_1 on one key.          *)
(***************************************************************************)
EXTENDS KVClients

\* A line of one option, one of two in an order that is not that of the calls,
\* and one that ends too early.  The file is named like a value: kvclient_1
\* takes its name for one.
SomeLines ==
  UNION {{<<>>,
          <<"-set", k>>,
          <<"-del", k>>,
          <<"-get", k, v, "-set", k, Empty>>} : k \in Keys, v \in Values}
=============================================================================
