------------------------------ MODULE KVStore -------------------------------
(***************************************************************************)
(* What service KVStore promises its clients, as the handlers of           *)
(* kvserver_consistent.cpp implement it: a map from keys to strings on     *)
(* which every call takes effect at one instant between its arrival and    *)
(* its answer (linearizability).  A key that is absent and a key mapped to *)
(* "" answer every call alike, so content does not tell them apart.        *)
(***************************************************************************)
EXTENDS KVStoreTypes

CONSTANTS Conns,      \* the client connections, each with one call at a time
          Ops,        \* the calls the clients issue, some of AllOps
          SetValues,  \* the strings they pass to kvset
          MayFail     \* a Boolean: whether an allocation may fail in a handler

VARIABLES content,  \* content[k] is the string k is mapped to, "" when none
          phase,    \* phase[c]: the call of c is "idle", "invoked" or "done"
          req,      \* req[c]: the request of c in progress
          reply     \* reply[c]: the answer to it, once it took effect

vars == <<content, phase, req, reply>>

Issued == {r \in Requests : r.fname \in Ops /\ (r.fname = "kvset" => r.value \in SetValues)}

TypeOK ==
  /\ content \in [Keys -> Strings]
  /\ phase \in [Conns -> {"idle", "invoked", "done"}]
  /\ req \in [Conns -> Issued \cup {NoRequest}]
  /\ reply \in [Conns -> Replies \cup {NoReply}]

Init ==
  /\ content = [k \in Keys |-> Empty]
  /\ phase = [c \in Conns |-> "idle"]
  /\ req = [c \in Conns |-> NoRequest]
  /\ reply = [c \in Conns |-> NoReply]
-----------------------------------------------------------------------------
Invoke(c, r) ==
  /\ phase[c] = "idle"
  /\ phase' = [phase EXCEPT ![c] = "invoked"]
  /\ req' = [req EXCEPT ![c] = r]
  /\ UNCHANGED <<content, reply>>

\* The instant at which the call of c takes effect.
Perform(c) ==
  /\ phase[c] = "invoked"
  /\ phase' = [phase EXCEPT ![c] = "done"]
  /\ content' = Effect(req[c], content)
  /\ reply' = [reply EXCEPT ![c] = Reply(Answer(req[c], content))]
  /\ UNCHANGED req

\* A call that fails has no effect.
Fail(c) ==
  /\ MayFail
  /\ phase[c] = "invoked"
  /\ phase' = [phase EXCEPT ![c] = "done"]
  /\ \E a \in FailureAnswers(req[c]) : reply' = [reply EXCEPT ![c] = a]
  /\ UNCHANGED <<content, req>>

Return(c) ==
  /\ phase[c] = "done"
  /\ phase' = [phase EXCEPT ![c] = "idle"]
  /\ req' = [req EXCEPT ![c] = NoRequest]
  /\ reply' = [reply EXCEPT ![c] = NoReply]
  /\ UNCHANGED content

Next ==
  \E c \in Conns :
    \/ \E r \in Issued : Invoke(c, r)
    \/ Perform(c)
    \/ Fail(c)
    \/ Return(c)

Spec == Init /\ [][Next]_vars
=============================================================================
