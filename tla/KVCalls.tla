------------------------------ MODULE KVCalls -------------------------------
(***************************************************************************)
(* What a client can count on when connections break: at most once.  A     *)
(* call that returns took effect exactly once, between its beginning and   *)
(* its end, and left the handler's Result in the caller's; a call that     *)
(* throws took effect once or not at all, and may still do so later.  This *)
(* is the atomic store of KVStore, with calls that throw and their callers *)
(* added to it.                                                            *)
(***************************************************************************)
EXTENDS KVStore

VARIABLES res,    \* res[c]: the Result c passes to its calls
          threw,  \* the callers whose last call threw
          late    \* late[c]: calls of c that threw and may still take effect

callVars == <<vars, res, threw, late>>

CallsInit ==
  /\ Init
  /\ res = [c \in Conns |-> DefaultResult]
  /\ threw = {}
  /\ late = [c \in Conns |-> {}]
-----------------------------------------------------------------------------
Begin(c) ==
  /\ \E r \in Requests : Invoke(c, r)
  /\ threw' = threw \ {c}
  /\ UNCHANGED <<res, late>>

Execute(c) == (Perform(c) \/ Fail(c)) /\ UNCHANGED <<res, threw, late>>

Deliver(c) ==
  /\ Return(c)
  /\ reply[c].mtype = "T_REPLY"
  /\ res' = [res EXCEPT ![c] = reply[c].result]
  /\ UNCHANGED <<threw, late>>

Throw(c) ==
  /\ phase[c] # "idle"
  /\ phase' = [phase EXCEPT ![c] = "idle"]
  /\ req' = [req EXCEPT ![c] = NoRequest]
  /\ reply' = [reply EXCEPT ![c] = NoReply]
  /\ threw' = threw \cup {c}
  /\ \/ UNCHANGED late
     \/ phase[c] = "invoked" /\ late' = [late EXCEPT ![c] = @ \cup {req[c]}]
  /\ UNCHANGED <<content, res>>

\* A call that threw takes effect, or is lost.
ExecuteLate(c) ==
  \E r \in late[c] :
    /\ late' = [late EXCEPT ![c] = @ \ {r}]
    /\ content' \in {content, Effect(r, content)}
    /\ UNCHANGED <<phase, req, reply, res, threw>>

\* The caller takes another Result for the calls to come.
Renew(c) ==
  /\ phase[c] = "idle"
  /\ res' = [res EXCEPT ![c] = DefaultResult]
  /\ UNCHANGED <<vars, threw, late>>

CallsNext ==
  \E c \in Conns :
    Begin(c) \/ Execute(c) \/ Deliver(c) \/ Throw(c) \/ ExecuteLate(c) \/ Renew(c)

CallsSpec == CallsInit /\ [][CallsNext]_callVars
=============================================================================
