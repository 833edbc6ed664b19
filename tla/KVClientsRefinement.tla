------------------------ MODULE KVClientsRefinement ------------------------
(***************************************************************************)
(* Proof that the programs of KVClients get what KVCalls promises, at most *)
(* once: for any number of clients, any lines, and however connections     *)
(* break.                                                                  *)
(***************************************************************************)
EXTENDS KVClientsProofs

\* The data of the two modules is the same.
LEMMA SameData ==
  /\ Calls1!Requests = Requests
  /\ Calls1!NoRequest = NoRequest
  /\ Calls1!NoReply = NoReply
  /\ Calls1!DefaultResult = DefaultResult
  /\ \A x : Calls1!Reply(x) = Reply(x)
  /\ \A r, m : Calls1!Answer(r, m) = Answer(r, m)
  /\ \A r, m : Calls1!Effect(r, m) = Effect(r, m)
  /\ \A r : Calls1!FailureAnswers(r) = FailureAnswers(r)
  BY DEF Calls1!Requests, Requests, Calls1!Strings, Strings, Calls1!NoRequest, NoRequest,
         Calls1!NoReply, NoReply, Calls1!DefaultResult, DefaultResult, Calls1!Reply, Reply,
         Calls1!Answer, Answer, Calls1!Effect, Effect, Calls1!FailureAnswers, FailureAnswers,
         Calls1!Lookup, Lookup, Calls1!Succeeded, Succeeded, Calls1!NotStored, NotStored,
         Calls1!Exception, Exception

LEMMA RefinesInit == ASSUME Init PROVE Calls1!CallsInit
  <1> USE DEF Init, RpcInit
  <1>1. /\ CallPhase = [c \in Clients |-> "idle"]
        /\ CallReq = [c \in Clients |-> NoRequest]
        /\ CallReply = [c \in Clients |-> NoReply]
        /\ LateCalls = [c \in Clients |-> {}]
    BY DEF CallPhase, CallReq, CallReply, LateCalls, Waiting
  <1>2. Threw = {}
    BY DEF Threw
  <1> QED
    BY <1>1, <1>2, SameData DEF Calls1!CallsInit, Calls1!Init
-----------------------------------------------------------------------------
\* A function on the clients that changes at one of them only.
LEMMA OnlyAt ==
  ASSUME NEW F, NEW G, NEW c \in Clients,
         F = [d \in Clients |-> F[d]], G = [d \in Clients |-> G[d]],
         \A d \in Clients \ {c} : G[d] = F[d]
  PROVE  G = [F EXCEPT ![c] = G[c]]
  OBVIOUS

LEMMA NotEvenAt ==
  ASSUME NEW F, NEW G, NEW c \in Clients,
         F = [d \in Clients |-> F[d]], G = [F EXCEPT ![c] = G[c]], G[c] = F[c]
  PROVE  G = F
  OBVIOUS

\* What a step of c, or for it, leaves of what the callers see.
LEMMA Mapped ==
  ASSUME NEW c \in Clients, \A d \in Clients \ {c} : state(d)' = state(d)
  PROVE  /\ CallPhase' = [CallPhase EXCEPT ![c] = CallPhase'[c]]
         /\ CallReq' = [CallReq EXCEPT ![c] = CallReq'[c]]
         /\ CallReply' = [CallReply EXCEPT ![c] = CallReply'[c]]
         /\ LateCalls' = [LateCalls EXCEPT ![c] = LateCalls'[c]]
         /\ Threw' \ {c} = Threw \ {c}
  <1>1. ASSUME NEW d \in Clients \ {c}
        PROVE  /\ prog'[d] = prog[d] /\ served'[d] = served[d] /\ todo'[d] = todo[d]
               /\ calls'[d] = calls[d] /\ exit'[d] = exit[d] /\ conn'[d] = conn[d]
    BY DEF state
  <1>2. CallPhase' = [CallPhase EXCEPT ![c] = CallPhase'[c]]
    <2>1. \A d \in Clients \ {c} : CallPhase'[d] = CallPhase[d]
      BY <1>1 DEF CallPhase, Waiting
    <2>2. CallPhase = [d \in Clients |-> CallPhase[d]] /\ CallPhase' = [d \in Clients |-> CallPhase'[d]]
      BY DEF CallPhase
    <2> QED
      BY <2>1, <2>2, OnlyAt
  <1>3. CallReq' = [CallReq EXCEPT ![c] = CallReq'[c]]
    <2>1. \A d \in Clients \ {c} : CallReq'[d] = CallReq[d]
      BY <1>1 DEF CallReq, Waiting
    <2>2. CallReq = [d \in Clients |-> CallReq[d]] /\ CallReq' = [d \in Clients |-> CallReq'[d]]
      BY DEF CallReq
    <2> QED
      BY <2>1, <2>2, OnlyAt
  <1>4. CallReply' = [CallReply EXCEPT ![c] = CallReply'[c]]
    <2>1. \A d \in Clients \ {c} : CallReply'[d] = CallReply[d]
      BY <1>1 DEF CallReply, Waiting
    <2>2. CallReply = [d \in Clients |-> CallReply[d]] /\ CallReply' = [d \in Clients |-> CallReply'[d]]
      BY DEF CallReply
    <2> QED
      BY <2>1, <2>2, OnlyAt
  <1>5. LateCalls' = [LateCalls EXCEPT ![c] = LateCalls'[c]]
    <2>1. \A d \in Clients \ {c} : LateCalls'[d] = LateCalls[d]
      BY <1>1 DEF LateCalls
    <2>2. LateCalls = [d \in Clients |-> LateCalls[d]] /\ LateCalls' = [d \in Clients |-> LateCalls'[d]]
      BY DEF LateCalls
    <2> QED
      BY <2>1, <2>2, OnlyAt
  <1>6. Threw' \ {c} = Threw \ {c}
    BY <1>1 DEF Threw
  <1> QED
    BY <1>2, <1>3, <1>4, <1>5, <1>6

\* What c sees, by where its program is.
LEMMA Seen ==
  ASSUME NEW c \in Clients
  PROVE  /\ prog[c] # "waiting" =>
              CallPhase[c] = "idle" /\ CallReq[c] = NoRequest /\ CallReply[c] = NoReply
         /\ prog[c] = "waiting" =>
              /\ CallPhase[c] = IF served[c][0] = NoReply THEN "invoked" ELSE "done"
              /\ CallReq[c] = Head(todo[c])
              /\ CallReply[c] = served[c][0]
         /\ LateCalls[c] =
              IF prog[c] = "exited" THEN {Args(calls[c][n]) : n \in DOMAIN calls[c]} ELSE {}
         /\ c \in Threw <=> exit[c] = "exit1" /\ conn[c] = "closed"
  BY DEF CallPhase, CallReq, CallReply, LateCalls, Threw, Waiting

LEMMA SeenNext ==
  ASSUME NEW c \in Clients
  PROVE  /\ prog'[c] # "waiting" =>
              CallPhase'[c] = "idle" /\ CallReq'[c] = NoRequest /\ CallReply'[c] = NoReply
         /\ prog'[c] = "waiting" =>
              /\ CallPhase'[c] = IF served'[c][0] = NoReply THEN "invoked" ELSE "done"
              /\ CallReq'[c] = Head(todo'[c])
              /\ CallReply'[c] = served'[c][0]
         /\ LateCalls'[c] =
              IF prog'[c] = "exited" THEN {Args(calls'[c][n]) : n \in DOMAIN calls'[c]} ELSE {}
         /\ c \in Threw' <=> exit'[c] = "exit1" /\ conn'[c] = "closed"
  BY DEF CallPhase, CallReq, CallReply, LateCalls, Threw, Waiting

\* What c sees as before, everybody does.
LEMMA Stays ==
  ASSUME NEW c \in Clients, \A d \in Clients \ {c} : state(d)' = state(d)
  PROVE  /\ CallPhase'[c] = CallPhase[c] => CallPhase' = CallPhase
         /\ CallReq'[c] = CallReq[c] => CallReq' = CallReq
         /\ CallReply'[c] = CallReply[c] => CallReply' = CallReply
         /\ LateCalls'[c] = LateCalls[c] => LateCalls' = LateCalls
         /\ (c \in Threw' <=> c \in Threw) => Threw' = Threw
  <1>1. CallPhase'[c] = CallPhase[c] => CallPhase' = CallPhase
    <2>1. CallPhase = [d \in Clients |-> CallPhase[d]]
      BY DEF CallPhase
    <2> QED
      BY <2>1, Mapped, NotEvenAt
  <1>2. CallReq'[c] = CallReq[c] => CallReq' = CallReq
    <2>1. CallReq = [d \in Clients |-> CallReq[d]]
      BY DEF CallReq
    <2> QED
      BY <2>1, Mapped, NotEvenAt
  <1>3. CallReply'[c] = CallReply[c] => CallReply' = CallReply
    <2>1. CallReply = [d \in Clients |-> CallReply[d]]
      BY DEF CallReply
    <2> QED
      BY <2>1, Mapped, NotEvenAt
  <1>4. LateCalls'[c] = LateCalls[c] => LateCalls' = LateCalls
    <2>1. LateCalls = [d \in Clients |-> LateCalls[d]]
      BY DEF LateCalls
    <2> QED
      BY <2>1, Mapped, NotEvenAt
  <1>5. (c \in Threw' <=> c \in Threw) => Threw' = Threw
    <2>1. Threw' \ {c} = Threw \ {c}
      BY Mapped
    <2> QED
      BY <2>1
  <1> QED
    BY <1>1, <1>2, <1>3, <1>4, <1>5

\* A step that c does not see.
LEMMA Silent ==
  ASSUME NEW c \in Clients, Keeps(c), UNCHANGED <<content, res>>,
         CallPhase'[c] = CallPhase[c], CallReq'[c] = CallReq[c], CallReply'[c] = CallReply[c],
         LateCalls'[c] = LateCalls[c], c \in Threw' <=> c \in Threw
  PROVE  UNCHANGED (Calls1!callVars)
  BY Stays DEF Keeps, Calls1!callVars, Calls1!vars
-----------------------------------------------------------------------------
(***************************************************************************)
(* The steps that no caller sees.                                          *)
(***************************************************************************)
LEMMA ProgramSilent ==
  ASSUME ClientsInv, NEW c \in Clients,
         Connect(c) \/ ConnectFails(c) \/ ReadNothing(c) \/ ReadBeyond(c) \/ Finish(c)
  PROVE  UNCHANGED (Calls1!callVars)
  <1>0. TypeOK /\ RpcTypeOK /\ ClientOK(c)
    BY DEF ClientsInv, TypeOK
  <1>1. Keeps(c)
    BY ProgramKeeps DEF Program
  <1>2. prog[c] \in {"start", "ready"} /\ UNCHANGED <<content, res, calls>>
    BY DEF Connect, ConnectFails, ReadNothing, ReadBeyond, Finish, Exit, Open, CloseConn, rpcVars
  <1>3. calls[c] = <<>> /\ exit[c] = "none"
    BY <1>0, <1>2 DEF ClientOK, Linked, StreamOK, Nowhere
  <1>4. prog'[c] # "waiting" /\ ~(exit'[c] = "exit1" /\ conn'[c] = "closed")
    <2>1. CASE Connect(c)
      BY <1>0, <1>3, <2>1 DEF TypeOK, Connect, GoTo
    <2>2. CASE ConnectFails(c)
      <3>1. conn'[c] = "none"
        BY <1>0, <2>2 DEF ConnectFails, rpcVars, ClientOK, Linked
      <3> QED
        BY <1>0, <2>2, <3>1 DEF TypeOK, ConnectFails, Exit, GoTo
    <2>3. CASE ReadNothing(c) \/ Finish(c)
      BY <1>0, <2>3 DEF TypeOK, ReadNothing, Finish, Exit, GoTo
    <2>4. CASE ReadBeyond(c)
      <3>1. CASE \E code \in {"SIGSEGV", "SIGABRT"} : Exit(c, code)
        BY <1>0, <3>1 DEF TypeOK, Exit, GoTo
      <3>2. CASE UNCHANGED <<prog, exit>>
        BY <1>2, <1>3, <3>2
      <3> QED
        BY <2>4, <3>1, <3>2 DEF ReadBeyond
    <2> QED
      BY <2>1, <2>2, <2>3, <2>4
  <1>5. LateCalls[c] = {} /\ LateCalls'[c] = {}
    <2>1. LateCalls[c] = {}
      BY <1>2, Seen
    <2>2. calls'[c] = <<>>
      BY <1>2, <1>3
    <2>3. {Args(calls'[c][n]) : n \in DOMAIN calls'[c]} = {}
      BY <2>2
    <2> QED
      BY <2>1, <2>3, SeenNext
  <1> QED
    BY <1>1, <1>2, <1>3, <1>4, <1>5, Seen, SeenNext, Silent

LEMMA ServerSilent ==
  ASSUME ClientsInv, NEW c \in Clients, UNCHANGED progVars,
         WriteReply(c) \/ Disconnected(c) \/ Break(c)
  PROVE  UNCHANGED (Calls1!callVars)
  <1>0. TypeOK /\ RpcTypeOK /\ ClientOK(c)
    BY DEF ClientsInv, TypeOK
  <1>1. Keeps(c)
    BY WriteReplyKeeps, DisconnectedKeeps, BreakKeeps
  <1>2. UNCHANGED <<content, res, prog, todo, exit, served>>
    BY DEF WriteReply, WriteReplySending, Disconnected, DisconnectedFrom, Break, progVars
  <1>3. \/ UNCHANGED <<calls, conn>>
        \/ prog[c] # "exited" /\ exit[c] = "none"
    <2>1. CASE Break(c)
      BY <1>0, <2>1 DEF Break, TypeOK, ClientOK, Linked
    <2>2. CASE WriteReply(c) \/ Disconnected(c)
      BY <2>2 DEF WriteReply, WriteReplySending, Disconnected, DisconnectedFrom
    <2> QED
      BY <2>1, <2>2
  <1>4. LateCalls'[c] = LateCalls[c] /\ (c \in Threw' <=> c \in Threw)
    BY <1>2, <1>3, Seen, SeenNext, ZenonT(30)
  <1>5. CallPhase'[c] = CallPhase[c] /\ CallReq'[c] = CallReq[c] /\ CallReply'[c] = CallReply[c]
    BY <1>2 DEF CallPhase, CallReq, CallReply, Waiting
  <1> QED
    BY <1>1, <1>2, <1>4, <1>5, Silent
-----------------------------------------------------------------------------
(***************************************************************************)
(* The steps of a call.                                                    *)
(***************************************************************************)
LEMMA ReadLineRenews ==
  ASSUME ClientsInv, NEW c \in Clients, ReadLine(c)
  PROVE  Calls1!Renew(c)
  <1>1. Keeps(c)
    BY ReadLineKeeps
  <1>2. prog[c] = "ready" /\ UNCHANGED <<rpcVars, prog, exit>>
    BY DEF ReadLine
  <1>3. /\ CallPhase[c] = "idle"
        /\ CallPhase'[c] = CallPhase[c] /\ CallReq'[c] = CallReq[c] /\ CallReply'[c] = CallReply[c]
    BY <1>2, Seen, SeenNext
  <1>4. LateCalls'[c] = LateCalls[c] /\ (c \in Threw' <=> c \in Threw)
    BY <1>2, Seen, SeenNext DEF rpcVars
  <1>5. UNCHANGED <<content, CallPhase, CallReq, CallReply, LateCalls, Threw>>
    BY <1>1, <1>2, <1>3, <1>4, Stays DEF Keeps, rpcVars
  <1> QED
    BY <1>3, <1>5, SameData DEF ReadLine, Calls1!Renew, Calls1!vars
-----------------------------------------------------------------------------
LEMMA SendBegins ==
  ASSUME ClientsInv, NEW c \in Clients, Send(c)
  PROVE  Calls1!Begin(c)
  <1>0. TypeOK /\ RpcTypeOK /\ ClientOK(c)
    BY DEF ClientsInv, TypeOK
  <1>1. Keeps(c)
    BY SendKeeps
  <1>2. /\ prog[c] = "ready" /\ prog'[c] = "waiting" /\ Head(todo[c]) \in Requests
        /\ served'[c][0] = NoReply
        /\ UNCHANGED <<content, conn, todo, res, exit>>
    BY <1>0, ClientsAssumption DEF Send, SendCall, GoTo, TypeOK, RpcTypeOK
  <1>3. exit[c] = "none"
    BY <1>0, <1>2 DEF ClientOK, Linked
  <1>4. /\ CallPhase[c] = "idle" /\ CallPhase'[c] = "invoked"
        /\ CallReq'[c] = Head(todo[c])
        /\ CallReply[c] = NoReply /\ CallReply'[c] = NoReply
        /\ LateCalls[c] = {} /\ LateCalls'[c] = {}
        /\ c \notin Threw /\ c \notin Threw'
    BY <1>2, <1>3, Seen, SeenNext
  <1>5. /\ CallPhase' = [CallPhase EXCEPT ![c] = "invoked"]
        /\ CallReq' = [CallReq EXCEPT ![c] = Head(todo[c])]
        /\ UNCHANGED <<CallReply, LateCalls>>
        /\ Threw' = Threw
    BY <1>1, <1>4, Mapped, Stays DEF Keeps
  <1>6. Calls1!Invoke(c, Head(todo[c]))
    BY <1>2, <1>4, <1>5 DEF Calls1!Invoke
  <1>7. Threw' = Threw \ {c}
    BY <1>4, <1>5
  <1> QED
    BY <1>2, <1>5, <1>6, <1>7, SameData DEF Calls1!Begin

LEMMA AnsweredDelivers ==
  ASSUME ClientsInv, NEW c \in Clients, Answered(c)
  PROVE  Calls1!Deliver(c)
  <1> DEFINE a == served[c][0]
  <1>0. TypeOK /\ RpcTypeOK /\ ClientOK(c)
    BY DEF ClientsInv, TypeOK
  <1>1. Keeps(c)
    BY AnsweredKeeps
  <1>2. /\ prog[c] = "waiting" /\ prog'[c] = "ready" /\ replies[c] # <<>>
        /\ res' = [res EXCEPT ![c] = presult(NextReply(c).fields, @)]
        /\ NextReply(c).mtype = "T_REPLY"
        /\ UNCHANGED <<content, conn, exit>>
    BY <1>0 DEF Answered, AnsweredWriting, RecvReply, GoTo, Returns, TypeOK
  <1>3. Back(c, Head(todo[c])) /\ NextReply(c) = AnswerTo(c, Head(todo[c]))
    BY <1>2, AnswerBack
  <1>4. a.mtype = "T_REPLY" /\ NextReply(c).fields = result(a) /\ a \in Replies
    BY <1>2, <1>3 DEF AnswerTo, ReplyMessage, Back, Made
  <1>5. a # NoReply
    BY <1>4, AnswersTyped DEF NoReply
  <1>6. res' = [res EXCEPT ![c] = a.result]
    <2>1. presult(result(a), res[c]) = a.result
      BY <1>0, <1>4, AnswerArrives DEF TypeOK
    <2> QED
      BY <1>2, <1>4, <2>1
  <1>7. exit[c] = "none"
    BY <1>0, <1>2 DEF ClientOK, Linked
  <1>8. /\ CallPhase[c] = "done" /\ CallPhase'[c] = "idle"
        /\ CallReq'[c] = NoRequest
        /\ CallReply[c] = a /\ CallReply'[c] = NoReply
        /\ LateCalls[c] = {} /\ LateCalls'[c] = {}
        /\ c \notin Threw /\ c \notin Threw'
    BY <1>2, <1>5, <1>7, Seen, SeenNext
  <1>9. /\ CallPhase' = [CallPhase EXCEPT ![c] = "idle"]
        /\ CallReq' = [CallReq EXCEPT ![c] = NoRequest]
        /\ CallReply' = [CallReply EXCEPT ![c] = NoReply]
        /\ LateCalls' = LateCalls
        /\ Threw' = Threw
    BY <1>1, <1>8, Mapped, Stays DEF Keeps
  <1>10. Calls1!Return(c)
    BY <1>2, <1>8, <1>9, SameData DEF Calls1!Return
  <1> QED
    BY <1>4, <1>6, <1>8, <1>9, <1>10 DEF Calls1!Deliver

\* A program that ends with a call on its way leaves it to the server.
LEMMA ThrowsThrows ==
  ASSUME ClientsInv, NEW c \in Clients, Throws(c)
  PROVE  Calls1!Throw(c)
  <1> DEFINE r == Head(todo[c])
  <1>0. TypeOK /\ RpcTypeOK /\ ClientOK(c)
    BY DEF ClientsInv, TypeOK
  <1>1. Keeps(c)
    BY ProgramKeeps DEF Program
  <1>2. /\ prog[c] = "waiting" /\ prog'[c] = "exited"
        /\ exit'[c] = "exit1" /\ conn'[c] = "closed"
        /\ UNCHANGED <<content, calls, res>>
    BY <1>0 DEF Throws, Exit, GoTo, CloseConn, TypeOK, RpcTypeOK
  <1>3. exit[c] = "none" /\ OnTheWay(c, r) /\ r \in Requests
    BY <1>0, <1>2 DEF ClientOK, Linked, StreamOK
  <1>4. /\ CallPhase[c] # "idle" /\ CallPhase'[c] = "idle"
        /\ CallReq[c] = r /\ CallReq'[c] = NoRequest
        /\ CallReply'[c] = NoReply
        /\ LateCalls[c] = {} /\ c \in Threw'
    BY <1>2, Seen, SeenNext
  <1>5. /\ CallPhase' = [CallPhase EXCEPT ![c] = "idle"]
        /\ CallReq' = [CallReq EXCEPT ![c] = NoRequest]
        /\ CallReply' = [CallReply EXCEPT ![c] = NoReply]
        /\ LateCalls' = [LateCalls EXCEPT ![c] = LateCalls'[c]]
    BY <1>1, <1>4, Mapped DEF Keeps
  <1>6. Threw' = Threw \cup {c}
    <2>1. Threw' \ {c} = Threw \ {c}
      BY <1>1, Mapped DEF Keeps
    <2> QED
      BY <1>4, <2>1
  <1>7. LateCalls'[c] = {} \/ (CallPhase[c] = "invoked" /\ LateCalls'[c] = {r})
    <2>1. LateCalls'[c] = {Args(calls[c][n]) : n \in DOMAIN calls[c]}
      BY <1>2, SeenNext
    <2>2. CASE calls[c] = <<>>
      BY <2>1, <2>2
    <2>3. CASE Called(c, r)
      <3>1. CallPhase[c] = "invoked"
        BY <1>2, <2>3, Seen DEF Called
      <3>2. Args(CallMessage(r, 0)) = r
        BY <1>3, CallArrives
      <3>3. DOMAIN calls[c] = {1} /\ calls[c][1] = CallMessage(r, 0)
        BY <2>3 DEF Called
      <3> QED
        BY <2>1, <3>1, <3>2, <3>3
    <2> QED
      BY <1>3, <2>2, <2>3 DEF OnTheWay, Nowhere, Executed, Back
  <1>8. \/ LateCalls' = LateCalls
        \/ CallPhase[c] = "invoked" /\ LateCalls' = [LateCalls EXCEPT ![c] = @ \cup {CallReq[c]}]
    <2>1. CASE LateCalls'[c] = {}
      BY <1>1, <1>4, <2>1, Stays DEF Keeps
    <2>2. CASE CallPhase[c] = "invoked" /\ LateCalls'[c] = {r}
      <3>1. LateCalls[c] \cup {CallReq[c]} = {r}
        BY <1>4
      <3> QED
        BY <1>5, <2>2, <3>1
    <2> QED
      BY <1>7, <2>1, <2>2
  <1> QED
    BY <1>2, <1>4, <1>5, <1>6, <1>8, SameData DEF Calls1!Throw
-----------------------------------------------------------------------------
\* The handler runs for a caller that waits, or for one that is gone.
LEMMA ProcessExecutes ==
  ASSUME ClientsInv, NEW c \in Clients, Process(c), UNCHANGED progVars
  PROVE  Calls1!Execute(c) \/ Calls1!ExecuteLate(c)
  <1> DEFINE m == Head(calls[c])
             r == Args(m)
  <1>0. TypeOK /\ RpcTypeOK /\ ClientOK(c)
    BY DEF ClientsInv, TypeOK
  <1>1. Keeps(c)
    BY ProcessKeeps
  <1>2. /\ srv[c] = "reading" /\ calls[c] # <<>>
        /\ calls' = [calls EXCEPT ![c] = Tail(@)]
        /\ UNCHANGED <<conn, prog, todo, res, exit>>
    BY DEF Process, ProcessTaking, progVars
  <1>3. m \in Calls /\ m.seqid = 0 /\ r \in Requests
    BY <1>0, <1>2, TakeMessage, CallTyped, ClientsAssumption DEF RpcTypeOK
  <1>4. PICK a \in Outcomes(r) :
          /\ content' = IF a = Reply(Answer(r, content)) THEN Effect(r, content) ELSE content
          /\ served' = [served EXCEPT ![c][m.seqid] = a]
    BY DEF Process, ProcessTaking
  <1>5. served'[c][0] = a
    BY <1>0, <1>3, <1>4, ClientsAssumption DEF RpcTypeOK
  <1>6. /\ a = Reply(Answer(r, content)) \/ (MayFail /\ a \in FailureAnswers(r))
        /\ a # NoReply
    <2>1. a = Reply(Answer(r, content)) \/ (MayFail /\ a \in FailureAnswers(r))
      BY <1>4 DEF Outcomes
    <2>2. content \in [Keys -> Strings]
      BY <1>0 DEF RpcTypeOK
    <2>3. Reply(Answer(r, content)) \in Replies /\ FailureAnswers(r) \subseteq Replies
          /\ NoReply \notin Replies
      BY <1>3, <2>2, AnswersTyped
    <2> HIDE DEF r
    <2> QED
      BY <2>1, <2>3
  <1>7. c \in Threw' <=> c \in Threw
    BY <1>2, Seen, SeenNext
  <1>8. Threw' = Threw
    BY <1>1, <1>7, Stays DEF Keeps
  <1>9. prog[c] \in {"waiting", "exited"}
    BY <1>0, <1>2 DEF TypeOK, ClientOK, StreamOK, Nowhere
  <1>10. CASE prog[c] = "waiting"
    <2>1. Called(c, Head(todo[c])) /\ Head(todo[c]) \in Requests
      BY <1>0, <1>2, <1>10 DEF ClientOK, StreamOK, OnTheWay, Nowhere, Executed, Back
    <2>2. r = Head(todo[c])
      BY <2>1, OneMessage, CallArrives DEF Called
    <2> HIDE DEF r
    <2>3. /\ CallPhase[c] = "invoked" /\ CallPhase'[c] = "done"
          /\ CallReq[c] = r /\ CallReq'[c] = r
          /\ CallReply'[c] = a
          /\ LateCalls[c] = {} /\ LateCalls'[c] = {}
      BY <1>2, <1>5, <1>6, <1>10, <2>1, <2>2, Seen, SeenNext DEF Called
    <2>4. /\ CallPhase' = [CallPhase EXCEPT ![c] = "done"]
          /\ CallReply' = [CallReply EXCEPT ![c] = a]
          /\ UNCHANGED <<CallReq, LateCalls>>
      BY <1>1, <2>3, Mapped, Stays DEF Keeps
    <2>5. CASE a = Reply(Answer(r, content))
      <3>1. content' = Effect(r, content)
        BY <1>4, <2>5
      <3>2. Calls1!Perform(c)
        BY <2>3, <2>4, <2>5, <3>1, SameData DEF Calls1!Perform
      <3> QED
        BY <1>2, <1>8, <2>4, <3>2 DEF Calls1!Execute
    <2>6. CASE a # Reply(Answer(r, content))
      <3>1. content' = content /\ MayFail /\ a \in FailureAnswers(r)
        BY <1>4, <1>6, <2>6
      <3>2. Calls1!Fail(c)
        BY <2>3, <2>4, <3>1, SameData DEF Calls1!Fail
      <3> QED
        BY <1>2, <1>8, <2>4, <3>2 DEF Calls1!Execute
    <2> QED
      BY <2>5, <2>6
  <1>11. CASE prog[c] = "exited"
    <2>1. calls[c] = <<m>>
      BY <1>0, <1>2, <1>11 DEF ClientOK, StreamOK
    <2>2. calls'[c] = <<>>
      BY <1>0, <1>2, <2>1, OneMessage DEF RpcTypeOK
    <2> HIDE DEF m
    <2>3. LateCalls[c] = {r} /\ LateCalls'[c] = {}
      <3>1. DOMAIN calls[c] = {1} /\ calls[c][1] = m
        BY <2>1
      <3>2. {Args(calls[c][n]) : n \in DOMAIN calls[c]} = {r}
        BY <3>1
      <3>3. {Args(calls'[c][n]) : n \in DOMAIN calls'[c]} = {}
        BY <2>2
      <3> QED
        BY <1>2, <1>11, <3>2, <3>3, Seen, SeenNext
    <2> HIDE DEF r
    <2>4. LateCalls' = [LateCalls EXCEPT ![c] = @ \ {r}]
      <3>1. LateCalls'[c] = LateCalls[c] \ {r}
        BY <2>3
      <3> QED
        BY <1>1, <3>1, Mapped DEF Keeps
    <2>5. UNCHANGED <<CallPhase, CallReq, CallReply>>
      BY <1>1, <1>2, <1>11, Seen, SeenNext, Stays DEF Keeps
    <2>6. content' \in {content, Effect(r, content)}
      BY <1>4
    <2>7. r \in LateCalls[c]
      BY <2>3
    <2> QED
      BY <1>2, <1>8, <2>4, <2>5, <2>6, <2>7, SameData DEF Calls1!ExecuteLate
  <1> QED
    BY <1>9, <1>10, <1>11

\* A call that is never answered: a caller that waits sees nothing, and that
\* of one who is gone is lost.
LEMMA BlockLoses ==
  ASSUME ClientsInv, NEW c \in Clients, Block(c), UNCHANGED progVars
  PROVE  UNCHANGED (Calls1!callVars) \/ Calls1!ExecuteLate(c)
  <1> DEFINE m == Head(calls[c])
             r == Args(m)
  <1>0. TypeOK /\ RpcTypeOK /\ ClientOK(c)
    BY DEF ClientsInv, TypeOK
  <1>1. Keeps(c)
    BY BlockKeeps
  <1>2. /\ srv[c] = "reading" /\ calls[c] # <<>>
        /\ calls' = [calls EXCEPT ![c] = Tail(@)]
        /\ UNCHANGED <<content, conn, served, prog, todo, res, exit>>
    BY DEF Block, progVars
  <1>3. c \in Threw' <=> c \in Threw
    BY <1>2, Seen, SeenNext
  <1>4. CallPhase'[c] = CallPhase[c] /\ CallReq'[c] = CallReq[c] /\ CallReply'[c] = CallReply[c]
    BY <1>2 DEF CallPhase, CallReq, CallReply, Waiting
  <1>5. CASE prog[c] # "exited"
    <2>1. LateCalls[c] = {} /\ LateCalls'[c] = {}
      BY <1>2, <1>5, Seen, SeenNext
    <2> QED
      BY <1>1, <1>2, <1>3, <1>4, <2>1, Silent
  <1>6. CASE prog[c] = "exited"
    <2>1. calls[c] = <<m>>
      BY <1>0, <1>2, <1>6 DEF ClientOK, StreamOK
    <2>2. calls'[c] = <<>>
      BY <1>0, <1>2, <2>1, OneMessage DEF RpcTypeOK
    <2> HIDE DEF m
    <2>3. LateCalls[c] = {r} /\ LateCalls'[c] = {}
      <3>1. DOMAIN calls[c] = {1} /\ calls[c][1] = m
        BY <2>1
      <3>2. {Args(calls[c][n]) : n \in DOMAIN calls[c]} = {r}
        BY <3>1
      <3>3. {Args(calls'[c][n]) : n \in DOMAIN calls'[c]} = {}
        BY <2>2
      <3> QED
        BY <1>2, <1>6, <3>2, <3>3, Seen, SeenNext
    <2> HIDE DEF r
    <2>4. LateCalls' = [LateCalls EXCEPT ![c] = @ \ {r}]
      <3>1. LateCalls'[c] = LateCalls[c] \ {r}
        BY <2>3
      <3> QED
        BY <1>1, <3>1, Mapped DEF Keeps
    <2>5. UNCHANGED <<CallPhase, CallReq, CallReply>> /\ Threw' = Threw
      BY <1>1, <1>3, <1>4, Stays DEF Keeps
    <2>6. r \in LateCalls[c]
      BY <2>3
    <2> QED
      BY <1>2, <2>4, <2>5, <2>6 DEF Calls1!ExecuteLate
  <1> QED
    BY <1>5, <1>6
-----------------------------------------------------------------------------
LEMMA RefinesStep == ASSUME ClientsInv, [Next]_vars PROVE [Calls1!CallsNext]_(Calls1!callVars)
  <1>1. CASE UNCHANGED vars
    BY <1>1 DEF vars, rpcVars, progVars, Calls1!callVars, Calls1!vars,
                CallPhase, CallReq, CallReply, LateCalls, Threw, Waiting
  <1>2. CASE Next
    <2>1. PICK c \in Clients :
            \/ Program(c)
            \/ ServerThread(c) /\ UNCHANGED progVars
            \/ Break(c) /\ UNCHANGED progVars
      BY <1>2 DEF Next
    <2> QED
      BY <2>1, ProgramSilent, ServerSilent, ReadLineRenews, SendBegins, AnsweredDelivers,
         ThrowsThrows, ProcessExecutes, BlockLoses DEF Program, ServerThread, Calls1!CallsNext
  <1> QED
    BY <1>1, <1>2

\* At most once: a call that returns took effect exactly once and left the
\* handler's Result in the program's; one that throws took effect once or not
\* at all, and may still do so after the program has ended.
THEOREM ProgramsCallAtMostOnce == Spec => AtMostOnce
  <1>1. ClientsInv /\ [Next]_vars => [Calls1!CallsNext]_(Calls1!callVars)
    BY RefinesStep
  <1> QED
    BY <1>1, RefinesInit, ClientsInvariant, PTL DEF Spec, AtMostOnce, Calls1!CallsSpec
=============================================================================
