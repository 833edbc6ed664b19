-------------------------- MODULE KVClientsProofs ---------------------------
(***************************************************************************)
(* Proofs about KVClients, for any number of clients, any lines, and       *)
(* however connections break: the stream of a connection keeps answers and *)
(* calls together, and programs call what their lines say.                 *)
(***************************************************************************)
EXTENDS KVClients, KVRpcProofs

\* Where call r of c is, if it is anywhere: nowhere, on its way, executed, or
\* answered.
Nowhere(c) == calls[c] = <<>> /\ replies[c] = <<>> /\ srv[c] # "writing"

Called(c, r) ==
  /\ calls[c] = <<CallMessage(r, 0)>> /\ served[c][0] = NoReply
  /\ replies[c] = <<>> /\ srv[c] # "writing"

\* The answer to r that the handler made; a -get that finds "" says so.
Made(c, r) ==
  /\ served[c][0] \in Replies
  /\ r.fname = "kvget" /\ served[c][0].result.error = "kSuccess" => served[c][0].result.value # Empty

AnswerTo(c, r) == ReplyMessage(r.fname, 0, served[c][0])

Executed(c, r) ==
  /\ calls[c] = <<>> /\ replies[c] = <<>>
  /\ srv[c] = "writing" /\ out[c] = AnswerTo(c, r) /\ Made(c, r)

Back(c, r) ==
  /\ calls[c] = <<>> /\ srv[c] # "writing"
  /\ replies[c] = <<AnswerTo(c, r)>> /\ Made(c, r)

OnTheWay(c, r) == Nowhere(c) \/ Called(c, r) \/ Executed(c, r) \/ Back(c, r)

\* What the program knows of its connection.
Linked(c) ==
  /\ prog[c] = "start" => conn[c] = "none"
  /\ prog[c] \in {"ready", "waiting"} => conn[c] \in {"open", "broken"}
  /\ prog[c] = "exited" => conn[c] \in {"none", "closed"}
  /\ prog[c] # "exited" => exit[c] = "none"

StreamOK(c) ==
  /\ prog[c] \in {"start", "ready"} => Nowhere(c)
  /\ prog[c] = "waiting" =>
       /\ todo[c] # <<>> /\ Head(todo[c]) \in Requests
       /\ OnTheWay(c, Head(todo[c]))
  /\ prog[c] = "exited" => calls[c] = <<>> \/ calls[c] = <<Head(calls[c])>>
  /\ srv[c] = "writing" => out[c] \in Messages

ClientOK(c) == Linked(c) /\ StreamOK(c) /\ file[c] # Empty

ClientsInv == TypeOK /\ \A c \in Clients : ClientOK(c)

\* What ClientOK(c) speaks of.
state(c) == <<conn[c], calls[c], replies[c], srv[c], out[c], served[c],
              prog[c], typed[c], todo[c], exit[c], file[c]>>

\* A step of client c, or for it, keeps its part of the invariant.
Keeps(c) ==
  /\ \A d \in Clients \ {c} : state(d)' = state(d)
  /\ ClientOK(c)'
-----------------------------------------------------------------------------
LEMMA StateStays ==
  ASSUME NEW c \in Clients, ClientOK(c), state(c)' = state(c)
  PROVE  ClientOK(c)'
  <1>1. Linked(c)' /\ (file[c] # Empty)'
    BY DEF ClientOK, Linked, state
  <1>2. StreamOK(c)'
    BY DEF ClientOK, StreamOK, state, OnTheWay, Nowhere, Called, Executed, Back, Made, AnswerTo
  <1> QED
    BY <1>1, <1>2 DEF ClientOK

LEMMA OneMessage ==
  /\ <<>> \o <<>> = <<>> /\ Len(<<>>) = 0
  /\ \A m : /\ Append(<<>>, m) = <<m>> /\ <<>> \o <<m>> = <<m>> /\ <<m>> \o <<>> = <<m>>
            /\ Head(<<m>>) = m /\ Tail(<<m>>) = <<>> /\ <<m>> # <<>> /\ Len(<<m>>) = 1
  OBVIOUS

LEMMA InitInv == ASSUME Init PROVE ClientsInv
  <1> USE DEF Init
  <1>1. TypeOK
    BY RpcInitTyped DEF TypeOK, Result, DefaultResult, ErrorCode, Strings
  <1>2. ASSUME NEW c \in Clients PROVE ClientOK(c)
    BY EmptyAssumption, ClientsAssumption
       DEF RpcInit, ClientOK, Linked, StreamOK, Nowhere, Strings
  <1> QED
    BY <1>1, <1>2 DEF ClientsInv

\* A request is a command whose words are all there.
LEMMA RequestsAreCommands == Requests \subseteq Commands
  <1> SUFFICES ASSUME NEW r \in Requests PROVE r \in Commands
    OBVIOUS
  <1> USE DEF Commands, AllOps, Strings
  <1>1. CASE r \in [fname : {"kvset"}, key : Keys, value : Strings]
    BY <1>1
  <1>2. CASE r \in [fname : {"kvget", "kvdelete"}, key : Keys, value : {Empty}]
    BY <1>2
  <1> QED
    BY <1>1, <1>2 DEF Requests
-----------------------------------------------------------------------------
(***************************************************************************)
(* The types.                                                              *)
(***************************************************************************)
LEMMA ExitTyped ==
  ASSUME TypeOK, NEW c \in Clients, NEW code \in {"exit0", "exit1", "exit2", "SIGSEGV", "SIGABRT"},
         Exit(c, code), CloseConn(c) \/ UNCHANGED rpcVars
  PROVE  TypeOK'
  <1>1. RpcTypeOK'
    BY ConnectionTyped DEF TypeOK
  <1> QED
    BY <1>1 DEF TypeOK, Exit, GoTo

LEMMA TakeTyped ==
  ASSUME TypeOK, NEW c \in Clients, NEW line \in Lines, Take(c, line)
  PROVE  typed' \in [Clients -> Lines \cup {<<>>}] /\ todo' \in [Clients -> Seq(Commands)]
  BY ClientsAssumption DEF TypeOK, Take

LEMMA ProgramTyped ==
  ASSUME ClientsInv, NEW c \in Clients, Program(c)
  PROVE  TypeOK'
  <1>0. TypeOK /\ RpcTypeOK
    BY DEF ClientsInv, TypeOK
  <1>1. CASE Connect(c)
    <2>1. RpcTypeOK'
      BY <1>0, <1>1, ConnectionTyped DEF Connect
    <2>2. typed' \in [Clients -> Lines \cup {<<>>}] /\ todo' \in [Clients -> Seq(Commands)]
      <3>1. CASE c \in OneShot
        BY <1>0, <1>1, <3>1, TakeTyped DEF Connect
      <3>2. CASE c \notin OneShot
        BY <1>0, <1>1, <3>2 DEF Connect, TypeOK
      <3> QED
        BY <3>1, <3>2
    <2> QED
      BY <1>0, <1>1, <2>1, <2>2 DEF Connect, GoTo, TypeOK
  <1>2. CASE ConnectFails(c) \/ ReadNothing(c) \/ Throws(c) \/ Finish(c)
    BY <1>0, <1>2, ExitTyped DEF ConnectFails, ReadNothing, Throws, Finish
  <1>3. CASE ReadLine(c)
    <2>1. RpcTypeOK'
      BY <1>0, <1>3, ConnectionTyped DEF ReadLine
    <2>2. typed' \in [Clients -> Lines \cup {<<>>}] /\ todo' \in [Clients -> Seq(Commands)]
      BY <1>0, <1>3, TakeTyped DEF ReadLine
    <2>3. res' \in [Clients -> Result]
      BY <1>0, <1>3 DEF ReadLine, TypeOK, Result, DefaultResult, ErrorCode, Strings
    <2> QED
      BY <1>0, <1>3, <2>1, <2>2, <2>3 DEF ReadLine, TypeOK
  <1>4. CASE ReadBeyond(c)
    <2>1. CASE \E code \in {"SIGSEGV", "SIGABRT"} : Exit(c, code) /\ CloseConn(c)
      BY <1>0, <2>1, ExitTyped
    <2>2. CASE /\ \E q \in Requests : todo' = [todo EXCEPT ![c] = <<q>> \o Tail(@)]
               /\ UNCHANGED <<rpcVars, prog, typed, res, exit, file>>
      <3>1. PICK q \in Commands : todo' = [todo EXCEPT ![c] = <<q>> \o Tail(@)]
        BY <2>2, RequestsAreCommands
      <3>2. Tail(todo[c]) \in Seq(Commands)
        BY <1>0, <1>4 DEF ReadBeyond, TypeOK
      <3>3. todo' \in [Clients -> Seq(Commands)]
        BY <1>0, <3>1, <3>2 DEF TypeOK
      <3> QED
        BY <1>0, <2>2, <3>3, ConnectionTyped DEF TypeOK
    <2> QED
      BY <1>4, <2>1, <2>2 DEF ReadBeyond
  <1>5. CASE Send(c)
    <2>1. RpcTypeOK'
      BY <1>0, <1>5, SendTyped, ClientsAssumption DEF Send
    <2> QED
      BY <1>0, <1>5, <2>1 DEF Send, GoTo, TypeOK
  <1>6. CASE Answered(c)
    <2> DEFINE m == NextReply(c)
    <2>1. RpcTypeOK' /\ m \in Messages
      BY <1>0, <1>6, RecvTyped DEF Answered, AnsweredWriting
    <2>2. presult(m.fields, res[c]) \in Result
      BY <1>0, <2>1, ReplyTyped DEF TypeOK
    <2> HIDE DEF m
    <2>3. /\ res' = [res EXCEPT ![c] = presult(m.fields, @)]
          /\ todo' = [todo EXCEPT ![c] = Tail(@)]
          /\ typed' \in {[typed EXCEPT ![c] = <<>>], typed}
          /\ file' \in {[file EXCEPT ![c] = res'[c].value], file}
          /\ prog' = [prog EXCEPT ![c] = "ready"]
          /\ UNCHANGED exit
      BY <1>6 DEF Answered, AnsweredWriting, GoTo, m
    <2>4. res' \in [Clients -> Result]
      BY <1>0, <2>2, <2>3 DEF TypeOK
    <2>5. file' \in [Clients -> Strings \cup {NoFile}]
      <3>1. res'[c].value \in Strings
        BY <2>4 DEF Result
      <3> QED
        BY <1>0, <2>3, <3>1 DEF TypeOK
    <2>6. todo' \in [Clients -> Seq(Commands)]
      <3>1. todo[c] # <<>>
        BY <1>6 DEF Answered, AnsweredWriting, ClientsInv, ClientOK, StreamOK
      <3>2. Tail(todo[c]) \in Seq(Commands)
        BY <1>0, <3>1 DEF TypeOK
      <3> QED
        BY <1>0, <2>3, <3>2 DEF TypeOK
    <2>7. typed' \in [Clients -> Lines \cup {<<>>}]
      BY <1>0, <2>3 DEF TypeOK
    <2> QED
      BY <1>0, <2>1, <2>3, <2>4, <2>5, <2>6, <2>7 DEF TypeOK
  <1> QED
    BY <1>1, <1>2, <1>3, <1>4, <1>5, <1>6 DEF Program

LEMMA OthersTyped ==
  ASSUME ClientsInv, NEW c \in Clients, ServerThread(c) \/ Break(c), UNCHANGED progVars
  PROVE  TypeOK'
  <1>0. RpcTypeOK
    BY DEF ClientsInv, TypeOK
  <1>1. CASE WriteReply(c)
    <2>1. out[c] \in Messages
      BY <1>1 DEF WriteReply, WriteReplySending, ClientsInv, ClientOK, StreamOK
    <2>2. RpcTypeOK'
      BY <1>0, <1>1, <2>1, WriteReplyTyped
    <2> QED
      BY <2>2 DEF ClientsInv, TypeOK, progVars
  <1>2. CASE Process(c) \/ Block(c) \/ Disconnected(c) \/ Break(c)
    <2>1. RpcTypeOK'
      BY <1>0, <1>2, ProcessTyped, ConnectionTyped
    <2> QED
      BY <2>1 DEF ClientsInv, TypeOK, progVars
  <1> QED
    BY <1>1, <1>2 DEF ServerThread
-----------------------------------------------------------------------------
(***************************************************************************)
(* The program of the client.                                              *)
(***************************************************************************)
LEMMA ExitKeeps ==
  ASSUME ClientsInv, NEW c \in Clients, NEW code, Exit(c, code), prog[c] # "exited",
         CloseConn(c) \/ (conn[c] = "none" /\ UNCHANGED rpcVars)
  PROVE  Keeps(c)
  <1>0. TypeOK /\ RpcTypeOK /\ ClientOK(c)
    BY DEF ClientsInv, TypeOK
  <1>1. /\ prog' = [prog EXCEPT ![c] = "exited"] /\ exit' = [exit EXCEPT ![c] = code]
        /\ typed' = [typed EXCEPT ![c] = <<>>] /\ todo' = [todo EXCEPT ![c] = <<>>]
        /\ UNCHANGED <<res, file>>
    BY DEF Exit, GoTo
  <1>2. /\ conn'[c] \in {"none", "closed"}
        /\ \A d \in Clients \ {c} : conn'[d] = conn[d] /\ replies'[d] = replies[d]
        /\ UNCHANGED <<calls, srv, out, served>>
    BY <1>0 DEF CloseConn, rpcVars, RpcTypeOK
  <1>3. \A d \in Clients \ {c} : state(d)' = state(d)
    BY <1>0, <1>1, <1>2 DEF TypeOK, RpcTypeOK, state
  <1>4. Linked(c)'
    BY <1>0, <1>1, <1>2 DEF TypeOK, Linked
  <1>5. StreamOK(c)'
    <2>1. calls[c] = <<>> \/ calls[c] = <<Head(calls[c])>>
      BY <1>0, OneMessage DEF TypeOK, ClientOK, StreamOK, OnTheWay, Nowhere, Called, Executed, Back
    <2> QED
      BY <1>0, <1>1, <1>2, <2>1 DEF TypeOK, ClientOK, StreamOK
  <1>6. file'[c] # Empty
    BY <1>0, <1>1 DEF TypeOK, ClientOK
  <1> QED
    BY <1>3, <1>4, <1>5, <1>6 DEF Keeps, ClientOK

\* A line that was just taken.
LEMMA TakeOne ==
  ASSUME TypeOK, NEW c \in Clients, NEW line, Take(c, line)
  PROVE  /\ typed'[c] = line /\ todo'[c] = Parse(c, line)
         /\ \A d \in Clients \ {c} : typed'[d] = typed[d] /\ todo'[d] = todo[d]
  BY DEF Take, TypeOK

LEMMA ConnectKeeps ==
  ASSUME ClientsInv, NEW c \in Clients, Connect(c)
  PROVE  Keeps(c)
  <1>0. TypeOK /\ RpcTypeOK /\ ClientOK(c)
    BY DEF ClientsInv, TypeOK
  <1>1. /\ prog[c] = "start" /\ prog' = [prog EXCEPT ![c] = "ready"]
        /\ conn' = [conn EXCEPT ![c] = "open"] /\ srv' = [srv EXCEPT ![c] = "reading"]
        /\ UNCHANGED <<calls, replies, out, served, exit, file>>
    BY DEF Connect, Open, GoTo
  <1>2. \A d \in Clients \ {c} : typed'[d] = typed[d] /\ todo'[d] = todo[d]
    <2>1. CASE c \in OneShot
      BY <1>0, <2>1, TakeOne DEF Connect
    <2>2. CASE c \notin OneShot
      BY <2>2 DEF Connect
    <2> QED
      BY <2>1, <2>2
  <1>3. \A d \in Clients \ {c} : state(d)' = state(d)
    BY <1>0, <1>1, <1>2 DEF TypeOK, RpcTypeOK, state
  <1>4. Linked(c)' /\ StreamOK(c)' /\ file'[c] # Empty
    BY <1>0, <1>1 DEF TypeOK, RpcTypeOK, ClientOK, Linked, StreamOK, Nowhere
  <1> QED
    BY <1>3, <1>4 DEF Keeps, ClientOK

LEMMA ReadLineKeeps ==
  ASSUME ClientsInv, NEW c \in Clients, ReadLine(c)
  PROVE  Keeps(c)
  <1>0. TypeOK /\ RpcTypeOK /\ ClientOK(c)
    BY DEF ClientsInv, TypeOK
  <1>1. prog[c] = "ready" /\ UNCHANGED <<rpcVars, prog, exit, file>>
    BY DEF ReadLine
  <1>2. \A d \in Clients \ {c} : typed'[d] = typed[d] /\ todo'[d] = todo[d]
    BY <1>0, TakeOne DEF ReadLine
  <1>3. \A d \in Clients \ {c} : state(d)' = state(d)
    BY <1>1, <1>2 DEF rpcVars, state
  <1>4. Linked(c)' /\ StreamOK(c)' /\ file'[c] # Empty
    BY <1>0, <1>1 DEF rpcVars, ClientOK, Linked, StreamOK, Nowhere
  <1> QED
    BY <1>3, <1>4 DEF Keeps, ClientOK

\* A program that reads beyond its line goes on with a call nobody wrote.
LEMMA ReadBeyondKeeps ==
  ASSUME ClientsInv, NEW c \in Clients, ReadBeyond(c)
  PROVE  Keeps(c)
  <1>0. TypeOK /\ RpcTypeOK /\ ClientOK(c)
    BY DEF ClientsInv, TypeOK
  <1>1. prog[c] = "ready" /\ todo[c] # <<>> /\ Head(todo[c]) \notin Requests
    BY DEF ReadBeyond
  <1>2. CASE \E code : Exit(c, code) /\ CloseConn(c)
    BY <1>1, <1>2, ExitKeeps
  <1>3. CASE /\ \E q : todo' = [todo EXCEPT ![c] = <<q>> \o Tail(@)]
             /\ UNCHANGED <<rpcVars, prog, typed, res, exit, file>>
    <2>2. \A d \in Clients \ {c} : todo'[d] = todo[d]
      BY <1>0, <1>3 DEF TypeOK
    <2>3. \A d \in Clients \ {c} : state(d)' = state(d)
      BY <1>3, <2>2 DEF rpcVars, state
    <2>5. Linked(c)' /\ StreamOK(c)' /\ file'[c] # Empty
      BY <1>0, <1>1, <1>3 DEF rpcVars, ClientOK, Linked, StreamOK, Nowhere
    <2> QED
      BY <2>3, <2>5 DEF Keeps, ClientOK
  <1> QED
    BY <1>2, <1>3 DEF ReadBeyond

LEMMA SendKeeps ==
  ASSUME ClientsInv, NEW c \in Clients, Send(c)
  PROVE  Keeps(c)
  <1> DEFINE r == Head(todo[c])
             m == CallMessage(r, 0)
  <1>0. TypeOK /\ RpcTypeOK /\ ClientOK(c)
    BY DEF ClientsInv, TypeOK
  <1>1. /\ prog[c] = "ready" /\ prog' = [prog EXCEPT ![c] = "waiting"]
        /\ todo[c] # <<>> /\ r \in Requests
        /\ calls' = [calls EXCEPT ![c] = IF conn[c] = "open" THEN Append(@, m) ELSE @]
        /\ served' = [served EXCEPT ![c][0] = NoReply]
        /\ UNCHANGED <<conn, replies, srv, out, typed, todo, res, exit, file>>
    BY DEF Send, SendCall, GoTo
  <1>2. Nowhere(c)
    BY <1>0, <1>1 DEF ClientOK, StreamOK
  <1>3. calls'[c] = <<>> \/ calls'[c] = <<m>>
    <2> HIDE DEF m
    <2> QED
      BY <1>0, <1>1, <1>2, OneMessage DEF RpcTypeOK, Nowhere
  <1>4. served'[c][0] = NoReply
    BY <1>0, <1>1, ClientsAssumption DEF RpcTypeOK
  <1>5. OnTheWay(c, r)'
    BY <1>1, <1>2, <1>3, <1>4 DEF OnTheWay, Nowhere, Called
  <1>6. \A d \in Clients \ {c} : state(d)' = state(d)
    BY <1>0, <1>1 DEF TypeOK, RpcTypeOK, state
  <1>7. Linked(c)' /\ StreamOK(c)' /\ file'[c] # Empty
    BY <1>0, <1>1, <1>5 DEF TypeOK, ClientOK, Linked, StreamOK
  <1> QED
    BY <1>6, <1>7 DEF Keeps, ClientOK

\* What comes back is the answer of the handler to the call that waits.
LEMMA AnswerBack ==
  ASSUME ClientsInv, NEW c \in Clients, prog[c] = "waiting", replies[c] # <<>>
  PROVE  /\ Back(c, Head(todo[c]))
         /\ NextReply(c) = AnswerTo(c, Head(todo[c]))
         /\ Tail(replies[c]) = <<>>
  <1>1. Back(c, Head(todo[c]))
    BY DEF ClientsInv, ClientOK, StreamOK, OnTheWay, Nowhere, Called, Executed
  <1>2. replies[c] = <<AnswerTo(c, Head(todo[c]))>>
    BY <1>1 DEF Back
  <1> QED
    BY <1>1, <1>2, OneMessage DEF NextReply

LEMMA AnsweredKeeps ==
  ASSUME ClientsInv, NEW c \in Clients, Answered(c)
  PROVE  Keeps(c)
  <1> DEFINE r == Head(todo[c])
             a == served[c][0]
  <1>0. TypeOK /\ RpcTypeOK /\ ClientOK(c)
    BY DEF ClientsInv, TypeOK
  <1>1. /\ prog[c] = "waiting" /\ prog' = [prog EXCEPT ![c] = "ready"]
        /\ replies[c] # <<>> /\ replies' = [replies EXCEPT ![c] = Tail(@)]
        /\ todo' = [todo EXCEPT ![c] = Tail(@)]
        /\ typed' = IF Tail(todo[c]) = <<>> THEN [typed EXCEPT ![c] = <<>>] ELSE typed
        /\ res' = [res EXCEPT ![c] = presult(NextReply(c).fields, @)]
        /\ file' = IF r.fname = "kvget" /\ res'[c].error = "kSuccess"
                     THEN [file EXCEPT ![c] = res'[c].value] ELSE file
        /\ NextReply(c).mtype = "T_REPLY"
        /\ UNCHANGED <<conn, calls, srv, out, served, exit>>
    <2>1. res' = [res EXCEPT ![c] = presult(NextReply(c).fields, @)]
      BY DEF Answered, AnsweredWriting
    <2>2. res'[c] \in Result
      BY <1>0, <2>1, RecvTyped, ReplyTyped DEF Answered, AnsweredWriting, TypeOK
    <2>3. [e \in ErrorCode |-> e = "kSuccess"][res'[c].error] <=> res'[c].error = "kSuccess"
      BY <2>2 DEF Result
    <2>4. file' = IF r.fname = "kvget" /\ res'[c].error = "kSuccess"
                    THEN [file EXCEPT ![c] = res'[c].value] ELSE file
      BY <2>3 DEF Answered, AnsweredWriting
    <2> QED
      BY <2>1, <2>4 DEF Answered, AnsweredWriting, RecvReply, GoTo, Returns
  <1>2. /\ Back(c, r) /\ NextReply(c) = AnswerTo(c, r) /\ Tail(replies[c]) = <<>>
    BY <1>1, AnswerBack
  <1>3. Nowhere(c)'
    BY <1>0, <1>1, <1>2 DEF Back, Nowhere, RpcTypeOK
  <1>4. res'[c] = a.result
    <2>1. a.mtype = "T_REPLY" /\ NextReply(c).fields = result(a) /\ a \in Replies
      BY <1>1, <1>2 DEF AnswerTo, ReplyMessage, Back, Made
    <2>2. presult(result(a), res[c]) = a.result
      BY <1>0, <2>1, AnswerArrives DEF TypeOK
    <2> QED
      BY <1>0, <1>1, <2>1, <2>2 DEF TypeOK
  <1>5. file'[c] # Empty
    <2>1. CASE r.fname = "kvget" /\ res'[c].error = "kSuccess"
      <3>1. res'[c].value # Empty
        BY <1>2, <1>4, <2>1 DEF Back, Made
      <3> QED
        BY <1>0, <1>1, <2>1, <3>1 DEF TypeOK
    <2>2. CASE ~(r.fname = "kvget" /\ res'[c].error = "kSuccess")
      BY <1>0, <1>1, <2>2 DEF ClientOK
    <2> QED
      BY <2>1, <2>2
  <1>6. \A d \in Clients \ {c} : state(d)' = state(d)
    <2>1. \A d \in Clients \ {c} : typed'[d] = typed[d] /\ file'[d] = file[d]
      BY <1>0, <1>1 DEF TypeOK
    <2> QED
      BY <1>0, <1>1, <2>1 DEF TypeOK, RpcTypeOK, state
  <1>7. Linked(c)' /\ StreamOK(c)'
    BY <1>0, <1>1, <1>3 DEF TypeOK, ClientOK, Linked, StreamOK
  <1> QED
    BY <1>5, <1>6, <1>7 DEF Keeps, ClientOK

LEMMA ProgramKeeps ==
  ASSUME ClientsInv, NEW c \in Clients, Program(c)
  PROVE  Keeps(c)
  <1>1. CASE ConnectFails(c)
    BY <1>1, ExitKeeps DEF ConnectFails, ClientsInv, ClientOK, Linked
  <1>2. CASE ReadNothing(c) \/ Throws(c) \/ Finish(c)
    BY <1>2, ExitKeeps DEF ReadNothing, Throws, Finish
  <1> QED
    BY <1>1, <1>2, ConnectKeeps, ReadLineKeeps, ReadBeyondKeeps, SendKeeps, AnsweredKeeps DEF Program
-----------------------------------------------------------------------------
(***************************************************************************)
(* The thread of the server, and the connection.                           *)
(***************************************************************************)
\* What the handler may answer.
LEMMA OutcomesMade ==
  ASSUME NEW r \in Requests, content \in [Keys -> Strings], NEW a \in Outcomes(r)
  PROVE  /\ a \in Replies
         /\ r.fname = "kvget" /\ a.result.error = "kSuccess" => a.result.value # Empty
  <1>1. a = Reply(Answer(r, content)) \/ a \in FailureAnswers(r)
    BY DEF Outcomes
  <1>2. a \in Replies
    BY <1>1, AnswersTyped
  <1>3. ASSUME r.fname = "kvget" PROVE a.result.error = "kSuccess" => a.result.value # Empty
    BY <1>1, <1>3 DEF Answer, FailureAnswers, Lookup, Reply
  <1> QED
    BY <1>2, <1>3

LEMMA ProcessKeeps ==
  ASSUME ClientsInv, NEW c \in Clients, Process(c), UNCHANGED progVars
  PROVE  Keeps(c)
  <1> DEFINE m == Head(calls[c])
  <1>0. TypeOK /\ RpcTypeOK /\ ClientOK(c)
    BY DEF ClientsInv, TypeOK
  <1>1. /\ srv[c] = "reading" /\ srv' = [srv EXCEPT ![c] = "writing"]
        /\ calls[c] # <<>> /\ calls' = [calls EXCEPT ![c] = Tail(@)]
        /\ UNCHANGED <<conn, replies, prog, typed, todo, exit, file>>
    BY DEF Process, ProcessTaking, progVars
  <1>2. PICK a \in Outcomes(Args(m)) :
          /\ out' = [out EXCEPT ![c] = ReplyMessage(m.fname, m.seqid, a)]
          /\ served' = [served EXCEPT ![c][m.seqid] = a]
    BY DEF Process, ProcessTaking
  <1>3. out'[c] \in Messages
    BY <1>0, ProcessTyped
  <1>4. m \in Calls /\ m.seqid = 0
    BY <1>0, <1>1, TakeMessage, CallTyped, ClientsAssumption DEF RpcTypeOK
  <1> HIDE DEF m
  <1>5. \A d \in Clients \ {c} : state(d)' = state(d)
    BY <1>0, <1>1, <1>2 DEF TypeOK, RpcTypeOK, state
  <1>6. ASSUME NEW r \in Requests, OnTheWay(c, r) PROVE OnTheWay(c, r)'
    <2>1. Called(c, r)
      BY <1>1, <1>6 DEF OnTheWay, Nowhere, Executed, Back
    <2>2. m = CallMessage(r, 0) /\ Tail(calls[c]) = <<>>
      BY <2>1, OneMessage DEF Called, m
    <2>3. Args(m) = r /\ m.fname = r.fname
      BY <2>2, CallArrives DEF CallMessage
    <2>4. calls'[c] = <<>> /\ replies'[c] = <<>> /\ srv'[c] = "writing"
      BY <1>0, <1>1, <2>1, <2>2 DEF Called, RpcTypeOK
    <2>5. served'[c][0] = a /\ out'[c] = ReplyMessage(r.fname, 0, a)
      BY <1>0, <1>2, <1>4, <2>3, ClientsAssumption DEF RpcTypeOK
    <2>6. Made(c, r)'
      BY <1>0, <1>2, <2>3, <2>5, OutcomesMade DEF RpcTypeOK, Made
    <2> QED
      BY <2>4, <2>5, <2>6 DEF OnTheWay, Executed, AnswerTo
  <1>7. StreamOK(c)'
    <2>1. prog[c] \in {"waiting", "exited"}
      BY <1>0, <1>1 DEF TypeOK, ClientOK, StreamOK, Nowhere
    <2>2. CASE prog[c] = "waiting"
      BY <1>0, <1>1, <1>3, <1>6, <2>2 DEF ClientOK, StreamOK
    <2>3. CASE prog[c] = "exited"
      <3>1. calls'[c] = <<>>
        BY <1>0, <1>1, <2>3, OneMessage DEF RpcTypeOK, ClientOK, StreamOK
      <3> QED
        BY <1>1, <1>3, <2>3, <3>1 DEF StreamOK
    <2> QED
      BY <2>1, <2>2, <2>3
  <1>8. Linked(c)' /\ file'[c] # Empty
    BY <1>0, <1>1 DEF ClientOK, Linked
  <1> QED
    BY <1>5, <1>7, <1>8 DEF Keeps, ClientOK

LEMMA WriteReplyKeeps ==
  ASSUME ClientsInv, NEW c \in Clients, WriteReply(c), UNCHANGED progVars
  PROVE  Keeps(c)
  <1>0. TypeOK /\ RpcTypeOK /\ ClientOK(c)
    BY DEF ClientsInv, TypeOK
  <1>1. /\ srv[c] = "writing" /\ srv'[c] \in {"reading", "ended"}
        /\ replies'[c] \in {replies[c], replies[c] \o <<out[c]>>}
        /\ \A d \in Clients \ {c} : srv'[d] = srv[d] /\ replies'[d] = replies[d] /\ out'[d] = out[d]
        /\ UNCHANGED <<conn, calls, served, prog, typed, todo, exit, file>>
    BY <1>0 DEF WriteReply, WriteReplySending, progVars, RpcTypeOK
  <1>2. ASSUME NEW r, OnTheWay(c, r) PROVE OnTheWay(c, r)'
    <2>1. Executed(c, r)
      BY <1>1, <1>2 DEF OnTheWay, Nowhere, Called, Back
    <2>2. replies'[c] = <<>> \/ replies'[c] = <<AnswerTo(c, r)>>
      BY <1>1, <2>1, OneMessage DEF Executed
    <2>3. CASE replies'[c] = <<>>
      BY <1>1, <2>1, <2>3 DEF Executed, OnTheWay, Nowhere
    <2>4. CASE replies'[c] = <<AnswerTo(c, r)>>
      BY <1>1, <2>1, <2>4 DEF Executed, OnTheWay, Back, Made, AnswerTo
    <2> QED
      BY <2>2, <2>3, <2>4
  <1>3. prog[c] \in {"waiting", "exited"}
    BY <1>0, <1>1 DEF TypeOK, ClientOK, StreamOK, Nowhere
  <1>4. StreamOK(c)'
    BY <1>0, <1>1, <1>2, <1>3 DEF ClientOK, StreamOK
  <1>5. Linked(c)' /\ file'[c] # Empty
    BY <1>0, <1>1 DEF ClientOK, Linked
  <1> QED
    BY <1>1, <1>4, <1>5 DEF Keeps, ClientOK, state

\* The call of a thread that blocks is lost.
LEMMA BlockKeeps ==
  ASSUME ClientsInv, NEW c \in Clients, Block(c), UNCHANGED progVars
  PROVE  Keeps(c)
  <1>0. TypeOK /\ RpcTypeOK /\ ClientOK(c)
    BY DEF ClientsInv, TypeOK
  <1>1. /\ srv[c] = "reading" /\ srv' = [srv EXCEPT ![c] = "blocked"]
        /\ calls[c] # <<>> /\ calls' = [calls EXCEPT ![c] = Tail(@)]
        /\ UNCHANGED <<conn, replies, out, served, prog, typed, todo, exit, file>>
    BY DEF Block, progVars
  <1>2. ASSUME NEW r, OnTheWay(c, r) PROVE OnTheWay(c, r)'
    <2>1. Called(c, r)
      BY <1>1, <1>2 DEF OnTheWay, Nowhere, Executed, Back
    <2>2. calls'[c] = <<>> /\ srv'[c] # "writing"
      BY <1>0, <1>1, <2>1, OneMessage DEF Called, RpcTypeOK
    <2> QED
      BY <1>1, <2>1, <2>2 DEF Called, OnTheWay, Nowhere
  <1>3. StreamOK(c)'
    <2>1. prog[c] \in {"waiting", "exited"} /\ srv'[c] # "writing"
      BY <1>0, <1>1 DEF TypeOK, RpcTypeOK, ClientOK, StreamOK, Nowhere
    <2>2. CASE prog[c] = "waiting"
      BY <1>0, <1>1, <1>2, <2>1, <2>2 DEF ClientOK, StreamOK
    <2>3. CASE prog[c] = "exited"
      <3>1. calls'[c] = <<>>
        BY <1>0, <1>1, <2>3, OneMessage DEF RpcTypeOK, ClientOK, StreamOK
      <3> QED
        BY <1>1, <2>1, <2>3, <3>1 DEF StreamOK
    <2> QED
      BY <2>1, <2>2, <2>3
  <1>4. Linked(c)' /\ file'[c] # Empty
    BY <1>0, <1>1 DEF ClientOK, Linked
  <1> QED
    BY <1>0, <1>1, <1>3, <1>4 DEF RpcTypeOK, Keeps, ClientOK, state

LEMMA DisconnectedKeeps ==
  ASSUME ClientsInv, NEW c \in Clients, Disconnected(c), UNCHANGED progVars
  PROVE  Keeps(c)
  <1>0. TypeOK /\ RpcTypeOK /\ ClientOK(c)
    BY DEF ClientsInv, TypeOK
  <1>1. /\ srv[c] = "reading" /\ srv' = [srv EXCEPT ![c] = "ended"]
        /\ UNCHANGED <<conn, calls, replies, out, served, prog, typed, todo, exit, file>>
    BY DEF Disconnected, DisconnectedFrom, progVars
  <1>2. StreamOK(c)'
    BY <1>0, <1>1 DEF RpcTypeOK, ClientOK, StreamOK, OnTheWay, Nowhere, Called, Executed, Back, Made, AnswerTo
  <1>3. Linked(c)' /\ file'[c] # Empty
    BY <1>0, <1>1 DEF ClientOK, Linked
  <1> QED
    BY <1>0, <1>1, <1>2, <1>3 DEF RpcTypeOK, Keeps, ClientOK, state

LEMMA BreakKeeps ==
  ASSUME ClientsInv, NEW c \in Clients, Break(c), UNCHANGED progVars
  PROVE  Keeps(c)
  <1>0. TypeOK /\ RpcTypeOK /\ ClientOK(c)
    BY DEF ClientsInv, TypeOK
  <1>1. /\ conn[c] = "open" /\ conn' = [conn EXCEPT ![c] = "broken"]
        /\ calls'[c] \in {calls[c], <<>>} /\ replies'[c] \in {replies[c], <<>>}
        /\ \A d \in Clients \ {c} : calls'[d] = calls[d] /\ replies'[d] = replies[d]
        /\ UNCHANGED <<srv, out, served, prog, typed, todo, exit, file>>
    BY <1>0 DEF Break, progVars, RpcTypeOK
  <1>2. prog[c] \in {"ready", "waiting"}
    BY <1>0, <1>1 DEF TypeOK, ClientOK, Linked
  <1>3. ASSUME NEW r, OnTheWay(c, r) PROVE OnTheWay(c, r)'
    BY <1>1, <1>3 DEF OnTheWay, Nowhere, Called, Executed, Back, Made, AnswerTo
  <1>4. StreamOK(c)'
    BY <1>0, <1>1, <1>2, <1>3 DEF ClientOK, StreamOK, Nowhere
  <1>5. Linked(c)'
    BY <1>0, <1>1, <1>2 DEF RpcTypeOK, ClientOK, Linked
  <1>6. file'[c] # Empty
    BY <1>0, <1>1 DEF ClientOK
  <1> QED
    BY <1>0, <1>1, <1>4, <1>5, <1>6 DEF RpcTypeOK, Keeps, ClientOK, state
-----------------------------------------------------------------------------
LEMMA InvStep == ASSUME ClientsInv, [Next]_vars PROVE ClientsInv'
  <1>1. CASE UNCHANGED vars
    <2>1. TypeOK'
      <3>1. RpcTypeOK' = RpcTypeOK
        BY <1>1 DEF vars, rpcVars, RpcTypeOK
      <3> QED
        BY <1>1, <3>1 DEF vars, progVars, ClientsInv, TypeOK
    <2>2. \A c \in Clients : ClientOK(c)'
      BY <1>1, StateStays DEF ClientsInv, vars, rpcVars, progVars, state
    <2> QED
      BY <2>1, <2>2 DEF ClientsInv
  <1>2. CASE Next
    <2>1. PICK c \in Clients :
            \/ Program(c)
            \/ ServerThread(c) /\ UNCHANGED progVars
            \/ Break(c) /\ UNCHANGED progVars
      BY <1>2 DEF Next
    <2>2. TypeOK'
      BY <2>1, ProgramTyped, OthersTyped
    <2>3. Keeps(c)
      BY <2>1, ProgramKeeps, ProcessKeeps, BlockKeeps, WriteReplyKeeps, DisconnectedKeeps, BreakKeeps
         DEF ServerThread
    <2>4. \A d \in Clients : ClientOK(d)'
      BY <2>3, StateStays DEF Keeps, ClientsInv
    <2> QED
      BY <2>2, <2>4 DEF ClientsInv
  <1> QED
    BY <1>1, <1>2

\* The inductive invariant: it relates what the program of a client waits for,
\* its line, and what is on its connection.
THEOREM ClientsInvariant == Spec => []ClientsInv
  BY InitInv, InvStep, PTL DEF Spec

\* The variables keep their types; above all the Result that recv_ reads into,
\* and the words a program calls with.
THEOREM ClientsTyped == Spec => []TypeOK
  <1>1. ClientsInv => TypeOK
    BY DEF ClientsInv
  <1> QED
    BY <1>1, ClientsInvariant, PTL

\* The file of a -get never holds "" (NoEmptyFile), although the Result that is
\* written to it is the one of the calls before.
THEOREM FilesHoldValues == Spec => []NoEmptyFile
  <1>1. ClientsInv => NoEmptyFile
    BY DEF ClientsInv, ClientOK, NoEmptyFile
  <1> QED
    BY <1>1, ClientsInvariant, PTL
-----------------------------------------------------------------------------
(***************************************************************************)
(* The lines.                                                              *)
(***************************************************************************)
Words == Keys \cup Strings \cup Options

\* The number of words before phrase i of the line.
Before(ps, i) == IF i = 1 THEN 0 ELSE IF i = 2 THEN Len(ps[1]) ELSE Len(ps[1]) + Len(ps[2])

LEMMA PhraseWords ==
  ASSUME NEW p \in Phrases
  PROVE  /\ p \in Seq(Words) /\ p # <<>> /\ p[1] \in Options
         /\ \A n \in DOMAIN p : p[n] \in Options => n = 1
         /\ DOMAIN p = 1..Len(p) /\ Len(p) \in {2, 3}
         /\ Len(p) = 2 <=> p[1] = "-del"
         /\ p[2] \in Keys
         /\ p[1] # "-del" => p[3] \in Strings
  <1>1. CASE \E k \in Keys \ Options, v \in Strings \ Options : p = <<"-set", k, v>> \/ p = <<"-get", k, v>>
    <2>1. PICK o \in {"-set", "-get"}, k \in Keys \ Options, v \in Strings \ Options : p = <<o, k, v>>
      BY <1>1
    <2> QED
      BY <2>1 DEF Words, Options
  <1>2. CASE \E k \in Keys \ Options : p = <<"-del", k>>
    BY <1>2 DEF Words, Options
  <1> QED
    BY <1>1, <1>2 DEF Phrases

LEMMA UserPhrases ==
  ASSUME NEW ps \in UserCommands, NEW i \in 1..3
  PROVE  /\ ps[i] \in Seq(Words) /\ (ps[i] # <<>> => ps[i] \in Phrases)
         /\ \A j \in 1..3 : i # j /\ ps[i] # <<>> /\ ps[j] # <<>> => ps[i][1] # ps[j][1]
  <1>1. ps[i] \in Phrases \cup {<<>>}
    BY DEF UserCommands
  <1>2. \A j \in 1..3 : i # j /\ ps[i] # <<>> /\ ps[j] # <<>> => ps[i][1] # ps[j][1]
    BY DEF UserCommands
  <1>3. <<>> \in Seq(Words)
    OBVIOUS
  <1> QED
    BY <1>1, <1>2, <1>3, PhraseWords

LEMMA BeforeNat ==
  ASSUME NEW ps \in UserCommands, NEW i \in 1..3
  PROVE  Before(ps, i) \in Nat
  <1>1. Len(ps[1]) \in Nat /\ Len(ps[2]) \in Nat
    <2>1. ps[1] \in Seq(Words) /\ ps[2] \in Seq(Words)
      BY UserPhrases
    <2> QED
      BY <2>1
  <1>2. Len(ps[1]) + Len(ps[2]) \in Nat
    <2>1. \A m, n \in Nat : m + n \in Nat
      OBVIOUS
    <2> QED
      BY <1>1, <2>1, Zenon
  <1> QED
    BY <1>1, <1>2, Zenon DEF Before

\* The words of the line are those of its phrases.
LEMMA LineWords ==
  ASSUME NEW ps \in UserCommands
  PROVE  /\ LineOf(ps) \in Seq(Words)
         /\ \A i \in 1..3, n \in Nat :
              n \in 1..Len(ps[i]) =>
                /\ Before(ps, i) + n \in DOMAIN LineOf(ps)
                /\ LineOf(ps)[Before(ps, i) + n] = ps[i][n]
         /\ \A m \in DOMAIN LineOf(ps) :
              \E i \in 1..3 : \E n \in 1..Len(ps[i]) : m = Before(ps, i) + n
  <1> DEFINE a == ps[1]
             b == ps[2]
             c == ps[3]
  <1>1. a \in Seq(Words) /\ b \in Seq(Words) /\ c \in Seq(Words)
    BY UserPhrases
  <1>2. /\ Before(ps, 1) = 0 /\ Before(ps, 2) = Len(a) /\ Before(ps, 3) = Len(a) + Len(b)
        /\ LineOf(ps) = (a \o b) \o c
    BY DEF Before, LineOf
  <1> HIDE DEF a, b, c
  <1>3. /\ a \o b \in Seq(Words) /\ Len(a \o b) = Len(a) + Len(b)
        /\ \A n \in 1..Len(a) : (a \o b)[n] = a[n]
        /\ \A n \in 1..Len(b) : (a \o b)[Len(a) + n] = b[n]
    BY <1>1
  <1>4. PICK ab : ab = a \o b
    OBVIOUS
  <1>5. /\ ab \o c \in Seq(Words) /\ Len(ab \o c) = Len(a) + Len(b) + Len(c)
        /\ DOMAIN (ab \o c) = 1..(Len(a) + Len(b) + Len(c))
        /\ \A n \in 1..(Len(a) + Len(b)) : (ab \o c)[n] = ab[n]
        /\ \A n \in 1..Len(c) : (ab \o c)[Len(a) + Len(b) + n] = c[n]
    BY <1>1, <1>3, <1>4
  <1>6. Len(a) \in Nat /\ Len(b) \in Nat /\ Len(c) \in Nat
    BY <1>1
  <1>7. PICK line : line = LineOf(ps)
    OBVIOUS
  <1>8. /\ line \in Seq(Words) /\ DOMAIN line = 1..(Len(a) + Len(b) + Len(c))
        /\ \A n \in 1..Len(a) : line[n] = a[n]
        /\ \A n \in 1..Len(b) : line[Len(a) + n] = b[n]
        /\ \A n \in 1..Len(c) : line[Len(a) + Len(b) + n] = c[n]
    BY <1>2, <1>3, <1>4, <1>5, <1>6, <1>7
  <1>9. ASSUME NEW i \in 1..3, NEW n \in 1..Len(ps[i])
        PROVE  Before(ps, i) + n \in DOMAIN line /\ line[Before(ps, i) + n] = ps[i][n]
    <2>1. CASE i = 1
      BY <1>2, <1>6, <1>8, <1>9, <2>1 DEF a
    <2>2. CASE i = 2
      <3>1. n \in 1..Len(b) /\ ps[i] = b /\ Before(ps, i) = Len(a)
        BY <1>2, <1>9, <2>2 DEF b
      <3>2. Len(a) + n \in DOMAIN line
        BY <1>6, <1>8, <3>1
      <3>3. line[Len(a) + n] = b[n]
        BY <1>8, <3>1, Zenon
      <3> QED
        BY <3>1, <3>2, <3>3, Zenon
    <2>3. CASE i = 3
      <3>1. n \in 1..Len(c) /\ ps[i] = c /\ Before(ps, i) = Len(a) + Len(b)
        BY <1>2, <1>9, <2>3 DEF c
      <3>2. Len(a) + Len(b) + n \in DOMAIN line
        BY <1>6, <1>8, <3>1
      <3>3. line[Len(a) + Len(b) + n] = c[n]
        BY <1>8, <3>1, Zenon
      <3> QED
        BY <3>1, <3>2, <3>3, Zenon
    <2> QED
      BY <2>1, <2>2, <2>3
  <1>10. ASSUME NEW m \in DOMAIN line
         PROVE  \E i \in 1..3 : \E n \in 1..Len(ps[i]) : m = Before(ps, i) + n
    <2>1. CASE m <= Len(a)
      <3>1. m \in 1..Len(ps[1]) /\ m = Before(ps, 1) + m
        BY <1>2, <1>6, <1>8, <2>1 DEF a
      <3> QED
        BY <3>1
    <2>2. CASE m > Len(a) /\ m <= Len(a) + Len(b)
      <3>1. m - Len(a) \in 1..Len(ps[2]) /\ m = Before(ps, 2) + (m - Len(a))
        BY <1>2, <1>6, <1>8, <2>2 DEF b
      <3> QED
        BY <3>1
    <2>3. CASE m > Len(a) + Len(b)
      <3>0. ps[3] = c /\ Before(ps, 3) = Len(a) + Len(b)
        BY <1>2 DEF c
      <3>1. m - (Len(a) + Len(b)) \in 1..Len(c) /\ m = Len(a) + Len(b) + (m - (Len(a) + Len(b)))
        BY <1>6, <1>8, <2>3
      <3> QED
        BY <3>0, <3>1
    <2> QED
      BY <1>6, <1>8, <2>1, <2>2, <2>3
  <1> QED
    BY <1>7, <1>8, <1>9, <1>10

\* An option is where its phrase begins, and nowhere else.
LEMMA OptionPlace ==
  ASSUME NEW ps \in UserCommands, NEW option \in Options
  PROVE  /\ Has(LineOf(ps), option) <=> \E i \in 1..3 : ps[i] # <<>> /\ ps[i][1] = option
         /\ \A i \in 1..3 : ps[i] # <<>> /\ ps[i][1] = option =>
              Position(LineOf(ps), option) = Before(ps, i) + 1
  <1> DEFINE line == LineOf(ps)
  <1>1. \A i \in 1..3 : Before(ps, i) \in Nat
    BY BeforeNat
  <1>2. ASSUME NEW i \in 1..3, ps[i] # <<>>, ps[i][1] = option
        PROVE  Before(ps, i) + 1 \in DOMAIN line /\ line[Before(ps, i) + 1] = option
    <2>1. 1 \in 1..Len(ps[i])
      BY <1>2, UserPhrases
    <2> QED
      BY <1>2, <2>1, LineWords
  <1>3. ASSUME NEW m \in DOMAIN line, line[m] = option
        PROVE  \E i \in 1..3 : ps[i] # <<>> /\ ps[i][1] = option /\ m = Before(ps, i) + 1
    <2>0. PICK i \in 1..3 : \E n \in 1..Len(ps[i]) : m = Before(ps, i) + n
      BY LineWords
    <2>1. PICK n \in 1..Len(ps[i]) : m = Before(ps, i) + n
      BY <2>0
    <2>2. ps[i] # <<>> /\ n \in DOMAIN ps[i] /\ n \in Nat
      BY <2>1, UserPhrases
    <2>3. ps[i][n] = option
      BY <1>3, <2>1, <2>2, LineWords
    <2>4. n = 1
      BY <2>2, <2>3, UserPhrases, PhraseWords
    <2> QED
      BY <2>1, <2>2, <2>3, <2>4
  <1>4. Has(line, option) <=> \E i \in 1..3 : ps[i] # <<>> /\ ps[i][1] = option
    BY <1>2, <1>3 DEF Has
  <1>5. ASSUME NEW i \in 1..3, ps[i] # <<>>, ps[i][1] = option
        PROVE  Position(line, option) = Before(ps, i) + 1
    <2>1. \A m \in DOMAIN line : line[m] = option => m = Before(ps, i) + 1
      <3>1. ASSUME NEW m \in DOMAIN line, line[m] = option PROVE m = Before(ps, i) + 1
        <4>1. PICK j \in 1..3 : ps[j] # <<>> /\ ps[j][1] = option /\ m = Before(ps, j) + 1
          BY <1>3, <3>1
        <4>2. i = j
          BY <1>5, <4>1, UserPhrases
        <4> QED
          BY <4>1, <4>2
      <3> QED
        BY <3>1
    <2>2. Before(ps, i) + 1 \in DOMAIN line /\ line[Before(ps, i) + 1] = option
      BY <1>2, <1>5
    <2>3. DOMAIN line = 1..Len(line) /\ Len(line) \in Nat
      BY LineWords
    <2> HIDE DEF line
    <2>4. \A m \in 1..((Before(ps, i) + 1) - 1) : line[m] # option
      BY <1>1, <2>1, <2>2, <2>3
    <2> QED
      BY <2>1, <2>2, <2>4 DEF Position
  <1> QED
    BY <1>4, <1>5

\* A call that is read from behind the option of a phrase is what it means.
LEMMA PhraseMeans ==
  ASSUME NEW ps \in UserCommands, NEW i \in 1..3, ps[i] # <<>>
  PROVE  /\ ps[i][1] = "-set" => Means(ps[i], SetAt(LineOf(ps), Before(ps, i) + 1))
         /\ ps[i][1] = "-get" => Means(ps[i], GetAt(LineOf(ps), Before(ps, i) + 1))
         /\ ps[i][1] = "-del" => Means(ps[i], DelAt(LineOf(ps), Before(ps, i) + 1))
  <1>1. PICK line : line = LineOf(ps)
    OBVIOUS
  <1>2. PICK at : at = Before(ps, i)
    OBVIOUS
  <1>3. PICK p \in Phrases : p = ps[i]
    BY UserPhrases
  <1>4. at \in Nat
    BY <1>2, BeforeNat
  <1>5. 2 \in 1..Len(p) /\ (p[1] # "-del" => 3 \in 1..Len(p))
    BY PhraseWords
  <1>6. at + 2 \in DOMAIN line /\ line[at + 2] = p[2]
    BY <1>1, <1>2, <1>3, <1>5, LineWords
  <1>7. p[1] # "-del" => at + 3 \in DOMAIN line /\ line[at + 3] = p[3]
    BY <1>1, <1>2, <1>3, <1>5, LineWords
  <1>8. (at + 1) + 1 = at + 2 /\ (at + 1) + 2 = at + 3
    BY <1>4
  <1>9. Word(line, (at + 1) + 1) = p[2]
    BY <1>6, <1>8 DEF Word
  <1>10. p[1] # "-del" => Word(line, (at + 1) + 2) = p[3] /\ p[3] # Missing
    BY <1>7, <1>8, PhraseWords, ClientsAssumption DEF Word
  <1>11. /\ p[1] = "-set" => Means(p, SetAt(line, at + 1))
         /\ p[1] = "-get" => Means(p, GetAt(line, at + 1))
         /\ p[1] = "-del" => Means(p, DelAt(line, at + 1))
    BY <1>9, <1>10 DEF Means, SetAt, GetAt, DelAt
  <1> QED
    BY <1>1, <1>2, <1>3, <1>11

\* The calls of a line in their order: of three calls, those that are made.
LEMMA CallsInOrder ==
  ASSUME NEW x, NEW y, NEW z, NEW X, NEW Y, NEW Z,
         X = <<x>> \/ X = <<>>, Y = <<y>> \/ Y = <<>>, Z = <<z>> \/ Z = <<>>
  PROVE  LET made == X \o Y \o Z IN
         /\ \A n \in DOMAIN made : \/ made[n] = x /\ X # <<>>
                                   \/ made[n] = y /\ Y # <<>>
                                   \/ made[n] = z /\ Z # <<>>
         /\ X # <<>> => \E n \in DOMAIN made : made[n] = x
         /\ Y # <<>> => \E n \in DOMAIN made : made[n] = y
         /\ Z # <<>> => \E n \in DOMAIN made : made[n] = z
         /\ \A m, n \in DOMAIN made :
              m < n => \/ made[m] = x /\ made[n] \in {y, z}
                       \/ made[m] = y /\ made[n] = z
  <1>1. PICK S : S = {x, y, z}
    OBVIOUS
  <1>2. X \in Seq(S) /\ Y \in Seq(S) /\ Z \in Seq(S)
    <2>1. x \in S /\ y \in S /\ z \in S
      BY <1>1
    <2>2. <<>> \in Seq(S) /\ \A u \in S : <<u>> \in Seq(S)
      OBVIOUS
    <2> QED
      BY <2>1, <2>2
  <1>3. /\ Len(X) \in {0, 1} /\ Len(Y) \in {0, 1} /\ Len(Z) \in {0, 1}
        /\ X # <<>> => Len(X) = 1 /\ X[1] = x
        /\ Y # <<>> => Len(Y) = 1 /\ Y[1] = y
        /\ Z # <<>> => Len(Z) = 1 /\ Z[1] = z
        /\ X = <<>> => Len(X) = 0
        /\ Y = <<>> => Len(Y) = 0
        /\ Z = <<>> => Len(Z) = 0
    OBVIOUS
  <1>4. PICK t : t = X \o Y
    OBVIOUS
  <1>5. PICK made : made = t \o Z
    OBVIOUS
  <1>6. /\ t \in Seq(S) /\ Len(t) \in Nat
        /\ \A n \in DOMAIN t : \/ n = 1 /\ t[n] = x /\ X # <<>>
                               \/ n = Len(X) + 1 /\ t[n] = y /\ Y # <<>>
        /\ X # <<>> => 1 \in DOMAIN t /\ t[1] = x
        /\ Y # <<>> => Len(X) + 1 \in DOMAIN t /\ t[Len(X) + 1] = y
    <2>1. t \in Seq(S) /\ Len(t) = Len(X) + Len(Y) /\ DOMAIN t = 1..(Len(X) + Len(Y))
      BY <1>2, <1>4
    <2>2. /\ \A n \in 1..Len(X) : t[n] = X[n]
          /\ \A n \in 1..Len(Y) : t[Len(X) + n] = Y[n]
      BY <1>2, <1>4
    <2> QED
      BY <1>3, <2>1, <2>2
  <1>7. /\ DOMAIN made = 1..(Len(t) + Len(Z))
        /\ \A n \in DOMAIN t : n \in DOMAIN made /\ made[n] = t[n]
        /\ \A n \in DOMAIN made : \/ n \in DOMAIN t
                                  \/ n = Len(t) + 1 /\ made[n] = z /\ Z # <<>>
        /\ Z # <<>> => Len(t) + 1 \in DOMAIN made /\ made[Len(t) + 1] = z
        /\ DOMAIN t = 1..Len(t)
    <2>1. /\ DOMAIN made = 1..(Len(t) + Len(Z)) /\ DOMAIN t = 1..Len(t)
          /\ \A n \in 1..Len(t) : made[n] = t[n]
          /\ \A n \in 1..Len(Z) : made[Len(t) + n] = Z[n]
      BY <1>2, <1>5, <1>6
    <2> QED
      BY <1>3, <1>6, <2>1
  <1>8. ASSUME NEW m \in DOMAIN made, NEW n \in DOMAIN made, m < n
        PROVE  \/ made[m] = x /\ made[n] \in {y, z}
               \/ made[m] = y /\ made[n] = z
    <2>1. m \in DOMAIN t
      BY <1>6, <1>7, <1>8
    <2>2. made[m] = x \/ made[m] = y
      BY <1>6, <1>7, <2>1
    <2>3. CASE n \in DOMAIN t
      BY <1>3, <1>6, <1>7, <1>8, <2>1, <2>3
    <2>4. CASE made[n] = z
      BY <2>2, <2>4
    <2> QED
      BY <1>7, <2>3, <2>4
  <1>9. /\ \A n \in DOMAIN made : \/ made[n] = x /\ X # <<>>
                                  \/ made[n] = y /\ Y # <<>>
                                  \/ made[n] = z /\ Z # <<>>
        /\ X # <<>> => \E n \in DOMAIN made : made[n] = x
        /\ Y # <<>> => \E n \in DOMAIN made : made[n] = y
        /\ Z # <<>> => \E n \in DOMAIN made : made[n] = z
    BY <1>6, <1>7
  <1> QED
    BY <1>4, <1>5, <1>8, <1>9, ZenonT(30)

\* Calls read from behind the options of the line are those asked for.
LEMMA LinePerforms ==
  ASSUME NEW ps \in UserCommands, NEW set, NEW get, NEW del,
         \A i \in 1..3 : ps[i] # <<>> =>
           /\ ps[i][1] = "-set" => set = Before(ps, i) + 1
           /\ ps[i][1] = "-get" => get = Before(ps, i) + 1
           /\ ps[i][1] = "-del" => del = Before(ps, i) + 1,
         del # 0 <=> Has(LineOf(ps), "-del")
  PROVE  Performs(LineCalls(LineOf(ps), set, get, del), ps)
  <1> DEFINE line == LineOf(ps)
             asked == {ps[i] : i \in 1..3} \ {<<>>}
  <1>1. PICK x, y, z : x = SetAt(line, set) /\ y = GetAt(line, get) /\ z = DelAt(line, del)
    OBVIOUS
  <1>2. PICK X, Y, Z : /\ X = IF Has(line, "-set") THEN <<x>> ELSE <<>>
                       /\ Y = IF Has(line, "-get") THEN <<y>> ELSE <<>>
                       /\ Z = IF Has(line, "-del") THEN <<z>> ELSE <<>>
    OBVIOUS
  <1>3. PICK made : made = X \o Y \o Z
    OBVIOUS
  <1>4. LineCalls(line, set, get, del) = made
    BY <1>1, <1>2, <1>3 DEF LineCalls
  <1>5. x.fname = "kvset" /\ y.fname = "kvget" /\ z.fname = "kvdelete"
    BY <1>1 DEF SetAt, GetAt, DelAt
  <1>6. /\ X # <<>> <=> Has(line, "-set")
        /\ Y # <<>> <=> Has(line, "-get")
        /\ Z # <<>> <=> Has(line, "-del")
        /\ X = <<x>> \/ X = <<>>
        /\ Y = <<y>> \/ Y = <<>>
        /\ Z = <<z>> \/ Z = <<>>
    BY <1>2, OneMessage
  <1>7. /\ \A n \in DOMAIN made : \/ made[n] = x /\ Has(line, "-set")
                                  \/ made[n] = y /\ Has(line, "-get")
                                  \/ made[n] = z /\ Has(line, "-del")
        /\ Has(line, "-set") => \E n \in DOMAIN made : made[n] = x
        /\ Has(line, "-get") => \E n \in DOMAIN made : made[n] = y
        /\ Has(line, "-del") => \E n \in DOMAIN made : made[n] = z
        /\ \A m, n \in DOMAIN made :
             m < n => \/ made[m] = x /\ made[n] \in {y, z}
                      \/ made[m] = y /\ made[n] = z
    BY <1>3, <1>6, CallsInOrder
  <1>8. \A p \in asked : \/ p[1] = "-set" /\ Has(line, "-set") /\ Means(p, x)
                         \/ p[1] = "-get" /\ Has(line, "-get") /\ Means(p, y)
                         \/ p[1] = "-del" /\ Has(line, "-del") /\ Means(p, z)
    <2>1. ASSUME NEW i \in 1..3, ps[i] # <<>>
          PROVE  \/ ps[i][1] = "-set" /\ Has(line, "-set") /\ Means(ps[i], x)
                 \/ ps[i][1] = "-get" /\ Has(line, "-get") /\ Means(ps[i], y)
                 \/ ps[i][1] = "-del" /\ Has(line, "-del") /\ Means(ps[i], z)
      <3>1. ps[i][1] \in Options
        BY <2>1, UserPhrases, PhraseWords
      <3>2. Has(line, ps[i][1])
        BY <2>1, <3>1, OptionPlace
      <3> HIDE DEF line
      <3>3. /\ ps[i][1] = "-set" => Means(ps[i], x)
            /\ ps[i][1] = "-get" => Means(ps[i], y)
            /\ ps[i][1] = "-del" => Means(ps[i], z)
        BY <1>1, <2>1, PhraseMeans DEF line
      <3> QED
        BY <3>1, <3>2, <3>3 DEF Options
    <2> QED
      BY <2>1
  <1>9. ASSUME NEW option \in Options, Has(line, option)
        PROVE  \E p \in asked : p[1] = option
    BY <1>9, OptionPlace
  <1> HIDE DEF line, asked
  <1>10. \A p \in asked : \E n \in DOMAIN made : Means(p, made[n])
    <2>1. ASSUME NEW p \in asked PROVE \E n \in DOMAIN made : Means(p, made[n])
      <3>1. CASE Has(line, "-set") /\ Means(p, x)
        BY <1>7, <3>1
      <3>2. CASE Has(line, "-get") /\ Means(p, y)
        BY <1>7, <3>2
      <3>3. CASE Has(line, "-del") /\ Means(p, z)
        BY <1>7, <3>3
      <3> QED
        BY <1>8, <3>1, <3>2, <3>3
    <2> QED
      BY <2>1
  <1>11. ASSUME NEW n \in DOMAIN made PROVE \E p \in asked : Means(p, made[n])
    <2>1. CASE made[n] = x /\ Has(line, "-set")
      <3>1. PICK p \in asked : p[1] = "-set"
        BY <1>9, <2>1 DEF Options
      <3> QED
        BY <1>8, <2>1, <3>1
    <2>2. CASE made[n] = y /\ Has(line, "-get")
      <3>1. PICK p \in asked : p[1] = "-get"
        BY <1>9, <2>2 DEF Options
      <3> QED
        BY <1>8, <2>2, <3>1
    <2>3. CASE made[n] = z /\ Has(line, "-del")
      <3>1. PICK p \in asked : p[1] = "-del"
        BY <1>9, <2>3 DEF Options
      <3> QED
        BY <1>8, <2>3, <3>1
    <2> QED
      BY <1>7, <2>1, <2>2, <2>3
  <1>12. \A m, n \in DOMAIN made :
           m < n => \/ made[m].fname = "kvset" /\ made[n].fname # "kvset"
                    \/ made[m].fname = "kvget" /\ made[n].fname = "kvdelete"
    BY <1>5, <1>7
  <1>13. Performs(made, ps)
    BY <1>10, <1>11, <1>12 DEF Performs, asked
  <1> QED
    BY <1>4, <1>13 DEF line

\* kvclient finds every option; kvclient_1 and kvclient_2 find one that stands
\* alone.
LEMMA ParsePerforms ==
  ASSUME NEW c, NEW ps \in UserCommands,
         c \in OneShot \/ \E i \in 1..3 : \A j \in 1..3 \ {i} : ps[j] = <<>>
  PROVE  Performs(Parse(c, LineOf(ps)), ps)
  <1> DEFINE line == LineOf(ps)
  <1>1. \A i \in 1..3 : ps[i] # <<>> =>
          /\ Before(ps, i) \in Nat
          /\ ps[i][1] \in Options
          /\ Has(line, ps[i][1]) /\ Position(line, ps[i][1]) = Before(ps, i) + 1
    <2>1. ASSUME NEW i \in 1..3, ps[i] # <<>>
          PROVE  /\ Before(ps, i) \in Nat
                 /\ ps[i][1] \in Options
                 /\ Has(line, ps[i][1]) /\ Position(line, ps[i][1]) = Before(ps, i) + 1
      <3>1. ps[i][1] \in Options
        BY <2>1, UserPhrases, PhraseWords
      <3>2. Has(line, ps[i][1]) /\ Position(line, ps[i][1]) = Before(ps, i) + 1
        BY <2>1, <3>1, OptionPlace
      <3> QED
        BY <3>1, <3>2, BeforeNat
    <2> QED
      BY <2>1
  <1>2. \A option \in Options : Has(line, option) => \E i \in 1..3 : ps[i] # <<>> /\ ps[i][1] = option
    BY OptionPlace
  <1> HIDE DEF line
  <1>3. CASE c \in OneShot
    <2>1. PICK del : del = IF Has(line, "-del") THEN Position(line, "-del") ELSE 0
      OBVIOUS
    <2>2. del # 0 <=> Has(line, "-del")
      <3>1. ASSUME Has(line, "-del") PROVE Position(line, "-del") # 0
        <4>1. PICK i \in 1..3 : ps[i] # <<>> /\ ps[i][1] = "-del"
          BY <1>2, <3>1 DEF Options
        <4>2. Position(line, "-del") = Before(ps, i) + 1 /\ Before(ps, i) \in Nat
          BY <1>1, <4>1
        <4> QED
          BY <4>2
      <3> QED
        BY <2>1, <3>1
    <2>3. \A i \in 1..3 : ps[i] # <<>> =>
            /\ ps[i][1] = "-set" => Position(line, "-set") = Before(ps, i) + 1
            /\ ps[i][1] = "-get" => Position(line, "-get") = Before(ps, i) + 1
            /\ ps[i][1] = "-del" => del = Before(ps, i) + 1
      BY <1>1, <2>1
    <2>4. Performs(LineCalls(line, Position(line, "-set"), Position(line, "-get"), del), ps)
      BY <2>2, <2>3, LinePerforms DEF line
    <2> QED
      BY <1>3, <2>1, <2>4 DEF Parse, kvclient, line
  <1>4. CASE c \notin OneShot
    <2>1. PICK i \in 1..3 : \A j \in 1..3 \ {i} : ps[j] = <<>>
      BY <1>4
    <2>2. \A j \in 1..3 : ps[j] # <<>> => j = i /\ Before(ps, j) = 0
      <3>1. ASSUME NEW j \in 1..3, ps[j] # <<>> PROVE j = i /\ Before(ps, j) = 0
        <4>1. j = i
          BY <2>1, <3>1
        <4>2. \A k \in 1..3 : k # i => Len(ps[k]) = 0
          <5>1. Len(<<>>) = 0
            OBVIOUS
          <5> QED
            BY <2>1, <5>1
        <4>3. CASE i = 1
          BY <4>1, <4>3 DEF Before
        <4>4. CASE i = 2
          <5>1. Len(ps[1]) = 0
            BY <4>2, <4>4
          <5> QED
            BY <4>1, <4>4, <5>1 DEF Before
        <4>5. CASE i = 3
          <5>1. Len(ps[1]) = 0 /\ Len(ps[2]) = 0
            BY <4>2, <4>5
          <5> QED
            BY <4>1, <4>5, <5>1 DEF Before
        <4> QED
          BY <4>1, <4>3, <4>4, <4>5
      <3> QED
        BY <3>1
    <2>3. PICK del : del = IF Word(line, 1) = "-del" THEN 1 ELSE 0
      OBVIOUS
    <2>4. ASSUME ps[i] # <<>> PROVE Word(line, 1) = ps[i][1]
      <3>1. 1 \in 1..Len(ps[i]) /\ Before(ps, i) + 1 = 1
        BY <2>2, <2>4, UserPhrases
      <3>2. 1 \in DOMAIN line /\ line[1] = ps[i][1]
        BY <3>1, LineWords DEF line
      <3> QED
        BY <3>2 DEF Word
    <2>5. Has(line, "-del") <=> Word(line, 1) = "-del"
      <3>1. ASSUME Has(line, "-del") PROVE Word(line, 1) = "-del"
        <4>1. PICK j \in 1..3 : ps[j] # <<>> /\ ps[j][1] = "-del"
          BY <1>2, <3>1 DEF Options
        <4> QED
          BY <2>2, <2>4, <4>1
      <3>2. ASSUME Word(line, 1) = "-del" PROVE Has(line, "-del")
        <4>1. CASE ps[i] # <<>>
          BY <1>1, <2>4, <3>2, <4>1
        <4>2. CASE ps[i] = <<>>
          <5>1. \A m \in DOMAIN line : FALSE
            <6>1. ASSUME NEW m \in DOMAIN line PROVE FALSE
              <7>1. PICK j \in 1..3 : \E n \in 1..Len(ps[j]) : m = Before(ps, j) + n
                BY <6>1, LineWords DEF line
              <7>2. ps[j] = <<>>
                BY <2>1, <4>2
              <7> QED
                BY <7>1, <7>2
            <6> QED
              BY <6>1
          <5>2. Word(line, 1) = Missing
            BY <5>1 DEF Word
          <5> QED
            BY <3>2, <5>2, ClientsAssumption DEF Options
        <4> QED
          BY <4>1, <4>2
      <3> QED
        BY <3>1, <3>2
    <2>6. \A j \in 1..3 : ps[j] # <<>> =>
            /\ ps[j][1] = "-set" => 1 = Before(ps, j) + 1
            /\ ps[j][1] = "-get" => 1 = Before(ps, j) + 1
            /\ ps[j][1] = "-del" => del = Before(ps, j) + 1
      BY <2>2, <2>3, <2>4
    <2>7. del # 0 <=> Has(line, "-del")
      BY <2>3, <2>5
    <2>8. Performs(LineCalls(line, 1, 1, del), ps)
      BY <2>6, <2>7, LinePerforms DEF line
    <2> QED
      BY <1>4, <2>3, <2>8 DEF Parse, kvclient_1, line
  <1> QED
    BY <1>3, <1>4

\* A line is taken whole, and dropped with its last call.
LEMMA LinesTaken ==
  ASSUME ClientsInv, NEW c \in Clients, [Next]_vars, typed'[c] # typed[c]
  PROVE  \/ todo'[c] = Parse(c, typed'[c])
         \/ typed'[c] = <<>> /\ todo'[c] = <<>>
  <1>0. TypeOK
    BY DEF ClientsInv
  <1>1. PICK d \in Clients :
          \/ Program(d)
          \/ ServerThread(d) /\ UNCHANGED progVars
          \/ Break(d) /\ UNCHANGED progVars
    BY DEF Next, vars, progVars
  <1>2. Program(d)
    BY <1>1 DEF progVars
  <1>3. d = c
    BY <1>2, ProgramKeeps DEF Keeps, state
  <1>4. CASE \E line \in Lines : Take(c, line)
    BY <1>0, <1>4, TakeOne
  <1>5. CASE \E code : Exit(c, code)
    BY <1>0, <1>5 DEF Exit, TypeOK
  <1>6. CASE Answered(c)
    <2>1. Tail(todo[c]) = <<>>
      BY <1>6 DEF Answered, AnsweredWriting
    <2> QED
      BY <1>0, <1>6, <2>1 DEF Answered, AnsweredWriting, TypeOK
  <1>7. CASE UNCHANGED typed
    BY <1>7
  <1> QED
    BY <1>2, <1>3, <1>4, <1>5, <1>6, <1>7
       DEF Program, Connect, ConnectFails, ReadLine, ReadNothing, ReadBeyond, Send, Throws, Finish

\* A program makes the calls that its user asked for, and no other: kvclient
\* wherever its options stand, the others for a line of one option.
THEOREM ProgramsCallAsAsked == Spec => CallsAsAsked
  <1>1. ASSUME ClientsInv, [Next]_vars, NEW c \in Clients, typed'[c] # typed[c],
               NEW ps \in UserCommands,
               c \in OneShot \/ (\E i \in 1..3 : \A j \in 1..3 \ {i} : ps[j] = <<>>),
               typed'[c] = LineOf(ps)
        PROVE  Performs(todo'[c], ps)
    <2>1. CASE todo'[c] = Parse(c, typed'[c])
      BY <1>1, <2>1, ParsePerforms
    <2>2. CASE typed'[c] = <<>> /\ todo'[c] = <<>>
      <3>1. ASSUME NEW i \in 1..3, ps[i] # <<>> PROVE FALSE
        <4>1. 1 \in 1..Len(ps[i])
          BY <3>1, UserPhrases
        <4>2. Before(ps, i) + 1 \in DOMAIN LineOf(ps)
          BY <4>1, LineWords
        <4> QED
          BY <1>1, <2>2, <4>2
      <3>2. {ps[i] : i \in 1..3} \ {<<>>} = {}
        BY <3>1
      <3> QED
        BY <2>2, <3>2 DEF Performs
    <2> QED
      BY <1>1, <2>1, <2>2, LinesTaken
  <1>2. ClientsInv /\ [Next]_vars =>
          [\A c \in Clients : typed'[c] # typed[c] =>
             \A ps \in UserCommands :
               c \in OneShot \/ (\E i \in 1..3 : \A j \in 1..3 \ {i} : ps[j] = <<>>)
                 => FindAndPerform(c, ps)]_vars
    BY <1>1 DEF FindAndPerform
  <1> QED
    BY <1>2, ClientsInvariant, PTL DEF Spec, CallsAsAsked
-----------------------------------------------------------------------------
\* The stream keeps answers and calls together although the sequence id ties
\* nothing: for any number of clients, connections that break included.
THEOREM StreamsInSync == Spec => []InSync
  <1>1. ASSUME ClientsInv, NEW c \in Clients, prog[c] = "waiting"
        PROVE  /\ Len(calls[c]) + Len(AnswersOf(c)) <= 1
               /\ AnswersOf(c) # <<>> => Expected(Head(AnswersOf(c)), Head(todo[c]).fname)
    <2>1. PICK r : OnTheWay(c, r) /\ r = Head(todo[c])
      BY <1>1 DEF ClientsInv, ClientOK, StreamOK
    <2>2. CASE Nowhere(c) \/ Called(c, r)
      <3>1. AnswersOf(c) = <<>>
        BY <2>2, OneMessage DEF Nowhere, Called, AnswersOf
      <3>2. Len(AnswersOf(c)) = 0
        BY <3>1, OneMessage
      <3>3. Len(calls[c]) + Len(AnswersOf(c)) <= 1
        <4>1. CASE calls[c] = <<>>
          <5>1. Len(calls[c]) = 0
            BY <4>1, OneMessage
          <5> QED
            BY <3>2, <5>1
        <4>2. CASE \E m : calls[c] = <<m>>
          <5>1. Len(calls[c]) = 1
            BY <4>2, OneMessage
          <5> QED
            BY <3>2, <5>1
        <4> QED
          BY <2>2, <4>1, <4>2 DEF Nowhere, Called
      <3> QED
        BY <3>1, <3>3
    <2>3. CASE Executed(c, r) \/ Back(c, r)
      <3>1. AnswersOf(c) = <<AnswerTo(c, r)>>
        <4>1. CASE Executed(c, r)
          BY <4>1, OneMessage DEF Executed, AnswersOf
        <4>2. CASE Back(c, r)
          BY <4>2, OneMessage DEF Back, AnswersOf
        <4> QED
          BY <2>3, <4>1, <4>2
      <3>2. Len(calls[c]) = 0 /\ Len(AnswersOf(c)) = 1
        BY <2>3, <3>1, OneMessage DEF Executed, Back
      <3>3. Expected(Head(AnswersOf(c)), r.fname)
        BY <3>1, OneMessage DEF Expected, AnswerTo, ReplyMessage
      <3> QED
        BY <2>1, <3>2, <3>3
    <2> QED
      BY <2>1, <2>2, <2>3 DEF OnTheWay
  <1>2. ASSUME ClientsInv, NEW c \in Clients, prog[c] = "ready"
        PROVE  calls[c] = <<>> /\ AnswersOf(c) = <<>>
    BY <1>2, OneMessage DEF ClientsInv, ClientOK, StreamOK, Nowhere, AnswersOf
  <1>3. ClientsInv => InSync
    BY <1>1, <1>2 DEF InSync
  <1> QED
    BY <1>3, ClientsInvariant, PTL
=============================================================================
