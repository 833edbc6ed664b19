------------------------------- MODULE KVRpc --------------------------------
(***************************************************************************)
(* A call from a client to the server and back over one connection, as the *)
(* generated code of gen-cpp does it.  The client writes a T_CALL with a    *)
(* sequence id and the structure of the arguments, field by field; in the  *)
(* server the thread of the connection reads it, KVStoreProcessor runs the *)
(* handler and writes an answer with the same id; the client reads the     *)
(* fields of the answer into the Result it was given, which may still hold *)
(* what an earlier call left there.  Handlers are atomic here (KVServer    *)
(* has their interleaving, and their races), but for the mutex lck, which  *)
(* stays locked when a kvset throws: whoever needs it then blocks.         *)
(***************************************************************************)
EXTENDS KVStoreTypes, Sequences, Naturals

CONSTANTS Clients,    \* the client processes, each with one connection
          SeqIds,     \* the sequence ids they use
          MayFail,    \* whether an allocation may fail in a handler
          LockedOps   \* the handlers that hold lck: see KVServer

VARIABLES content,  \* the server's map: see KVStore
          conn,     \* conn[c]: the connection of c
          calls,    \* calls[c]: the messages on the way to the server
          replies,  \* replies[c]: the messages on the way to the client
          srv,      \* srv[c]: the server's thread for c
          out,      \* out[c]: the message that thread is about to write
          lckStuck, \* whether a kvset has left lck locked for ever
          served    \* history: served[c][id] is the answer the handler made
                    \* since c last sent a call with that id, or NoReply

rpcVars == <<content, conn, calls, replies, srv, out, lckStuck, served>>
-----------------------------------------------------------------------------
(***************************************************************************)
(* The wire: a structure is a record of the fields that were written.  In  *)
(* which order does not matter, since read() takes them in any.            *)
(***************************************************************************)
\* read() stores the fields it knows into the members of x, skips the others,
\* and leaves the members that did not come as they were.
ReadStruct(x, fields) == [n \in DOMAIN x |-> IF n \in DOMAIN fields THEN fields[n] ELSE x[n]]

kvset_pargs(r) == [key |-> r.key, value |-> r.value]

kvget_pargs(r) == [key |-> r.key]

kvdelete_pargs(r) == [key |-> r.key]

kvset_args(fields) ==
  LET x == ReadStruct([key |-> Empty, value |-> Empty], fields) IN
  [fname |-> "kvset", key |-> x.key, value |-> x.value]

kvget_args(fields) ==
  [fname |-> "kvget", key |-> ReadStruct([key |-> Empty], fields).key, value |-> Empty]

kvdelete_args(fields) ==
  [fname |-> "kvdelete", key |-> ReadStruct([key |-> Empty], fields).key, value |-> Empty]

\* A slip the properties are there to catch: members that have their default
\* value are not written.
WriteResultSparse(res) ==
  [n \in {f \in {"value", "error"} : res[f] # DefaultResult[f]} |-> res[n]]

\* Result::write writes every member.
WriteResult(res) == [value |-> res.value, error |-> res.error]

\* write() of the result of a call: success is set unless the handler threw.
result(a) == IF a.mtype = "T_REPLY" THEN [success |-> WriteResult(a.result)] ELSE <<>>

\* read() of the presult of a call: success is read into _return.
presult(fields, _return) ==
  IF "success" \in DOMAIN fields THEN ReadStruct(_return, fields.success) ELSE _return

CallMessage(r, id) ==
  [fname |-> r.fname, seqid |-> id,
   fields |-> CASE r.fname = "kvset"    -> kvset_pargs(r)
                [] r.fname = "kvget"    -> kvget_pargs(r)
                [] r.fname = "kvdelete" -> kvdelete_pargs(r)]

Args(m) ==
  CASE m.fname = "kvset"    -> kvset_args(m.fields)
    [] m.fname = "kvget"    -> kvget_args(m.fields)
    [] m.fname = "kvdelete" -> kvdelete_args(m.fields)

ReplyMessage(f, id, a) ==
  [fname |-> f, mtype |-> a.mtype, seqid |-> id, fields |-> result(a)]

Calls == {CallMessage(r, id) : r \in Requests, id \in SeqIds}

Messages == {ReplyMessage(f, id, a) : f \in AllOps, id \in SeqIds, a \in Replies}

NoMessage == ReplyMessage("none", 0, Exception)

RpcTypeOK ==
  /\ content \in [Keys -> Strings]
  /\ conn \in [Clients -> {"none", "open", "broken", "closed"}]
  /\ calls \in [Clients -> Seq(Calls)]
  /\ replies \in [Clients -> Seq(Messages)]
  /\ srv \in [Clients -> {"none", "reading", "writing", "blocked", "ended"}]
  /\ out \in [Clients -> Messages \cup {NoMessage}]
  /\ lckStuck \in BOOLEAN
  /\ served \in [Clients -> [SeqIds -> Replies \cup {NoReply}]]

RpcInit ==
  /\ content = [k \in Keys |-> Empty]
  /\ conn = [c \in Clients |-> "none"]
  /\ calls = [c \in Clients |-> <<>>]
  /\ replies = [c \in Clients |-> <<>>]
  /\ srv = [c \in Clients |-> "none"]
  /\ out = [c \in Clients |-> NoMessage]
  /\ lckStuck = FALSE
  /\ served = [c \in Clients |-> [id \in SeqIds |-> NoReply]]
-----------------------------------------------------------------------------
(***************************************************************************)
(* The client's side.                                                      *)
(***************************************************************************)
\* transport->open(); the server accepts and starts a thread.
Open(c) ==
  /\ conn[c] = "none"
  /\ conn' = [conn EXCEPT ![c] = "open"]
  /\ srv' = [srv EXCEPT ![c] = "reading"]
  /\ UNCHANGED <<content, calls, replies, out, lckStuck, served>>

\* send_kvset, send_kvget, send_kvdelete.  What is written to a connection
\* that has just broken is lost.
SendCall(c, r, id) ==
  /\ conn[c] \in {"open", "broken"}
  /\ calls' = [calls EXCEPT ![c] = IF conn[c] = "open" THEN Append(@, CallMessage(r, id)) ELSE @]
  /\ served' = [served EXCEPT ![c][id] = NoReply]
  /\ UNCHANGED <<content, conn, replies, srv, out, lckStuck>>

\* recv_kvset, recv_kvget, recv_kvdelete: the next message of the stream.
NextReply(c) == Head(replies[c])

\* The message answers a call of f, and is not one that recv_ skips over.
Expected(m, f) == m.fname = f

\* The call returns.  It throws when the message is a T_EXCEPTION, or has no
\* success in it.
Returns(m) == m.mtype = "T_REPLY" /\ "success" \in DOMAIN m.fields

\* The message is read to its end.
RecvReply(c) ==
  /\ replies[c] # <<>>
  /\ replies' = [replies EXCEPT ![c] = Tail(@)]
  /\ UNCHANGED <<content, conn, calls, srv, out, lckStuck, served>>

\* Nothing more can be read from a broken connection.
EndOfStream(c) == conn[c] = "broken" /\ replies[c] = <<>>

\* The client process ends or closes its transport.
CloseConn(c) ==
  /\ conn' = [conn EXCEPT ![c] = "closed"]
  /\ replies' = [replies EXCEPT ![c] = <<>>]
  /\ UNCHANGED <<content, calls, srv, out, lckStuck, served>>
-----------------------------------------------------------------------------
(***************************************************************************)
(* The server's side: the thread of the connection and KVStoreProcessor.   *)
(***************************************************************************)
\* What process_kvset, process_kvget and process_kvdelete may answer.
Outcomes(r) ==
  {Reply(Answer(r, content))} \cup (IF MayFail THEN FailureAnswers(r) ELSE {})

\* The handler of f waits at lck.lock(), and nobody will unlock it.
Waits(f) == lckStuck /\ f \in LockedOps

\* The thread reads a call, runs its handler and makes the answer; the stream
\* is left with taken.  A kvset that throws skips its lck.unlock().
ProcessTaking(c, taken) ==
  LET m == Head(calls[c])
      r == Args(m) IN
  /\ srv[c] = "reading"
  /\ calls[c] # <<>> /\ ~Waits(r.fname)
  /\ calls' = [calls EXCEPT ![c] = taken]
  /\ \E a \in Outcomes(r) :
       /\ content' = IF a = Reply(Answer(r, content)) THEN Effect(r, content) ELSE content
       /\ out' = [out EXCEPT ![c] = ReplyMessage(m.fname, m.seqid, a)]
       /\ lckStuck' = (lckStuck \/ (a = Exception /\ r.fname \in LockedOps))
       /\ served' = [served EXCEPT ![c][m.seqid] = a]
  /\ srv' = [srv EXCEPT ![c] = "writing"]
  /\ UNCHANGED <<conn, replies>>

\* The thread reads a call and never comes back from its handler.
Block(c) ==
  /\ srv[c] = "reading"
  /\ calls[c] # <<>> /\ Waits(Args(Head(calls[c])).fname)
  /\ calls' = [calls EXCEPT ![c] = Tail(@)]
  /\ srv' = [srv EXCEPT ![c] = "blocked"]
  /\ UNCHANGED <<content, conn, replies, out, lckStuck, served>>

Blocked(c) == srv[c] = "blocked"

\* It writes the messages sent.  When the client is gone the write throws, and
\* the thread ends, or what it wrote is lost.
WriteReplySending(c, sent) ==
  /\ srv[c] = "writing"
  /\ out' = [out EXCEPT ![c] = NoMessage]
  /\ IF conn[c] = "open"
       THEN /\ replies' = [replies EXCEPT ![c] = @ \o sent]
            /\ srv' = [srv EXCEPT ![c] = "reading"]
       ELSE /\ \E s \in {"reading", "ended"} : srv' = [srv EXCEPT ![c] = s]
            /\ UNCHANGED replies
  /\ UNCHANGED <<content, conn, calls, lckStuck, served>>

\* Nothing is left to read on a connection in one of the states: it ends.
DisconnectedFrom(c, states) ==
  /\ srv[c] = "reading"
  /\ calls[c] = <<>>
  /\ conn[c] \in states
  /\ srv' = [srv EXCEPT ![c] = "ended"]
  /\ UNCHANGED <<content, conn, calls, replies, out, lckStuck, served>>

\* Slips the properties are there to catch: the call is not taken off the
\* stream; the answer is not sent, or sent from a buffer that was cleared; a
\* connection that broke is not noticed.
ProcessAgain(c) == ProcessTaking(c, calls[c])

WriteNothing(c) == WriteReplySending(c, <<>>)

WriteCleared(c) == WriteReplySending(c, <<NoMessage>>)

DisconnectedClosed(c) == DisconnectedFrom(c, {"closed"})

Process(c) == ProcessTaking(c, Tail(calls[c]))

WriteReply(c) == WriteReplySending(c, <<out[c]>>)

Disconnected(c) == DisconnectedFrom(c, {"broken", "closed"})

\* The connection breaks: what was on its way is lost, unless it has already
\* reached the buffers of the other side.
Break(c) ==
  /\ conn[c] = "open"
  /\ conn' = [conn EXCEPT ![c] = "broken"]
  /\ calls' \in {calls, [calls EXCEPT ![c] = <<>>]}
  /\ replies' \in {replies, [replies EXCEPT ![c] = <<>>]}
  /\ UNCHANGED <<content, srv, out, lckStuck, served>>

ServerThread(c) == Process(c) \/ Block(c) \/ WriteReply(c) \/ Disconnected(c)
=============================================================================
