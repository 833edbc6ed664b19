----------------------------- MODULE KVRpcProofs -----------------------------
(***************************************************************************)
(* Lemmas about the calls of KVRpc, for any number of clients and any keys *)
(* and values: what the wire keeps of a structure, the types, and the      *)
(* streams as sequences of messages.                                       *)
(***************************************************************************)
EXTENDS KVRpc, Functions, TLAPS

\* A structure whose members all have a value.
LEMMA ReadWhole ==
  ASSUME NEW res \in Result, NEW x \in Result
  PROVE  ReadStruct(x, WriteResult(res)) = res
  BY DEF ReadStruct, WriteResult, Result

\* The caller's Result holds what the handler answered, whatever was in it.
LEMMA AnswerArrives ==
  ASSUME NEW a \in Replies, NEW x \in Result
  PROVE  /\ "success" \in DOMAIN result(a) <=> a.mtype = "T_REPLY"
         /\ a.mtype = "T_REPLY" => presult(result(a), x) = a.result
         /\ presult(result(a), x) \in Result
  <1>1. CASE a.mtype = "T_REPLY"
    BY <1>1, ReadWhole DEF result, presult, Replies
  <1>2. CASE a.mtype # "T_REPLY"
    BY <1>2 DEF result, presult, Replies
  <1> QED
    BY <1>1, <1>2

\* The handler gets the arguments of the call.
LEMMA CallArrives ==
  ASSUME NEW r \in Requests, NEW id
  PROVE  Args(CallMessage(r, id)) = r
  <1>1. CASE r.fname = "kvset"
    BY <1>1 DEF Requests, Args, CallMessage, kvset_args, kvset_pargs, ReadStruct
  <1>2. CASE r.fname = "kvget"
    BY <1>2 DEF Requests, Args, CallMessage, kvget_args, kvget_pargs, ReadStruct
  <1>3. CASE r.fname = "kvdelete"
    BY <1>3 DEF Requests, Args, CallMessage, kvdelete_args, kvdelete_pargs, ReadStruct
  <1> QED
    BY <1>1, <1>2, <1>3 DEF Requests
-----------------------------------------------------------------------------
(***************************************************************************)
(* The messages of a stream.                                               *)
(***************************************************************************)
\* No two messages of the stream have the same id.
Distinct(s) == \A m, n \in DOMAIN s : s[m].seqid = s[n].seqid => m = n

LEMMA EmptyStream == Range(<<>>) = {} /\ Distinct(<<>>)
  BY DEF Range, Distinct

LEMMA AppendRange ==
  ASSUME NEW S, NEW s \in Seq(S), NEW m \in S
  PROVE  Range(Append(s, m)) = Range(s) \cup {m}
  <1>1. ASSUME NEW i \in DOMAIN s PROVE i \in DOMAIN Append(s, m) /\ Append(s, m)[i] = s[i]
    OBVIOUS
  <1>2. Len(s) + 1 \in DOMAIN Append(s, m) /\ Append(s, m)[Len(s) + 1] = m
    OBVIOUS
  <1>3. ASSUME NEW i \in DOMAIN Append(s, m) PROVE i \in DOMAIN s \/ i = Len(s) + 1
    OBVIOUS
  <1> QED
    BY <1>1, <1>2, <1>3 DEF Range

LEMMA AppendMessage ==
  ASSUME NEW S, NEW s \in Seq(S), NEW m \in S
  PROVE  /\ Append(s, m) = s \o <<m>>
         /\ Append(s, m) \in Seq(S)
         /\ Append(s, m) # <<>>
         /\ Head(Append(s, m)) = IF s = <<>> THEN m ELSE Head(s)
         /\ Distinct(s) /\ (\A n \in Range(s) : n.seqid # m.seqid) => Distinct(Append(s, m))
  <1>1. Append(s, m) = s \o <<m>>
    OBVIOUS
  <1>2. Distinct(s) /\ (\A n \in Range(s) : n.seqid # m.seqid) => Distinct(Append(s, m))
    BY DEF Range, Distinct
  <1>3. Head(Append(s, m)) = IF s = <<>> THEN m ELSE Head(s)
    OBVIOUS
  <1> QED
    BY <1>1, <1>2, <1>3

LEMMA TakeMessage ==
  ASSUME NEW S, NEW s \in Seq(S), s # <<>>
  PROVE  /\ Head(s) \in S
         /\ Tail(s) \in Seq(S)
         /\ Range(s) = Range(Tail(s)) \cup {Head(s)}
         /\ Distinct(s) => Distinct(Tail(s)) /\ \A n \in Range(Tail(s)) : n.seqid # Head(s).seqid
  <1>1. Head(s) \in S /\ Tail(s) \in Seq(S)
    OBVIOUS
  <1>2. Range(s) = Range(Tail(s)) \cup {Head(s)}
    <2>1. ASSUME NEW i \in DOMAIN s PROVE s[i] = Head(s) \/ s[i] \in Range(Tail(s))
      <3>1. CASE i = 1
        BY <3>1
      <3>2. CASE i # 1
        <4>1. i - 1 \in DOMAIN Tail(s) /\ Tail(s)[i - 1] = s[i]
          BY <3>2
        <4> QED
          BY <4>1 DEF Range
      <3> QED
        BY <3>1, <3>2
    <2>2. ASSUME NEW i \in DOMAIN Tail(s) PROVE i + 1 \in DOMAIN s /\ Tail(s)[i] = s[i + 1]
      OBVIOUS
    <2>3. 1 \in DOMAIN s /\ Head(s) = s[1]
      OBVIOUS
    <2> QED
      BY <2>1, <2>2, <2>3 DEF Range
  <1>3. ASSUME Distinct(s) PROVE Distinct(Tail(s)) /\ \A n \in Range(Tail(s)) : n.seqid # Head(s).seqid
    BY <1>3 DEF Range, Distinct
  <1> QED
    BY <1>1, <1>2, <1>3
-----------------------------------------------------------------------------
(***************************************************************************)
(* The types.                                                              *)
(***************************************************************************)
LEMMA AnswersTyped ==
  ASSUME NEW r \in Requests, NEW m \in [Keys -> Strings]
  PROVE  /\ Reply(Answer(r, m)) \in Replies
         /\ FailureAnswers(r) \subseteq Replies
         /\ Effect(r, m) \in [Keys -> Strings]
         /\ NoReply \notin Replies
  <1> USE DEF Reply, Exception, Replies, Result, DefaultResult, ErrorCode, Strings
  <1>1. Reply(Answer(r, m)) \in Replies
    BY DEF Requests, Answer, Lookup, Succeeded
  <1>2. FailureAnswers(r) \subseteq Replies
    BY DEF Requests, FailureAnswers, Lookup, NotStored
  <1>3. Effect(r, m) \in [Keys -> Strings]
    BY DEF Requests, Effect
  <1>4. NoReply \notin Replies
    BY DEF NoReply
  <1> QED
    BY <1>1, <1>2, <1>3, <1>4

LEMMA MessagesTyped ==
  /\ \A r \in Requests, id \in SeqIds : CallMessage(r, id) \in Calls
  /\ \A f \in AllOps, id \in SeqIds, a \in Replies : ReplyMessage(f, id, a) \in Messages
  BY DEF Calls, Messages

LEMMA CallTyped ==
  ASSUME NEW m \in Calls
  PROVE  /\ m.fname \in AllOps /\ m.seqid \in SeqIds
         /\ Args(m) \in Requests
         /\ m = CallMessage(Args(m), m.seqid)
         /\ Args(m).fname = m.fname
  <1>1. PICK r \in Requests, id \in SeqIds : m = CallMessage(r, id)
    BY DEF Calls
  <1>2. Args(m) = r
    BY <1>1, CallArrives
  <1>3. m.fname = r.fname /\ m.seqid = id
    BY <1>1 DEF CallMessage
  <1>4. r.fname \in AllOps
    BY DEF Requests, AllOps
  <1> QED
    BY <1>1, <1>2, <1>3, <1>4

LEMMA ReplyTyped ==
  ASSUME NEW m \in Messages
  PROVE  /\ m.fname \in AllOps /\ m.seqid \in SeqIds
         /\ m.mtype \in {"T_REPLY", "T_EXCEPTION"}
         /\ \A x \in Result : presult(m.fields, x) \in Result
  <1>1. PICK f \in AllOps, id \in SeqIds, a \in Replies : m = ReplyMessage(f, id, a)
    BY DEF Messages
  <1>2. m.fname = f /\ m.seqid = id /\ m.mtype = a.mtype /\ m.fields = result(a)
    BY <1>1 DEF ReplyMessage
  <1> QED
    BY <1>2, AnswerArrives DEF Replies

LEMMA RpcInitTyped == ASSUME RpcInit PROVE RpcTypeOK
  <1>1. lckStuck \in BOOLEAN
    BY DEF RpcInit
  <1>2. /\ content \in [Keys -> Strings]
        /\ conn \in [Clients -> {"none", "open", "broken", "closed"}]
        /\ srv \in [Clients -> {"none", "reading", "writing", "blocked", "ended"}]
        /\ out \in [Clients -> Messages \cup {NoMessage}]
        /\ served \in [Clients -> [SeqIds -> Replies \cup {NoReply}]]
    BY DEF RpcInit, Strings
  <1>3. calls \in [Clients -> Seq(Calls)] /\ replies \in [Clients -> Seq(Messages)]
    BY DEF RpcInit
  <1> QED
    BY <1>1, <1>2, <1>3 DEF RpcTypeOK

LEMMA ProcessTyped ==
  ASSUME RpcTypeOK, NEW c \in Clients, Process(c)
  PROVE  RpcTypeOK' /\ out'[c] \in Messages
  <1> DEFINE m == Head(calls[c])
             r == Args(m)
  <1>1. m \in Calls /\ Tail(calls[c]) \in Seq(Calls)
    BY TakeMessage DEF RpcTypeOK, Process, ProcessTaking
  <1>2. m.fname \in AllOps /\ m.seqid \in SeqIds /\ r \in Requests
    BY <1>1, CallTyped
  <1>3. PICK a \in Outcomes(r) :
          /\ content' = IF a = Reply(Answer(r, content)) THEN Effect(r, content) ELSE content
          /\ out' = [out EXCEPT ![c] = ReplyMessage(m.fname, m.seqid, a)]
          /\ served' = [served EXCEPT ![c][m.seqid] = a]
    BY DEF Process, ProcessTaking
  <1>4. /\ calls' = [calls EXCEPT ![c] = Tail(calls[c])]
        /\ srv' = [srv EXCEPT ![c] = "writing"]
        /\ UNCHANGED <<conn, replies>>
    BY DEF Process, ProcessTaking
  <1>9. lckStuck' \in BOOLEAN
    BY DEF Process, ProcessTaking
  <1> HIDE DEF m, r
  <1>5. a \in Replies
    BY <1>2, AnswersTyped DEF RpcTypeOK, Outcomes
  <1>6. content' \in [Keys -> Strings]
    BY <1>2, <1>3, AnswersTyped DEF RpcTypeOK
  <1>7. out' \in [Clients -> Messages \cup {NoMessage}] /\ out'[c] \in Messages
    BY <1>2, <1>3, <1>5, MessagesTyped DEF RpcTypeOK
  <1>8. served' \in [Clients -> [SeqIds -> Replies \cup {NoReply}]]
    BY <1>2, <1>3, <1>5 DEF RpcTypeOK
  <1> QED
    BY <1>1, <1>4, <1>6, <1>7, <1>8, <1>9 DEF RpcTypeOK

LEMMA WriteReplyTyped ==
  ASSUME RpcTypeOK, NEW c \in Clients, WriteReply(c), out[c] \in Messages
  PROVE  RpcTypeOK'
  <1>1. replies[c] \o <<out[c]>> \in Seq(Messages)
    BY DEF RpcTypeOK
  <1> QED
    BY <1>1, ZenonT(30) DEF RpcTypeOK, WriteReply, WriteReplySending

LEMMA SendTyped ==
  ASSUME RpcTypeOK, NEW c \in Clients, NEW r \in Requests, NEW id \in SeqIds, SendCall(c, r, id)
  PROVE  RpcTypeOK'
  <1>1. CallMessage(r, id) \in Calls
    BY MessagesTyped
  <1>2. calls' \in [Clients -> Seq(Calls)]
    BY <1>1 DEF RpcTypeOK, SendCall
  <1>3. served' \in [Clients -> [SeqIds -> Replies \cup {NoReply}]]
    BY DEF RpcTypeOK, SendCall
  <1> QED
    BY <1>2, <1>3 DEF RpcTypeOK, SendCall

LEMMA RecvTyped ==
  ASSUME RpcTypeOK, NEW c \in Clients, RecvReply(c)
  PROVE  RpcTypeOK' /\ NextReply(c) \in Messages
  <1>1. Tail(replies[c]) \in Seq(Messages) /\ Head(replies[c]) \in Messages
    BY TakeMessage DEF RpcTypeOK, RecvReply
  <1> QED
    BY <1>1 DEF RpcTypeOK, RecvReply, NextReply

LEMMA ConnectionTyped ==
  ASSUME RpcTypeOK, NEW c \in Clients,
         Open(c) \/ CloseConn(c) \/ Block(c) \/ Disconnected(c) \/ Break(c) \/ UNCHANGED rpcVars
  PROVE  RpcTypeOK'
  <1>1. CASE Open(c)
    BY <1>1 DEF RpcTypeOK, Open
  <1>2. CASE CloseConn(c)
    BY <1>2 DEF RpcTypeOK, CloseConn
  <1>3. CASE Disconnected(c)
    BY <1>3 DEF RpcTypeOK, Disconnected, DisconnectedFrom
  <1>4. CASE Break(c)
    <2>1. calls' \in [Clients -> Seq(Calls)]
      <3>1. CASE calls' = calls
        BY <3>1 DEF RpcTypeOK
      <3>2. CASE calls' = [calls EXCEPT ![c] = <<>>]
        BY <3>2 DEF RpcTypeOK
      <3> QED
        BY <1>4, <3>1, <3>2 DEF Break
    <2>2. replies' \in [Clients -> Seq(Messages)]
      <3>1. CASE replies' = replies
        BY <3>1 DEF RpcTypeOK
      <3>2. CASE replies' = [replies EXCEPT ![c] = <<>>]
        BY <3>2 DEF RpcTypeOK
      <3> QED
        BY <1>4, <3>1, <3>2 DEF Break
    <2> QED
      BY <1>4, <2>1, <2>2 DEF RpcTypeOK, Break
  <1>5. CASE UNCHANGED rpcVars
    BY <1>5 DEF RpcTypeOK, rpcVars
  <1>6. CASE Block(c)
    <2>1. Tail(calls[c]) \in Seq(Calls)
      BY <1>6, TakeMessage DEF RpcTypeOK, Block
    <2> QED
      BY <1>6, <2>1 DEF RpcTypeOK, Block
  <1> QED
    BY <1>1, <1>2, <1>3, <1>4, <1>5, <1>6
-----------------------------------------------------------------------------
(***************************************************************************)
(* Where the messages of a connection are: among the calls, about to be    *)
(* written by the server's thread, or among the replies.                   *)
(***************************************************************************)
InCalls(c) == Range(calls[c])

InOut(c) == IF srv[c] = "writing" THEN {out[c]} ELSE {}

InReplies(c) == Range(replies[c])

InFlight(c) == InCalls(c) \cup InOut(c) \cup InReplies(c)

\* No id is in two places.
OnePlace(c) ==
  /\ Distinct(calls[c]) /\ Distinct(replies[c])
  /\ \A m \in InCalls(c) : \A n \in InOut(c) \cup InReplies(c) : m.seqid # n.seqid
  /\ \A m \in InOut(c) : \A n \in InReplies(c) : m.seqid # n.seqid

\* The next message is the one with the id, or it was lost.
NextIs(c, id) ==
  IF replies[c] = <<>> THEN conn[c] = "broken" ELSE NextReply(c).seqid = id

\* What the steps of the server and of the connection leave of the messages.
KeepsPlaces(c) ==
  /\ OnePlace(c)'
  /\ \A m \in InFlight(c)' : \E n \in InFlight(c) : m.seqid = n.seqid
  /\ \A id : NextIs(c, id) => NextIs(c, id)'

LEMMA ProcessPlaces ==
  ASSUME RpcTypeOK, NEW c \in Clients, OnePlace(c), Process(c)
  PROVE  KeepsPlaces(c)
  <1> DEFINE m == Head(calls[c])
  <1>1. PICK a : out' = [out EXCEPT ![c] = ReplyMessage(m.fname, m.seqid, a)]
    BY DEF Process, ProcessTaking
  <1>2. out'[c].seqid = m.seqid
    BY <1>1 DEF RpcTypeOK, ReplyMessage
  <1>3. /\ srv[c] = "reading" /\ srv'[c] = "writing"
        /\ calls[c] # <<>> /\ calls'[c] = Tail(calls[c])
        /\ UNCHANGED <<conn, replies>>
    BY DEF RpcTypeOK, Process, ProcessTaking
  <1>4. /\ InCalls(c) = InCalls(c)' \cup {m}
        /\ Distinct(calls[c])' /\ \A n \in InCalls(c)' : n.seqid # m.seqid
    BY <1>3, TakeMessage DEF RpcTypeOK, OnePlace, InCalls
  <1>5. InOut(c) = {} /\ InOut(c)' = {out'[c]} /\ InReplies(c)' = InReplies(c)
    BY <1>3 DEF InOut, InReplies
  <1> HIDE DEF m
  <1>6. OnePlace(c)'
    BY <1>2, <1>3, <1>4, <1>5 DEF OnePlace
  <1>7. \A n \in InFlight(c)' : \E n0 \in InFlight(c) : n.seqid = n0.seqid
    BY <1>2, <1>4, <1>5 DEF InFlight
  <1>8. \A id : NextIs(c, id) => NextIs(c, id)'
    BY <1>3 DEF NextIs, NextReply
  <1> QED
    BY <1>6, <1>7, <1>8 DEF KeepsPlaces

\* A call that is never answered leaves the stream.
LEMMA BlockPlaces ==
  ASSUME RpcTypeOK, NEW c \in Clients, OnePlace(c), Block(c)
  PROVE  KeepsPlaces(c) /\ InFlight(c)' \subseteq InFlight(c)
  <1>1. /\ srv[c] = "reading" /\ srv'[c] = "blocked"
        /\ calls[c] # <<>> /\ calls'[c] = Tail(calls[c])
        /\ UNCHANGED <<conn, replies, out>>
    BY DEF RpcTypeOK, Block
  <1>2. InCalls(c)' \subseteq InCalls(c) /\ Distinct(calls[c])'
    BY <1>1, TakeMessage DEF RpcTypeOK, OnePlace, InCalls
  <1>3. InOut(c) = {} /\ InOut(c)' = {} /\ InReplies(c)' = InReplies(c)
    BY <1>1 DEF InOut, InReplies
  <1>4. Distinct(replies[c])'
    BY <1>1 DEF OnePlace
  <1>5. OnePlace(c)'
    BY <1>2, <1>3, <1>4 DEF OnePlace
  <1>6. InFlight(c)' \subseteq InFlight(c)
    BY <1>2, <1>3 DEF InFlight
  <1>7. \A id : NextIs(c, id) => NextIs(c, id)'
    BY <1>1 DEF NextIs, NextReply
  <1> QED
    BY <1>5, <1>6, <1>7 DEF KeepsPlaces

LEMMA WriteReplyPlaces ==
  ASSUME RpcTypeOK, NEW c \in Clients, OnePlace(c), WriteReply(c), out[c] \in Messages
  PROVE  KeepsPlaces(c)
  <1>1. /\ srv[c] = "writing" /\ srv'[c] # "writing"
        /\ \/ replies'[c] = Append(replies[c], out[c]) /\ conn[c] = "open"
           \/ replies'[c] = replies[c]
        /\ UNCHANGED <<conn, calls>>
    BY AppendMessage DEF RpcTypeOK, WriteReply, WriteReplySending
  <1>2. InOut(c) = {out[c]} /\ InOut(c)' = {} /\ InCalls(c)' = InCalls(c)
    BY <1>1 DEF InOut, InCalls
  <1>3. CASE replies'[c] = Append(replies[c], out[c]) /\ conn[c] = "open"
    <2> DEFINE more == Append(replies[c], out[c])
    <2>0. /\ Range(more) = Range(replies[c]) \cup {out[c]}
          /\ more # <<>>
          /\ Head(more) = IF replies[c] = <<>> THEN out[c] ELSE Head(replies[c])
          /\ Distinct(replies[c]) /\ (\A n \in Range(replies[c]) : n.seqid # out[c].seqid) => Distinct(more)
      <3>1. replies[c] \in Seq(Messages)
        BY DEF RpcTypeOK
      <3>2. Range(more) = Range(replies[c]) \cup {out[c]}
        BY <3>1, AppendRange
      <3>3. /\ more # <<>>
            /\ Head(more) = IF replies[c] = <<>> THEN out[c] ELSE Head(replies[c])
        BY <3>1, AppendMessage
      <3>4. Distinct(replies[c]) /\ (\A n \in Range(replies[c]) : n.seqid # out[c].seqid) => Distinct(more)
        BY <3>1, AppendMessage
      <3> QED
        BY <3>2, <3>3, <3>4
    <2> HIDE DEF more
    <2>1. /\ InReplies(c)' = InReplies(c) \cup {out[c]}
          /\ replies'[c] # <<>>
          /\ NextReply(c)' = IF replies[c] = <<>> THEN out[c] ELSE NextReply(c)
      BY <1>3, <2>0 DEF more, InReplies, NextReply
    <2>2. Distinct(replies[c])'
      BY <1>2, <1>3, <2>0 DEF more, OnePlace, InReplies
    <2>3. OnePlace(c)'
      BY <1>1, <1>2, <2>1, <2>2 DEF OnePlace
    <2>4. InFlight(c)' = InFlight(c)
      BY <1>2, <2>1 DEF InFlight
    <2>5. \A id : NextIs(c, id) => NextIs(c, id)'
      BY <1>3, <2>1 DEF NextIs
    <2> QED
      BY <2>3, <2>4, <2>5 DEF KeepsPlaces
  <1>4. CASE replies'[c] = replies[c]
    BY <1>1, <1>2, <1>4 DEF KeepsPlaces, OnePlace, InFlight, InReplies, NextIs, NextReply
  <1> QED
    BY <1>1, <1>3, <1>4

LEMMA BreakPlaces ==
  ASSUME RpcTypeOK, NEW c \in Clients, OnePlace(c), Break(c)
  PROVE  KeepsPlaces(c)
  <1>1. /\ calls'[c] \in {calls[c], <<>>} /\ replies'[c] \in {replies[c], <<>>}
        /\ conn'[c] = "broken"
        /\ UNCHANGED <<srv, out>>
    BY DEF RpcTypeOK, Break
  <1>2. /\ InCalls(c)' \subseteq InCalls(c) /\ InReplies(c)' \subseteq InReplies(c)
        /\ InOut(c)' = InOut(c)
        /\ Distinct(calls[c])' /\ Distinct(replies[c])'
    BY <1>1, EmptyStream DEF InCalls, InReplies, InOut, OnePlace
  <1>3. OnePlace(c)'
    BY <1>2 DEF OnePlace
  <1>4. \A n \in InFlight(c)' : \E m \in InFlight(c) : n.seqid = m.seqid
    BY <1>2 DEF InFlight
  <1>5. \A id : NextIs(c, id) => NextIs(c, id)'
    BY <1>1 DEF NextIs, NextReply
  <1> QED
    BY <1>3, <1>4, <1>5 DEF KeepsPlaces

\* A connection that is being opened, or on which nothing comes, is as it was.
LEMMA QuietPlaces ==
  ASSUME RpcTypeOK, NEW c \in Clients, OnePlace(c),
         \/ Open(c) /\ srv[c] # "writing" /\ replies[c] = <<>>
         \/ Disconnected(c)
         \/ UNCHANGED rpcVars
  PROVE  KeepsPlaces(c) /\ InFlight(c)' = InFlight(c)
  <1>1. /\ UNCHANGED <<calls, replies, out>>
        /\ srv'[c] = "writing" <=> srv[c] = "writing"
    BY DEF RpcTypeOK, Open, Disconnected, DisconnectedFrom, rpcVars
  <1>2. OnePlace(c)' /\ InFlight(c)' = InFlight(c)
    BY <1>1 DEF OnePlace, InFlight, InCalls, InOut, InReplies
  <1>3. \A id : NextIs(c, id) => NextIs(c, id)'
    BY <1>1 DEF NextIs, NextReply, Open, Disconnected, DisconnectedFrom, rpcVars
  <1> QED
    BY <1>2, <1>3 DEF KeepsPlaces

\* A call that is sent is on its way, with its id, or lost.
LEMMA SendPlaces ==
  ASSUME RpcTypeOK, NEW c \in Clients, OnePlace(c),
         NEW r \in Requests, NEW id \in SeqIds, SendCall(c, r, id),
         \A m \in InFlight(c) : m.seqid # id
  PROVE  /\ OnePlace(c)'
         /\ \A m \in InFlight(c)' : m.seqid = id \/ \E n \in InFlight(c) : m.seqid = n.seqid
         /\ \A i : NextIs(c, i) => NextIs(c, i)'
  <1> DEFINE call == CallMessage(r, id)
  <1>1. call \in Calls /\ call.seqid = id
    BY MessagesTyped DEF CallMessage
  <1>2. /\ calls'[c] \in {calls[c], Append(calls[c], call)}
        /\ UNCHANGED <<conn, replies, srv, out>>
    BY DEF RpcTypeOK, SendCall
  <1> HIDE DEF call
  <1>3. InCalls(c)' \subseteq InCalls(c) \cup {call} /\ Distinct(calls[c])'
    <2> DEFINE more == Append(calls[c], call)
    <2>1. /\ Range(more) = Range(calls[c]) \cup {call}
          /\ Distinct(calls[c]) /\ (\A n \in Range(calls[c]) : n.seqid # call.seqid) => Distinct(more)
      <3>1. calls[c] \in Seq(Calls)
        BY DEF RpcTypeOK
      <3> QED
        BY <1>1, <3>1, AppendRange, AppendMessage, ZenonT(30)
    <2> HIDE DEF more
    <2>2. Distinct(more)
      BY <1>1, <2>1 DEF InFlight, InCalls, OnePlace
    <2> QED
      BY <1>2, <2>1, <2>2 DEF more, InCalls, OnePlace
  <1>4. InOut(c)' = InOut(c) /\ InReplies(c)' = InReplies(c)
    BY <1>2 DEF InOut, InReplies
  <1>5. OnePlace(c)'
    BY <1>1, <1>2, <1>3, <1>4 DEF OnePlace, InFlight
  <1>6. \A m \in InFlight(c)' : m.seqid = id \/ \E n \in InFlight(c) : m.seqid = n.seqid
    BY <1>1, <1>3, <1>4 DEF InFlight
  <1>7. \A i : NextIs(c, i) => NextIs(c, i)'
    BY <1>2 DEF NextIs, NextReply
  <1> QED
    BY <1>5, <1>6, <1>7

\* No message with the id of the one that is read is left.
LEMMA RecvPlaces ==
  ASSUME RpcTypeOK, NEW c \in Clients, OnePlace(c), RecvReply(c)
  PROVE  /\ OnePlace(c)'
         /\ NextReply(c) \in InFlight(c)
         /\ \A m \in InFlight(c)' : m \in InFlight(c) /\ m.seqid # NextReply(c).seqid
  <1>1. /\ replies[c] # <<>> /\ replies'[c] = Tail(replies[c])
        /\ UNCHANGED <<conn, calls, srv, out>>
    BY DEF RpcTypeOK, RecvReply
  <1>2. /\ InReplies(c) = InReplies(c)' \cup {NextReply(c)} /\ Distinct(replies[c])'
        /\ \A m \in InReplies(c)' : m.seqid # NextReply(c).seqid
    BY <1>1, TakeMessage DEF RpcTypeOK, OnePlace, InReplies, NextReply
  <1>3. InCalls(c)' = InCalls(c) /\ InOut(c)' = InOut(c)
    BY <1>1 DEF InCalls, InOut
  <1> QED
    BY <1>1, <1>2, <1>3 DEF OnePlace, InFlight
=============================================================================
