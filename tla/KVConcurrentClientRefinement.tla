-------------------- MODULE KVConcurrentClientRefinement --------------------
(***************************************************************************)
(* Proof that threads which share a KVStoreConcurrentClient get what       *)
(* KVCalls promises, at most once: for any number of threads, whatever     *)
(* they call and wherever the connection breaks.                           *)
(***************************************************************************)
EXTENDS KVConcurrentClientProofs

\* The messages on their way back.
Back == InOut(Shared) \cup InReplies(Shared)

\* A message on its way to the server is the call of the thread with its id,
\* and has not been executed.  A thread that gave its call up keeps the id.
CallTrue(m) ==
  /\ served[Shared][m.seqid] = NoReply
  /\ \E t \in Threads : seqid[t] = m.seqid
  /\ \A t \in Threads : Numbered(t) /\ seqid[t] = m.seqid => m = CallMessage(req[t], m.seqid)

\* One on its way back is the answer that the handler made to it.
AnswerTrue(m) ==
  /\ served[Shared][m.seqid] \in Replies
  /\ \A t \in Threads : Numbered(t) /\ seqid[t] = m.seqid =>
       m = ReplyMessage(req[t].fname, m.seqid, served[Shared][m.seqid])

\* No call is executed before it is sent.
Unserved ==
  /\ \A i \in SeqIds : i >= nextseqid_ => served[Shared][i] = NoReply
  /\ \A t \in Threads : pc[t] = "send" => served[Shared][seqid[t]] = NoReply

TruthInv ==
  /\ \A m \in InCalls(Shared) : CallTrue(m)
  /\ \A m \in Back : AnswerTrue(m)
  /\ Unserved
  /\ stop_ => conn[Shared] = "broken"
-----------------------------------------------------------------------------
LEMMA InitTruth == ASSUME Init PROVE TruthInv
  <1> USE DEF Init, RpcInit
  <1>1. InCalls(Shared) = {} /\ Back = {}
    BY EmptyStream, ConcurrentAssumption DEF InCalls, Back, InOut, InReplies
  <1>2. Unserved
    BY ConcurrentAssumption DEF Unserved
  <1> QED
    BY <1>1, <1>2 DEF TruthInv

\* A step of t leaves of another thread u all that matters.
LEMMA OthersAs ==
  ASSUME ClientInv, NEW t \in Threads, Invoke(t) \/ Step(t), NEW u \in Threads \ {t}
  PROVE  /\ Calling(u)' <=> Calling(u)
         /\ Numbered(u)' <=> Numbered(u)
         /\ pc'[u] = "threw" <=> pc[u] = "threw"
         /\ pc'[u] = "send" <=> pc[u] = "send"
         /\ seqid'[u] = seqid[u] /\ req'[u] = req[u]
  <1>0. TypeOK /\ Moved(t, pc'[t])
    BY StepMoves DEF ClientInv
  <1>1. seqid'[u] = seqid[u]
    <2>1. CASE GenerateSeqId(t) /\ ~stop_
      BY <1>0, <2>1 DEF GenerateSeqId, TypeOK
    <2>2. CASE ~(GenerateSeqId(t) /\ ~stop_)
      BY <2>2, OtherwiseNumbered
    <2> QED
      BY <2>1, <2>2
  <1>2. req'[u] = req[u]
    <2>1. CASE Invoke(t)
      BY <1>0, <2>1 DEF Invoke, TypeOK
    <2>2. CASE Step(t)
      BY <2>2 DEF Step, GenerateSeqId, Send, SendFails, Lock, TakePending, NothingPending, Dead, Fails,
                  ReadHeader, ReadFails, Receive, ReceiveRest, HandOver, HandOverLeaving, CheckWork, Sleep
    <2> QED
      BY <2>1, <2>2
  <1> QED
    BY <1>0, <1>1, <1>2 DEF Moved, Calling, Numbered, InCall

\* What t itself keeps in a call.
LEMMA OwnCall ==
  ASSUME ClientInv, NEW t \in Threads, Step(t)
  PROVE  /\ UNCHANGED req
         /\ Numbered(t)' => Numbered(t) \/ (GenerateSeqId(t) /\ ~stop_)
         /\ pc'[t] = "send" => GenerateSeqId(t) /\ ~stop_
  <1>0. TypeOK
    BY DEF ClientInv
  <1>1. UNCHANGED req
    BY DEF Step, GenerateSeqId, Send, SendFails, Lock, TakePending, NothingPending, Dead, Fails,
           ReadHeader, ReadFails, Receive, ReceiveRest, HandOver, HandOverLeaving, CheckWork, Sleep
  <1>2. CASE GenerateSeqId(t)
    BY <1>0, <1>1, <1>2, Path DEF Numbered, Calling, InCall
  <1>3. CASE ~GenerateSeqId(t)
    BY <1>0, <1>1, <1>3, Path DEF Step, Numbered, Calling, InCall
  <1> QED
    BY <1>2, <1>3

\* A step that adds no message and begins no call.
LEMMA TruthKept ==
  ASSUME TruthInv, UNCHANGED <<served, seqid, nextseqid_>>,
         InCalls(Shared)' \subseteq InCalls(Shared), Back' \subseteq Back,
         \A u \in Threads : Numbered(u)' => Numbered(u) /\ req'[u] = req[u],
         \A u \in Threads : pc'[u] = "send" => pc[u] = "send"
  PROVE  /\ \A m \in InCalls(Shared)' : CallTrue(m)'
         /\ \A m \in Back' : AnswerTrue(m)'
         /\ Unserved'
  <1>1. \A m \in InCalls(Shared)' : CallTrue(m)'
    BY DEF TruthInv, CallTrue
  <1>2. \A m \in Back' : AnswerTrue(m)'
    BY DEF TruthInv, AnswerTrue
  <1>3. Unserved'
    BY DEF TruthInv, Unserved
  <1> QED
    BY <1>1, <1>2, <1>3

LEMMA InFlightTyped ==
  ASSUME ClientInv, NEW m \in InFlight(Shared)
  PROVE  m.seqid \in SeqIds /\ m.seqid < nextseqid_
  <1>1. RpcTypeOK /\ Shared \in Clients
    BY ConcurrentAssumption DEF ClientInv, TypeOK
  <1>2. m \in Calls \/ m \in Messages
    BY <1>1, TakeMessage DEF InFlight, InCalls, InOut, InReplies, RpcTypeOK, Range, ClientInv, Bounded
  <1> QED
    BY <1>2, CallTyped, ReplyTyped DEF ClientInv, Placed

LEMMA GenerateTruth ==
  ASSUME ClientInv, TruthInv, NEW t \in Threads, GenerateSeqId(t), ~stop_
  PROVE  TruthInv'
  <1>0. TypeOK /\ nextseqid_ \in SeqIds /\ nextseqid_ \in Nat /\ pc[t] = "called"
    BY IdInBound, Path DEF ClientInv, TypeOK
  <1>1. /\ seqid' = [seqid EXCEPT ![t] = nextseqid_] /\ nextseqid_' = nextseqid_ + 1
        /\ UNCHANGED <<rpcVars, req, stop_>>
    BY DEF GenerateSeqId
  <1>2. seqid'[t] = nextseqid_ /\ \A u \in Threads \ {t} : seqid'[u] = seqid[u]
    BY <1>0, <1>1 DEF TypeOK
  <1>3. \A u \in Threads \ {t} : (Numbered(u)' <=> Numbered(u)) /\ (pc'[u] = "send" <=> pc[u] = "send")
    BY OthersAs DEF Step
  <1>4. /\ InCalls(Shared)' = InCalls(Shared) /\ Back' = Back /\ UNCHANGED <<served, conn>>
    BY <1>1 DEF rpcVars, InCalls, Back, InOut, InReplies
  <1>5. ASSUME NEW m \in InFlight(Shared) PROVE m.seqid # nextseqid_
    BY <1>0, <1>5, InFlightTyped, ConcurrentAssumption
  <1>6. ASSUME NEW m \in InCalls(Shared) PROVE CallTrue(m)'
    <2>1. m \in InFlight(Shared) /\ CallTrue(m)
      BY <1>6 DEF InFlight, TruthInv
    <2>2. PICK u \in Threads : Sent(u) /\ m.seqid = seqid[u]
      BY <2>1 DEF ClientInv, InOrder, Answerable
    <2>3. u # t
      BY <1>0, <2>2 DEF Sent, Numbered
    <2>4. \E v \in Threads : seqid'[v] = m.seqid
      BY <1>2, <2>2, <2>3
    <2> QED
      BY <1>1, <1>2, <1>3, <1>4, <1>5, <2>1, <2>4 DEF CallTrue
  <1>7. ASSUME NEW m \in Back PROVE AnswerTrue(m)'
    <2>1. m \in InFlight(Shared) /\ AnswerTrue(m)
      BY <1>7 DEF InFlight, Back, TruthInv
    <2> QED
      BY <1>1, <1>2, <1>3, <1>4, <1>5, <2>1 DEF AnswerTrue
  <1>8. Unserved'
    <2>1. served[Shared][nextseqid_] = NoReply /\ \A i \in SeqIds : i \in Nat
      BY <1>0, ConcurrentAssumption DEF TruthInv, Unserved
    <2>2. \A i \in SeqIds : i >= nextseqid_' => served'[Shared][i] = NoReply
      <3>1. \A i, n \in Nat : i >= n + 1 => i >= n
        OBVIOUS
      <3>2. nextseqid_ \in Nat /\ \A i \in SeqIds : i \in Nat
        BY <1>0, <2>1
      <3>3. \A i \in SeqIds : i >= nextseqid_ + 1 => i >= nextseqid_
        BY <3>1, <3>2, Zenon
      <3> QED
        BY <1>1, <1>4, <3>3 DEF TruthInv, Unserved
    <2>3. \A u \in Threads : pc'[u] = "send" => served'[Shared][seqid'[u]] = NoReply
      BY <1>2, <1>3, <1>4, <2>1 DEF TruthInv, Unserved
    <2> QED
      BY <2>2, <2>3 DEF Unserved
  <1> QED
    BY <1>1, <1>4, <1>6, <1>7, <1>8 DEF TruthInv

\* A send changes no answer: its id has none.
LEMMA SendKeepsServed ==
  ASSUME ClientInv, TruthInv, NEW t \in Threads, Send(t)
  PROVE  /\ pc[t] = "send" /\ pc'[t] = "sent"
         /\ UNCHANGED <<served, conn, replies, srv, out, content, req, seqid, nextseqid_, stop_, res>>
         /\ calls'[Shared] \in {calls[Shared], Append(calls[Shared], CallMessage(req[t], seqid[t]))}
         /\ req[t] \in Requests /\ seqid[t] \in SeqIds
  <1>0. TypeOK /\ RpcTypeOK /\ Shared \in Clients
    BY ConcurrentAssumption DEF ClientInv, TypeOK
  <1>1. pc[t] = "send" /\ pc'[t] = "sent"
    BY <1>0, Path
  <1>2. SendCall(Shared, req[t], seqid[t]) /\ UNCHANGED <<req, seqid, nextseqid_, stop_, res>>
    BY DEF Send, syncVars
  <1>3. req[t] \in Requests /\ seqid[t] \in SeqIds
    BY <1>1 DEF ClientInv, Bounded, Numbered, Calling, InCall
  <1>4. served' = [served EXCEPT ![Shared][seqid[t]] = NoReply]
    BY <1>2 DEF SendCall
  <1>5. served[Shared][seqid[t]] = NoReply
    BY <1>1 DEF TruthInv, Unserved
  <1>6. served' = served
    BY <1>0, <1>3, <1>4, <1>5 DEF RpcTypeOK
  <1>7. /\ UNCHANGED <<content, conn, replies, srv, out>>
        /\ calls'[Shared] \in {calls[Shared], Append(calls[Shared], CallMessage(req[t], seqid[t]))}
    BY <1>0, <1>2 DEF SendCall, RpcTypeOK
  <1> QED
    BY <1>1, <1>2, <1>3, <1>6, <1>7

LEMMA SendTruth ==
  ASSUME ClientInv, TruthInv, NEW t \in Threads, Send(t)
  PROVE  TruthInv'
  <1>0. TypeOK /\ RpcTypeOK /\ Shared \in Clients
    BY ConcurrentAssumption DEF ClientInv, TypeOK
  <1>1. PICK call : call = CallMessage(req[t], seqid[t])
    OBVIOUS
  <1>2. /\ UNCHANGED <<served, conn, replies, srv, out, req, seqid, nextseqid_, stop_>>
        /\ calls'[Shared] \in {calls[Shared], Append(calls[Shared], call)}
        /\ pc[t] = "send" /\ pc'[t] = "sent"
        /\ req[t] \in Requests /\ seqid[t] \in SeqIds
    BY <1>1, SendKeepsServed
  <1>3. call \in Calls /\ call.seqid = seqid[t]
    BY <1>1, <1>2, MessagesTyped DEF CallMessage
  <1>4. InCalls(Shared)' \subseteq InCalls(Shared) \cup {call}
    <2>1. calls[Shared] \in Seq(Calls)
      BY <1>0 DEF RpcTypeOK
    <2>2. Range(Append(calls[Shared], call)) = Range(calls[Shared]) \cup {call}
      BY <1>3, <2>1, AppendRange
    <2> QED
      BY <1>2, <2>2 DEF InCalls
  <1>5. /\ \A u \in Threads : Numbered(u)' => Numbered(u)
        /\ \A u \in Threads : pc'[u] = "send" => pc[u] = "send"
    BY <1>2, OthersAs DEF Step, Numbered, Calling, InCall
  <1>6. Back' = Back
    BY <1>2 DEF Back, InOut, InReplies
  <1>7. CallTrue(call)'
    <2>1. \A u \in Threads : seqid[u] = seqid[t] => u = t
      BY <1>2, SentId DEF Numbered, Calling, InCall
    <2>2. served[Shared][seqid[t]] = NoReply
      BY <1>2 DEF TruthInv, Unserved
    <2> QED
      BY <1>1, <1>2, <1>3, <2>1, <2>2 DEF CallTrue
  <1>8. \A m \in InCalls(Shared) : CallTrue(m)'
    BY <1>2, <1>5 DEF TruthInv, CallTrue
  <1>9. \A m \in Back : AnswerTrue(m)'
    BY <1>2, <1>5 DEF TruthInv, AnswerTrue
  <1>20. Unserved'
    BY <1>2, <1>5 DEF TruthInv, Unserved
  <1> QED
    BY <1>2, <1>4, <1>6, <1>7, <1>8, <1>9, <1>20 DEF TruthInv

\* What t receives is the answer to its call.
LEMMA OwnAnswer ==
  ASSUME ClientInv, TruthInv, NEW t \in Threads, Receive(t)
  PROVE  /\ Numbered(t) /\ pc[t] = "match" /\ seqid[t] \in SeqIds
         /\ served[Shared][seqid[t]] \in Replies
         /\ NextReply(Shared) = ReplyMessage(req[t].fname, seqid[t], served[Shared][seqid[t]])
         /\ \A m \in InFlight(Shared)' : m \in InFlight(Shared) /\ m.seqid # seqid[t]
  <1>0. TypeOK /\ RpcTypeOK /\ OnePlace(Shared) /\ Shared \in Clients
    BY ConcurrentAssumption DEF ClientInv, TypeOK, Placed
  <1>1. pc[t] = "match" /\ rseqid = seqid[t] /\ RecvReply(Shared)
    BY <1>0, Path DEF Receive, ReceiveRest
  <1>2. Numbered(t) /\ seqid[t] \in SeqIds
    BY <1>1, SentId DEF Numbered, Calling, InCall
  <1>3. NextReply(Shared).seqid = seqid[t]
    BY <1>1 DEF ClientInv, Reading, NextIs, RecvReply
  <1>4. NextReply(Shared) \in Back
    BY <1>0, <1>1, TakeMessage DEF RecvReply, NextReply, Back, InReplies, RpcTypeOK
  <1>5. AnswerTrue(NextReply(Shared))
    BY <1>4 DEF TruthInv
  <1>6. \A m \in InFlight(Shared)' : m \in InFlight(Shared) /\ m.seqid # seqid[t]
    BY <1>0, <1>1, <1>3, RecvPlaces
  <1> QED
    BY <1>1, <1>2, <1>3, <1>5, <1>6 DEF AnswerTrue

\* Either it returns or it throws, and the client stays in order.
LEMMA ReceiveOrderly ==
  ASSUME ClientInv, TruthInv, NEW t \in Threads, Receive(t)
  PROVE  /\ served[Shared][seqid[t]].mtype = "T_REPLY" =>
              /\ pc'[t] = "idle"
              /\ res' = [res EXCEPT ![t] = served[Shared][seqid[t]].result]
         /\ served[Shared][seqid[t]].mtype # "T_REPLY" => pc'[t] = "threw" /\ res' = res
         /\ UNCHANGED stop_
  <1> DEFINE m == NextReply(Shared)
  <1>1. PICK a : a = served[Shared][seqid[t]]
    OBVIOUS
  <1>2. a \in Replies /\ m = ReplyMessage(req[t].fname, seqid[t], a)
    BY <1>1, OwnAnswer
  <1>3. m.fname = req[t].fname /\ m.mtype = a.mtype /\ m.fields = result(a)
    BY <1>2 DEF ReplyMessage
  <1>4. Expected(m, req[t].fname)
    BY <1>3 DEF Expected
  <1>5. TypeOK /\ res[t] \in Result
    BY DEF ClientInv, TypeOK
  <1> HIDE DEF m
  <1>6. CASE a.mtype = "T_REPLY"
    <2>1. Returns(m) /\ presult(m.fields, res[t]) = a.result
      BY <1>2, <1>3, <1>5, <1>6, AnswerArrives DEF Returns
    <2>2. res' = [res EXCEPT ![t] = presult(m.fields, @)] /\ Leave(t, "idle", TRUE)
      BY <1>4, <2>1 DEF Receive, ReceiveRest, m
    <2>3. pc'[t] = "idle"
      BY <1>5, <2>2, LeaveMoves DEF Moved, Locations
    <2>4. UNCHANGED stop_
      BY <2>2 DEF Leave, LeaveNotifying
    <2> QED
      BY <1>1, <1>6, <2>1, <2>2, <2>3, <2>4
  <1>7. CASE a.mtype # "T_REPLY"
    <2>1. ~Returns(m) /\ m.mtype = "T_EXCEPTION"
      BY <1>2, <1>3, <1>7 DEF Returns, Replies, Exception
    <2>2. res' = res /\ Leave(t, "threw", TRUE)
      BY <2>1 DEF Receive, ReceiveRest, m
    <2>3. pc'[t] = "threw"
      BY <1>5, <2>2, LeaveMoves DEF Moved, Locations
    <2>4. UNCHANGED stop_
      BY <2>2 DEF Leave, LeaveNotifying
    <2> QED
      BY <1>1, <1>7, <2>2, <2>3, <2>4
  <1> QED
    BY <1>6, <1>7

LEMMA ReceiveTruth ==
  ASSUME ClientInv, TruthInv, NEW t \in Threads, Receive(t)
  PROVE  TruthInv'
  <1>0. TypeOK /\ RpcTypeOK /\ OnePlace(Shared) /\ Shared \in Clients
    BY ConcurrentAssumption DEF ClientInv, TypeOK, Placed
  <1>1. Numbered(t) /\ pc[t] = "match" /\ pc'[t] \in {"idle", "threw"}
    BY <1>0, Path, OwnAnswer
  <1>2. UNCHANGED <<seqid, nextseqid_, req, stop_>>
    BY <1>0, <1>1, OtherwiseNumbered, ReceiveOrderly, OwnCall, Path DEF Step
  <1>3. UNCHANGED <<served, conn, calls, srv, out>> /\ replies'[Shared] = Tail(replies[Shared]) /\ replies[Shared] # <<>>
    BY <1>0 DEF Receive, ReceiveRest, RecvReply, RpcTypeOK
  <1>4. InCalls(Shared)' = InCalls(Shared) /\ Back' \subseteq Back
    BY <1>0, <1>3, TakeMessage DEF RpcTypeOK, InCalls, Back, InOut, InReplies
  <1>5. \A u \in Threads : Numbered(u)' => Numbered(u) /\ req'[u] = req[u]
    BY <1>1, <1>2, OthersAs DEF Step
  <1>6. \A u \in Threads : pc'[u] = "send" => pc[u] = "send"
    BY <1>1, OthersAs DEF Step
  <1>7. /\ \A m \in InCalls(Shared)' : CallTrue(m)'
        /\ \A m \in Back' : AnswerTrue(m)'
        /\ Unserved'
    BY <1>2, <1>3, <1>4, <1>5, <1>6, TruthKept
  <1> QED
    BY <1>2, <1>3, <1>7 DEF TruthInv

\* The client is marked bad only when its connection has broken.
LEMMA OtherTruth ==
  ASSUME ClientInv, TruthInv, NEW t \in Threads, Invoke(t) \/ Step(t),
         ~Send(t), ~Receive(t), ~(GenerateSeqId(t) /\ ~stop_)
  PROVE  TruthInv'
  <1>0. TypeOK
    BY DEF ClientInv
  <1>1. UNCHANGED rpcVars /\ UNCHANGED <<seqid, nextseqid_>>
    BY OtherwiseQuiet, OtherwiseNumbered
  <1>2. InCalls(Shared)' = InCalls(Shared) /\ Back' = Back /\ UNCHANGED <<served, conn>>
    BY <1>1 DEF rpcVars, InCalls, Back, InOut, InReplies
  <1>3. ASSUME NEW u \in Threads
        PROVE  /\ Numbered(u)' => Numbered(u) /\ req'[u] = req[u]
               /\ pc'[u] = "send" => pc[u] = "send"
    <2>1. CASE u # t
      BY <2>1, OthersAs
    <2>2. CASE u = t /\ Invoke(t)
      BY <1>0, <2>2, Path DEF Numbered
    <2>3. CASE u = t /\ Step(t)
      BY <2>3, OwnCall
    <2> QED
      BY <2>1, <2>2, <2>3
  <1>4. /\ \A m \in InCalls(Shared)' : CallTrue(m)'
        /\ \A m \in Back' : AnswerTrue(m)'
        /\ Unserved'
    BY <1>1, <1>2, <1>3, TruthKept
  <1>5. stop_' => conn'[Shared] = "broken"
    <2>1. CASE SendFails(t)
      BY <1>2, <2>1 DEF SendFails
    <2>2. CASE ReadFails(t)
      BY <1>2, <2>2 DEF ReadFails, EndOfStream
    <2>3. CASE Dead(t)
      BY <1>2, <2>3 DEF Dead, TruthInv
    <2>4. CASE ~SendFails(t) /\ ~ReadFails(t) /\ ~Dead(t)
      <3>1. UNCHANGED stop_
        BY <2>4 DEF Invoke, Step, GenerateSeqId, Lock, TakePending, NothingPending,
                    ReadHeader, HandOver, HandOverLeaving, CheckWork, Sleep, syncVars
      <3> QED
        BY <1>2, <3>1 DEF TruthInv
    <2> QED
      BY <2>1, <2>2, <2>3, <2>4
  <1> QED
    BY <1>4, <1>5 DEF TruthInv
-----------------------------------------------------------------------------
(***************************************************************************)
(* The steps of the server and of the connection.                          *)
(***************************************************************************)
LEMMA ProcessTruth ==
  ASSUME ClientInv, TruthInv, Process(Shared), UNCHANGED <<threadVars, syncVars>>
  PROVE  TruthInv'
  <1>0. TypeOK /\ RpcTypeOK /\ OnePlace(Shared) /\ Shared \in Clients
    BY ConcurrentAssumption DEF ClientInv, TypeOK, Placed
  <1>1. PICK m : m = Head(calls[Shared])
    OBVIOUS
  <1>2. /\ srv[Shared] = "reading" /\ srv'[Shared] = "writing"
        /\ calls[Shared] # <<>> /\ calls'[Shared] = Tail(calls[Shared])
        /\ UNCHANGED <<conn, replies>>
    BY <1>0 DEF RpcTypeOK, Process, ProcessTaking
  <1>3. calls[Shared] \in Seq(Calls)
    BY <1>0 DEF RpcTypeOK
  <1>4. /\ m \in Calls /\ m \in InCalls(Shared)
        /\ InCalls(Shared)' \subseteq InCalls(Shared)
        /\ \A n \in InCalls(Shared)' : n.seqid # m.seqid
        /\ \A n \in Back : n.seqid # m.seqid
    BY <1>0, <1>1, <1>2, <1>3, TakeMessage DEF OnePlace, InCalls, Back
  <1>5. m.seqid \in SeqIds /\ m.seqid < nextseqid_ /\ Args(m) \in Requests /\ Args(m).fname = m.fname
    BY <1>4, CallTyped, InFlightTyped DEF InFlight
  <1>6. PICK a \in Outcomes(Args(m)) :
          /\ out' = [out EXCEPT ![Shared] = ReplyMessage(m.fname, m.seqid, a)]
          /\ served' = [served EXCEPT ![Shared][m.seqid] = a]
    BY <1>1 DEF Process, ProcessTaking
  <1>7. a \in Replies
    BY <1>0, <1>5, AnswersTyped DEF RpcTypeOK, Outcomes
  <1>8. /\ served'[Shared][m.seqid] = a
        /\ \A i \in SeqIds : i # m.seqid => served'[Shared][i] = served[Shared][i]
        /\ out'[Shared] = ReplyMessage(m.fname, m.seqid, a)
    BY <1>0, <1>5, <1>6 DEF RpcTypeOK
  <1>9. UNCHANGED <<pc, req, seqid, nextseqid_, stop_>>
    BY DEF threadVars, syncVars
  <1>10. ASSUME NEW n \in InCalls(Shared)' PROVE CallTrue(n)'
    <2>1. n.seqid \in SeqIds /\ n.seqid # m.seqid /\ CallTrue(n)
      BY <1>4, <1>10, InFlightTyped DEF TruthInv, InFlight
    <2> QED
      BY <1>8, <1>9, <2>1 DEF CallTrue, Numbered, Calling
  <1>11. InReplies(Shared)' \subseteq Back /\ InOut(Shared)' = {out'[Shared]}
    BY <1>2 DEF Back, InOut, InReplies
  <1>12. ASSUME NEW n \in InReplies(Shared)' PROVE AnswerTrue(n)'
    <2>1. n.seqid \in SeqIds /\ n.seqid # m.seqid /\ AnswerTrue(n)
      BY <1>4, <1>11, <1>12, InFlightTyped DEF TruthInv, InFlight, Back
    <2> QED
      BY <1>8, <1>9, <2>1 DEF AnswerTrue, Numbered, Calling
  <1>13. PICK o : o = out'[Shared]
    OBVIOUS
  <1>14. AnswerTrue(o)'
    <2>1. o = ReplyMessage(m.fname, m.seqid, a) /\ o.seqid = m.seqid
      BY <1>8, <1>13 DEF ReplyMessage
    <2>2. ASSUME NEW t \in Threads, Numbered(t)', seqid'[t] = m.seqid
          PROVE  req'[t].fname = m.fname
      <3>1. Numbered(t) /\ seqid[t] = m.seqid
        BY <1>9, <2>2 DEF Numbered, Calling
      <3>2. m = CallMessage(req[t], m.seqid)
        BY <1>4, <3>1 DEF TruthInv, CallTrue
      <3>3. CallMessage(req[t], m.seqid).fname = req[t].fname
        BY DEF CallMessage
      <3> QED
        BY <1>9, <3>2, <3>3
    <2> QED
      BY <1>7, <1>8, <2>1, <2>2 DEF AnswerTrue
  <1>15. Unserved'
    <2>1. \A i \in SeqIds : i \in Nat
      BY ConcurrentAssumption
    <2>2. ASSUME NEW i \in SeqIds, i >= nextseqid_ PROVE served'[Shared][i] = NoReply
      BY <1>0, <1>5, <1>8, <2>1, <2>2 DEF TruthInv, Unserved, TypeOK
    <2>3. ASSUME NEW t \in Threads, pc[t] = "send" PROVE served'[Shared][seqid[t]] = NoReply
      <3>1. seqid[t] \in SeqIds
        BY <2>3, SentId DEF Numbered, Calling, InCall
      <3>2. seqid[t] # m.seqid
        BY <1>4, <2>3 DEF ClientInv, Placed, InFlight
      <3> QED
        BY <1>8, <2>3, <3>1, <3>2 DEF TruthInv, Unserved
    <2> QED
      BY <1>9, <2>2, <2>3 DEF Unserved
  <1>16. stop_' => conn'[Shared] = "broken"
    BY <1>2, <1>9 DEF TruthInv
  <1>17. \A n \in Back' : AnswerTrue(n)'
    BY <1>11, <1>12, <1>13, <1>14 DEF Back
  <1> QED
    BY <1>10, <1>15, <1>16, <1>17 DEF TruthInv

\* Steps of the server that execute nothing, of the connection, and stutters.
LEMMA QuietTruth ==
  ASSUME ClientInv, TruthInv, UNCHANGED <<threadVars, syncVars>>,
         \/ Open(Shared) \/ WriteReply(Shared) \/ Disconnected(Shared) \/ Break(Shared)
         \/ UNCHANGED rpcVars
  PROVE  /\ UNCHANGED <<served, content>>
         /\ InCalls(Shared)' \subseteq InCalls(Shared)
         /\ InCalls(Shared)' = InCalls(Shared) \/ ~stop_
         /\ TruthInv'
  <1>0. TypeOK /\ RpcTypeOK /\ Shared \in Clients
    BY ConcurrentAssumption DEF ClientInv, TypeOK
  <1>1. UNCHANGED <<served, content>>
    BY DEF Open, WriteReply, WriteReplySending, Disconnected, DisconnectedFrom, Break, rpcVars
  <1>2. stop_ => conn[Shared] = "broken" /\ ~Break(Shared) /\ conn'[Shared] = "broken"
    BY DEF TruthInv, Open, WriteReply, WriteReplySending, Disconnected, DisconnectedFrom, Break, rpcVars
  <1>3. UNCHANGED <<pc, req, seqid, nextseqid_, stop_>>
    BY DEF threadVars, syncVars
  <1>4. InCalls(Shared)' \subseteq InCalls(Shared) /\ Back' \subseteq Back
    <2>1. CASE Open(Shared)
      BY <1>0, <2>1 DEF Open, RpcTypeOK, InCalls, Back, InOut, InReplies, ClientInv, Reading
    <2>2. CASE WriteReply(Shared)
      <3>1. /\ srv[Shared] = "writing" /\ srv'[Shared] # "writing" /\ UNCHANGED calls
            /\ replies'[Shared] \in {replies[Shared], replies[Shared] \o <<out[Shared]>>}
        BY <1>0, <2>2 DEF RpcTypeOK, WriteReply, WriteReplySending
      <3>2. replies[Shared] \in Seq(Messages) /\ out[Shared] \in Messages
        BY <1>0, <3>1 DEF RpcTypeOK, ClientInv, Bounded
      <3>3. Append(replies[Shared], out[Shared]) = replies[Shared] \o <<out[Shared]>>
        BY <3>2, AppendMessage
      <3>4. Range(replies[Shared] \o <<out[Shared]>>) = Range(replies[Shared]) \cup {out[Shared]}
        <4>1. Range(Append(replies[Shared], out[Shared])) = Range(replies[Shared]) \cup {out[Shared]}
          BY <3>2, AppendRange
        <4> QED
          BY <3>3, <4>1, Zenon
      <3> QED
        BY <3>1, <3>4 DEF InCalls, Back, InOut, InReplies
    <2>3. CASE Disconnected(Shared)
      BY <1>0, <2>3 DEF RpcTypeOK, Disconnected, DisconnectedFrom, InCalls, Back, InOut, InReplies
    <2>4. CASE Break(Shared)
      <3>1. calls'[Shared] \in {calls[Shared], <<>>} /\ replies'[Shared] \in {replies[Shared], <<>>}
            /\ UNCHANGED <<srv, out>>
        BY <1>0, <2>4 DEF RpcTypeOK, Break
      <3> QED
        BY <3>1, EmptyStream DEF InCalls, Back, InOut, InReplies
    <2>5. CASE UNCHANGED rpcVars
      BY <2>5 DEF rpcVars, InCalls, Back, InOut, InReplies
    <2> QED
      BY <2>1, <2>2, <2>3, <2>4, <2>5
  <1>5. InCalls(Shared)' = InCalls(Shared) \/ ~stop_
    <2>1. CASE Break(Shared)
      BY <1>2, <2>1
    <2>2. CASE ~Break(Shared)
      BY <2>2 DEF Open, WriteReply, WriteReplySending, Disconnected, DisconnectedFrom, rpcVars, InCalls
    <2> QED
      BY <2>1, <2>2
  <1>6. \A u \in Threads : Numbered(u)' => Numbered(u) /\ req'[u] = req[u]
    BY <1>3 DEF Numbered, Calling
  <1>7. /\ \A m \in InCalls(Shared)' : CallTrue(m)'
        /\ \A m \in Back' : AnswerTrue(m)'
        /\ Unserved'
    BY <1>1, <1>3, <1>4, <1>6, TruthKept
  <1> QED
    BY <1>1, <1>2, <1>3, <1>4, <1>5, <1>7 DEF TruthInv

\* The thread takes a call and never comes back.
LEMMA BlockTruth ==
  ASSUME ClientInv, TruthInv, Block(Shared), UNCHANGED <<threadVars, syncVars>>
  PROVE  TruthInv'
  <1>0. RpcTypeOK /\ Shared \in Clients
    BY ConcurrentAssumption DEF ClientInv, TypeOK
  <1>1. /\ srv[Shared] = "reading" /\ srv'[Shared] = "blocked"
        /\ calls[Shared] # <<>> /\ calls'[Shared] = Tail(calls[Shared])
        /\ UNCHANGED <<conn, replies, served>>
    BY <1>0 DEF RpcTypeOK, Block
  <1>2. UNCHANGED <<pc, req, seqid, nextseqid_, stop_>>
    BY DEF threadVars, syncVars
  <1>3. calls[Shared] \in Seq(Calls)
    BY <1>0 DEF RpcTypeOK
  <1>4. InCalls(Shared)' \subseteq InCalls(Shared)
    BY <1>1, <1>3, TakeMessage DEF InCalls
  <1>5. Back' \subseteq Back
    BY <1>1 DEF Back, InOut, InReplies
  <1>6. \A u \in Threads : Numbered(u)' => Numbered(u) /\ req'[u] = req[u]
    BY <1>2 DEF Numbered, Calling
  <1>7. /\ \A m \in InCalls(Shared)' : CallTrue(m)'
        /\ \A m \in Back' : AnswerTrue(m)'
        /\ Unserved'
    BY <1>1, <1>2, <1>4, <1>5, <1>6, TruthKept
  <1> QED
    BY <1>1, <1>2, <1>7 DEF TruthInv

LEMMA TruthStep == ASSUME ClientInv, TruthInv, [Next]_vars PROVE TruthInv'
  <1>1. CASE UNCHANGED vars
    BY <1>1, QuietTruth DEF vars
  <1>2. CASE Connect \/ Server
    BY <1>2, ProcessTruth, BlockTruth, QuietTruth DEF Connect, Server, ServerThread
  <1>3. ASSUME NEW t \in Threads, Invoke(t) \/ Step(t) PROVE TruthInv'
    BY <1>3, SendTruth, ReceiveTruth, GenerateTruth, OtherTruth
  <1> QED
    BY <1>1, <1>2, <1>3 DEF Next

\* What is on the connection answers, or is, the call of the thread with its
\* id; and the client is marked bad only when the connection has broken.
THEOREM MessagesTrue == Spec => []TruthInv
  <1>1. ClientInv /\ TruthInv /\ [Next]_vars => TruthInv'
    BY TruthStep
  <1> QED
    BY <1>1, InitTruth, ClientInvariant, PTL DEF Spec
-----------------------------------------------------------------------------
(***************************************************************************)
(* What the threads see of their calls.                                    *)
(***************************************************************************)
\* The data of the two modules is the same.
LEMMA SameData ==
  /\ Calls1!Requests = Requests
  /\ Calls1!NoRequest = NoRequest
  /\ Calls1!NoReply = NoReply
  /\ Calls1!DefaultResult = DefaultResult
  /\ \A x : Calls1!Reply(x) = Reply(x)
  /\ \A r, m : Calls1!Answer(r, m) = Answer(r, m)
  /\ \A r, m : Calls1!Effect(r, m) = Effect(r, m)
  /\ \A r : Calls1!FailureAnswers(r) = FailureAnswers(r)
  BY DEF Calls1!Requests, Requests, Calls1!Strings, Strings, Calls1!NoRequest, NoRequest,
         Calls1!NoReply, NoReply, Calls1!DefaultResult, DefaultResult, Calls1!Reply, Reply,
         Calls1!Answer, Answer, Calls1!Effect, Effect, Calls1!FailureAnswers, FailureAnswers,
         Calls1!Lookup, Lookup, Calls1!Succeeded, Succeeded, Calls1!NotStored, NotStored,
         Calls1!Exception, Exception

\* The calls with the id of t that are still on their way.
Left(t) == {m \in InCalls(Shared) : m.seqid = seqid[t]}

LEMMA Seen ==
  ASSUME NEW t \in Threads
  PROVE  /\ ~Calling(t) => CallPhase[t] = "idle" /\ CallReq[t] = NoRequest
         /\ Calling(t) =>
              /\ CallPhase[t] = IF CallReply[t] = NoReply THEN "invoked" ELSE "done"
              /\ CallReq[t] = req[t]
         /\ Numbered(t) => CallReply[t] = served[Shared][seqid[t]] /\ LateCalls[t] = {}
         /\ ~Numbered(t) => CallReply[t] = NoReply /\ LateCalls[t] = {Args(m) : m \in Left(t)}
         /\ t \in Threw <=> pc[t] = "threw"
  <1>1. /\ ~Calling(t) => CallPhase[t] = "idle" /\ CallReq[t] = NoRequest
        /\ Calling(t) =>
             /\ CallPhase[t] = IF CallReply[t] = NoReply THEN "invoked" ELSE "done"
             /\ CallReq[t] = req[t]
    BY DEF CallPhase, CallReq
  <1>2. Numbered(t) => CallReply[t] = served[Shared][seqid[t]] /\ LateCalls[t] = {}
    BY DEF CallReply, LateCalls
  <1>3. ~Numbered(t) => CallReply[t] = NoReply /\ LateCalls[t] = {Args(m) : m \in Left(t)}
    BY DEF CallReply, LateCalls, Left, InCalls
  <1>4. t \in Threw <=> pc[t] = "threw"
    BY DEF Threw
  <1> QED
    BY <1>1, <1>2, <1>3, <1>4

LEMMA SeenNext ==
  ASSUME NEW t \in Threads
  PROVE  /\ ~Calling(t)' => CallPhase'[t] = "idle" /\ CallReq'[t] = NoRequest
         /\ Calling(t)' =>
              /\ CallPhase'[t] = IF CallReply'[t] = NoReply THEN "invoked" ELSE "done"
              /\ CallReq'[t] = req'[t]
         /\ Numbered(t)' => CallReply'[t] = served'[Shared][seqid'[t]] /\ LateCalls'[t] = {}
         /\ ~Numbered(t)' => CallReply'[t] = NoReply /\ LateCalls'[t] = {Args(m) : m \in Left(t)'}
         /\ t \in Threw' <=> pc'[t] = "threw"
  <1>1. /\ ~Calling(t)' => CallPhase'[t] = "idle" /\ CallReq'[t] = NoRequest
        /\ Calling(t)' =>
             /\ CallPhase'[t] = IF CallReply'[t] = NoReply THEN "invoked" ELSE "done"
             /\ CallReq'[t] = req'[t]
    BY DEF CallPhase, CallReq
  <1>2. Numbered(t)' => CallReply'[t] = served'[Shared][seqid'[t]] /\ LateCalls'[t] = {}
    BY DEF CallReply, LateCalls
  <1>3. ~Numbered(t)' => CallReply'[t] = NoReply /\ LateCalls'[t] = {Args(m) : m \in Left(t)'}
    BY DEF CallReply, LateCalls, Left, InCalls
  <1>4. t \in Threw' <=> pc'[t] = "threw"
    BY DEF Threw
  <1> QED
    BY <1>1, <1>2, <1>3, <1>4

LEMMA RefinesInit == ASSUME Init PROVE Calls1!CallsInit
  <1> USE DEF Init, RpcInit
  <1>1. \A t \in Threads : ~Calling(t) /\ ~Numbered(t)
    BY DEF Numbered, Calling, InCall
  <1>2. Range(calls[Shared]) = {}
    BY EmptyStream, ConcurrentAssumption
  <1>3. CallReply = [t \in Threads |-> NoReply] /\ CallReq = [t \in Threads |-> NoRequest]
    BY <1>1 DEF CallReply, CallReq
  <1>4. CallPhase = [t \in Threads |-> "idle"]
    BY <1>1 DEF CallPhase
  <1>5. LateCalls = [t \in Threads |-> {}]
    BY <1>1, <1>2 DEF LateCalls
  <1>6. Threw = {}
    BY DEF Threw
  <1> QED
    BY <1>3, <1>4, <1>5, <1>6, SameData DEF Calls1!CallsInit, Calls1!Init

\* Thread u sees nothing of a step.
Alike(u) ==
  /\ CallPhase'[u] = CallPhase[u]
  /\ CallReq'[u] = CallReq[u]
  /\ CallReply'[u] = CallReply[u]
  /\ LateCalls'[u] = LateCalls[u]
  /\ u \in Threw' <=> u \in Threw

\* A function on the threads that changes at one of them only.
LEMMA OnlyAt ==
  ASSUME NEW F, NEW G, NEW t \in Threads,
         F = [u \in Threads |-> F[u]], G = [u \in Threads |-> G[u]],
         \A u \in Threads \ {t} : G[u] = F[u]
  PROVE  /\ G = [F EXCEPT ![t] = G[t]]
         /\ G[t] = F[t] => G = F
  OBVIOUS

LEMMA Mapped ==
  ASSUME NEW t \in Threads, \A u \in Threads \ {t} : Alike(u)
  PROVE  /\ CallPhase' = [CallPhase EXCEPT ![t] = CallPhase'[t]]
         /\ CallReq' = [CallReq EXCEPT ![t] = CallReq'[t]]
         /\ CallReply' = [CallReply EXCEPT ![t] = CallReply'[t]]
         /\ LateCalls' = [LateCalls EXCEPT ![t] = LateCalls'[t]]
         /\ Threw' \ {t} = Threw \ {t}
  <1>1. CallPhase' = [CallPhase EXCEPT ![t] = CallPhase'[t]]
    <2>1. CallPhase = [u \in Threads |-> CallPhase[u]] /\ CallPhase' = [u \in Threads |-> CallPhase'[u]]
      BY DEF CallPhase
    <2> QED
      BY <2>1, OnlyAt DEF Alike
  <1>2. CallReq' = [CallReq EXCEPT ![t] = CallReq'[t]]
    <2>1. CallReq = [u \in Threads |-> CallReq[u]] /\ CallReq' = [u \in Threads |-> CallReq'[u]]
      BY DEF CallReq
    <2> QED
      BY <2>1, OnlyAt DEF Alike
  <1>3. CallReply' = [CallReply EXCEPT ![t] = CallReply'[t]]
    <2>1. CallReply = [u \in Threads |-> CallReply[u]] /\ CallReply' = [u \in Threads |-> CallReply'[u]]
      BY DEF CallReply
    <2> QED
      BY <2>1, OnlyAt DEF Alike
  <1>4. LateCalls' = [LateCalls EXCEPT ![t] = LateCalls'[t]]
    <2>1. LateCalls = [u \in Threads |-> LateCalls[u]] /\ LateCalls' = [u \in Threads |-> LateCalls'[u]]
      BY DEF LateCalls
    <2> QED
      BY <2>1, OnlyAt DEF Alike
  <1>5. Threw' \ {t} = Threw \ {t}
    <2>1. Threw \subseteq Threads /\ Threw' \subseteq Threads
      BY DEF Threw
    <2> QED
      BY <2>1 DEF Alike
  <1> QED
    BY <1>1, <1>2, <1>3, <1>4, <1>5

\* What t sees as before, everybody does.
LEMMA Stays ==
  ASSUME NEW t \in Threads, \A u \in Threads \ {t} : Alike(u)
  PROVE  /\ CallPhase'[t] = CallPhase[t] => CallPhase' = CallPhase
         /\ CallReq'[t] = CallReq[t] => CallReq' = CallReq
         /\ CallReply'[t] = CallReply[t] => CallReply' = CallReply
         /\ LateCalls'[t] = LateCalls[t] => LateCalls' = LateCalls
         /\ (t \in Threw' <=> t \in Threw) => Threw' = Threw
  <1>1. CallPhase'[t] = CallPhase[t] => CallPhase' = CallPhase
    <2>1. CallPhase = [u \in Threads |-> CallPhase[u]] /\ CallPhase' = [u \in Threads |-> CallPhase'[u]]
      BY DEF CallPhase
    <2> QED
      BY <2>1, OnlyAt DEF Alike
  <1>2. CallReq'[t] = CallReq[t] => CallReq' = CallReq
    <2>1. CallReq = [u \in Threads |-> CallReq[u]] /\ CallReq' = [u \in Threads |-> CallReq'[u]]
      BY DEF CallReq
    <2> QED
      BY <2>1, OnlyAt DEF Alike
  <1>3. CallReply'[t] = CallReply[t] => CallReply' = CallReply
    <2>1. CallReply = [u \in Threads |-> CallReply[u]] /\ CallReply' = [u \in Threads |-> CallReply'[u]]
      BY DEF CallReply
    <2> QED
      BY <2>1, OnlyAt DEF Alike
  <1>4. LateCalls'[t] = LateCalls[t] => LateCalls' = LateCalls
    <2>1. LateCalls = [u \in Threads |-> LateCalls[u]] /\ LateCalls' = [u \in Threads |-> LateCalls'[u]]
      BY DEF LateCalls
    <2> QED
      BY <2>1, OnlyAt DEF Alike
  <1>5. (t \in Threw' <=> t \in Threw) => Threw' = Threw
    <2>1. Threw' \ {t} = Threw \ {t}
      BY Mapped
    <2> QED
      BY <2>1
  <1> QED
    BY <1>1, <1>2, <1>3, <1>4, <1>5

LEMMA Silent ==
  ASSUME \A u \in Threads : Alike(u), UNCHANGED <<content, res>>
  PROVE  UNCHANGED (Calls1!callVars)
  <1>1. CASE Threads = {}
    BY <1>1 DEF Calls1!callVars, Calls1!vars, CallPhase, CallReq, CallReply, LateCalls, Threw
  <1>2. CASE Threads # {}
    <2>1. PICK t \in Threads : TRUE
      BY <1>2
    <2>2. UNCHANGED <<CallPhase, CallReq, CallReply, LateCalls, Threw>>
      BY <2>1, Stays DEF Alike
    <2> QED
      BY <2>2 DEF Calls1!callVars, Calls1!vars
  <1> QED
    BY <1>1, <1>2
-----------------------------------------------------------------------------
(***************************************************************************)
(* The steps of a thread.                                                  *)
(***************************************************************************)
\* What a step of t changes on the connection concerns t alone.
LEMMA ThreadServed ==
  ASSUME ClientInv, TruthInv, NEW t \in Threads, Invoke(t) \/ Step(t)
  PROVE  /\ UNCHANGED <<content, served>>
         /\ \A m : m.seqid # seqid[t] => (m \in InCalls(Shared)' <=> m \in InCalls(Shared))
         /\ ~Send(t) => InCalls(Shared)' = InCalls(Shared)
  <1>0. RpcTypeOK /\ Shared \in Clients
    BY ConcurrentAssumption DEF ClientInv, TypeOK
  <1>1. CASE Send(t)
    <2>1. PICK call : call = CallMessage(req[t], seqid[t])
      OBVIOUS
    <2>2. /\ UNCHANGED <<content, served>>
          /\ calls'[Shared] \in {calls[Shared], Append(calls[Shared], call)}
          /\ call \in Calls /\ call.seqid = seqid[t]
      BY <1>1, <2>1, SendKeepsServed, MessagesTyped DEF CallMessage
    <2>3. calls[Shared] \in Seq(Calls)
      BY <1>0 DEF RpcTypeOK
    <2>4. Range(Append(calls[Shared], call)) = Range(calls[Shared]) \cup {call}
      BY <2>2, <2>3, AppendRange
    <2> QED
      BY <1>1, <2>2, <2>4 DEF InCalls
  <1>2. CASE Receive(t)
    <2>1. UNCHANGED <<content, served, calls>>
      BY <1>2 DEF Receive, ReceiveRest, RecvReply
    <2>2. InCalls(Shared)' = InCalls(Shared)
      BY <2>1 DEF InCalls
    <2> QED
      BY <2>1, <2>2
  <1>3. CASE ~Send(t) /\ ~Receive(t)
    <2>1. UNCHANGED rpcVars
      BY <1>3, OtherwiseQuiet
    <2>2. UNCHANGED <<content, served, calls>>
      BY <2>1 DEF rpcVars
    <2>3. InCalls(Shared)' = InCalls(Shared)
      BY <2>2 DEF InCalls
    <2> QED
      BY <2>2, <2>3
  <1> QED
    BY <1>1, <1>2, <1>3

LEMMA OthersAlike ==
  ASSUME ClientInv, TruthInv, NEW t \in Threads, Invoke(t) \/ Step(t), NEW u \in Threads \ {t}
  PROVE  Alike(u)
  <1>1. /\ Calling(u)' <=> Calling(u)
        /\ Numbered(u)' <=> Numbered(u)
        /\ pc'[u] = "threw" <=> pc[u] = "threw"
        /\ seqid'[u] = seqid[u] /\ req'[u] = req[u]
    BY OthersAs
  <1>2. CallReply'[u] = CallReply[u]
    BY <1>1, ThreadServed, Seen, SeenNext
  <1>3. Left(u)' = Left(u)
    <2>1. CASE Send(t)
      <3>1. seqid[u] # seqid[t]
        BY <2>1, SendKeepsServed, SentId DEF Numbered, Calling, InCall
      <3>2. ASSUME NEW m, m.seqid = seqid[u] PROVE m \in InCalls(Shared)' <=> m \in InCalls(Shared)
        BY <3>1, <3>2, ThreadServed
      <3> QED
        BY <1>1, <3>2 DEF Left
    <2>2. CASE ~Send(t)
      BY <1>1, <2>2, ThreadServed DEF Left
    <2> QED
      BY <2>1, <2>2
  <1>4. LateCalls'[u] = LateCalls[u]
    <2>1. CASE Numbered(u)
      BY <1>1, <2>1, Seen, SeenNext
    <2>2. CASE ~Numbered(u)
      <3>1. {Args(m) : m \in Left(u)'} = {Args(m) : m \in Left(u)}
        BY <1>3
      <3> QED
        BY <1>1, <2>2, <3>1, Seen, SeenNext
    <2> QED
      BY <2>1, <2>2
  <1>5. u \in Threw' <=> u \in Threw
    BY <1>1, Seen, SeenNext
  <1>6. CallPhase'[u] = CallPhase[u] /\ CallReq'[u] = CallReq[u]
    <2>1. CASE Calling(u)
      BY <1>1, <1>2, <2>1, Seen, SeenNext
    <2>2. CASE ~Calling(u)
      BY <1>1, <2>2, Seen, SeenNext
    <2> QED
      BY <2>1, <2>2
  <1> QED
    BY <1>2, <1>4, <1>5, <1>6 DEF Alike

\* As long as the client is in order, no call was given up.
LEMMA NothingLeft ==
  ASSUME ClientInv, NEW t \in Threads, ~stop_, ~Numbered(t)
  PROVE  Left(t) = {}
  <1>1. ASSUME NEW m \in Left(t) PROVE FALSE
    <2>1. m \in InFlight(Shared) /\ m.seqid = seqid[t]
      BY <1>1 DEF Left, InFlight
    <2>2. PICK u \in Threads : Sent(u) /\ seqid[u] = seqid[t]
      BY <2>1 DEF ClientInv, InOrder, Answerable
    <2>3. u = t
      BY <2>2, SentId DEF Sent
    <2> QED
      BY <2>2, <2>3 DEF Sent
  <1> QED
    BY <1>1

LEMMA NothingLate ==
  ASSUME ClientInv, NEW t \in Threads, ~stop_, ~Numbered(t)
  PROVE  LateCalls[t] = {}
  <1>1. {Args(m) : m \in Left(t)} = {}
    BY NothingLeft
  <1> QED
    BY <1>1, Seen

LEMMA InvokeBegins ==
  ASSUME ClientInv, TruthInv, NEW t \in Threads, Invoke(t)
  PROVE  Calls1!Begin(t)
  <1>0. TypeOK
    BY DEF ClientInv
  <1>1. \A u \in Threads \ {t} : Alike(u)
    BY OthersAlike
  <1>2. PICK r \in Workload[t] : req' = [req EXCEPT ![t] = r]
    BY DEF Invoke
  <1>3. r \in Requests
    BY ConcurrentAssumption
  <1>4. /\ pc[t] \in {"idle", "threw"} /\ pc'[t] = "called"
        /\ req'[t] = r
        /\ UNCHANGED <<seqid, content, res, calls>>
    BY <1>0, <1>2, Path DEF Invoke, TypeOK, rpcVars
  <1>5. ~Calling(t) /\ ~Numbered(t) /\ Calling(t)' /\ ~Numbered(t)'
    BY <1>4 DEF Calling, Numbered, InCall
  <1>6. Left(t)' = Left(t)
    BY <1>4 DEF Left, InCalls
  <1>7. LateCalls'[t] = LateCalls[t]
    <2>1. {Args(m) : m \in Left(t)'} = {Args(m) : m \in Left(t)}
      BY <1>6
    <2>2. LateCalls[t] = {Args(m) : m \in Left(t)}
      BY <1>5, Seen
    <2>3. LateCalls'[t] = {Args(m) : m \in Left(t)'}
      BY <1>5, SeenNext
    <2> QED
      BY <2>1, <2>2, <2>3
  <1>8. /\ CallPhase[t] = "idle" /\ CallPhase'[t] = "invoked"
        /\ CallReq'[t] = r
        /\ CallReply'[t] = CallReply[t]
        /\ t \notin Threw'
    BY <1>4, <1>5, Seen, SeenNext
  <1>9. /\ CallPhase' = [CallPhase EXCEPT ![t] = "invoked"]
        /\ CallReq' = [CallReq EXCEPT ![t] = r]
        /\ UNCHANGED <<CallReply, LateCalls>>
        /\ Threw' = Threw \ {t}
    BY <1>1, <1>7, <1>8, Mapped, Stays
  <1>10. Calls1!Invoke(t, r)
    BY <1>4, <1>8, <1>9 DEF Calls1!Invoke
  <1> QED
    BY <1>3, <1>4, <1>9, <1>10, SameData DEF Calls1!Begin

\* A call that a thread gives up is lost, has been executed, or stays on its
\* way.
LEMMA GivesUp ==
  ASSUME ClientInv, TruthInv, NEW t \in Threads, Step(t), Calling(t), pc'[t] = "threw",
         UNCHANGED res, LateCalls'[t] = LateCalls[t] \/ LateCalls'[t] = {Args(m) : m \in Left(t)}
  PROVE  Calls1!Throw(t)
  <1>1. \A u \in Threads \ {t} : Alike(u)
    BY OthersAlike
  <1>2. UNCHANGED content
    BY ThreadServed
  <1>3. ~Calling(t)' /\ ~Numbered(t)'
    BY DEF Calling, Numbered, InCall
  <1>4. /\ CallPhase[t] # "idle" /\ CallPhase'[t] = "idle"
        /\ CallReq[t] = req[t] /\ CallReq'[t] = NoRequest
        /\ CallReply'[t] = NoReply /\ t \in Threw'
    BY <1>3, Seen, SeenNext
  <1>5. /\ CallPhase' = [CallPhase EXCEPT ![t] = "idle"]
        /\ CallReq' = [CallReq EXCEPT ![t] = NoRequest]
        /\ CallReply' = [CallReply EXCEPT ![t] = NoReply]
    BY <1>1, <1>4, Mapped
  <1>6. Threw' = Threw \cup {t}
    <2>1. Threw' \ {t} = Threw \ {t}
      BY <1>1, Mapped
    <2> QED
      BY <1>4, <2>1
  <1>7. \/ LateCalls' = LateCalls
        \/ CallPhase[t] = "invoked" /\ LateCalls' = [LateCalls EXCEPT ![t] = @ \cup {CallReq[t]}]
    <2>1. CASE LateCalls'[t] = LateCalls[t]
      BY <1>1, <2>1, Stays
    <2>2. CASE LateCalls'[t] # LateCalls[t]
      <3>0. LateCalls'[t] = {Args(m) : m \in Left(t)}
        BY <2>2
      <3>1. Numbered(t) /\ LateCalls[t] = {}
        BY <2>2, <3>0, Seen
      <3>2. req[t] \in Requests
        BY DEF ClientInv, Bounded
      <3>3. ASSUME NEW m \in Left(t) PROVE Args(m) = req[t] /\ served[Shared][seqid[t]] = NoReply
        <4>1. CallTrue(m) /\ m.seqid = seqid[t]
          BY <3>3 DEF Left, TruthInv
        <4>2. m = CallMessage(req[t], seqid[t]) /\ served[Shared][seqid[t]] = NoReply
          BY <3>1, <4>1 DEF CallTrue
        <4> QED
          BY <3>2, <4>2, CallArrives
      <3>4. Left(t) # {}
        BY <2>2, <3>0, <3>1
      <3>5. {Args(m) : m \in Left(t)} = {req[t]}
        BY <3>3, <3>4
      <3>6. CallPhase[t] = "invoked"
        BY <3>1, <3>3, <3>4, Seen
      <3>7. LateCalls'[t] = LateCalls[t] \cup {CallReq[t]}
        BY <1>4, <3>0, <3>1, <3>5
      <3> QED
        BY <1>1, <3>6, <3>7, Mapped
    <2> QED
      BY <2>1, <2>2
  <1> QED
    BY <1>2, <1>4, <1>5, <1>6, <1>7, SameData DEF Calls1!Throw

LEMMA FailureThrows ==
  ASSUME ClientInv, TruthInv, NEW t \in Threads,
         (GenerateSeqId(t) /\ stop_) \/ SendFails(t) \/ Dead(t) \/ ReadFails(t)
  PROVE  Calls1!Throw(t)
  <1>0. TypeOK /\ Step(t)
    BY DEF ClientInv, Step
  <1>1. pc[t] \in {"called", "send", "loop", "check", "read", "match"} /\ pc'[t] = "threw"
    BY <1>0, Path
  <1>2. Calling(t) /\ ~Numbered(t)'
    BY <1>1 DEF Calling, Numbered, InCall
  <1>3. UNCHANGED <<rpcVars, res>>
    BY DEF GenerateSeqId, SendFails, Dead, ReadFails, Fails
  <1>4. UNCHANGED seqid
    BY DEF GenerateSeqId, SendFails, Dead, ReadFails, Fails
  <1>5. Left(t)' = Left(t)
    BY <1>3, <1>4 DEF rpcVars, Left, InCalls
  <1>6. LateCalls'[t] = {Args(m) : m \in Left(t)}
    BY <1>2, <1>5, SeenNext
  <1> QED
    BY <1>0, <1>1, <1>2, <1>3, <1>6, GivesUp

LEMMA ReceiveDelivers ==
  ASSUME ClientInv, TruthInv, NEW t \in Threads, Receive(t)
  PROVE  Calls1!Deliver(t) \/ Calls1!Throw(t)
  <1>0. Step(t) /\ \A u \in Threads \ {t} : Alike(u)
    BY OthersAlike DEF Step
  <1>1. PICK a : a = served[Shared][seqid[t]]
    OBVIOUS
  <1>2. /\ Numbered(t) /\ Calling(t) /\ a \in Replies
        /\ \A m \in InFlight(Shared)' : m.seqid # seqid[t]
    BY <1>1, OwnAnswer DEF Numbered
  <1>3. UNCHANGED <<seqid, content>>
    BY OtherwiseNumbered, ThreadServed, Path, <1>0, OwnAnswer DEF ClientInv, GenerateSeqId, At
  <1>4. Left(t)' = {}
    BY <1>2, <1>3 DEF Left, InFlight
  <1>5. a # NoReply
    BY <1>2 DEF Replies, Result, NoReply, Exception, Reply
  <1>6. CASE a.mtype = "T_REPLY"
    <2>1. pc'[t] = "idle" /\ res' = [res EXCEPT ![t] = a.result]
      BY <1>1, <1>6, ReceiveOrderly
    <2>2. ~Calling(t)' /\ ~Numbered(t)'
      BY <2>1 DEF Calling, Numbered, InCall
    <2>3. LateCalls[t] = {} /\ LateCalls'[t] = {}
      BY <1>2, <1>4, <2>2, Seen, SeenNext
    <2>4. /\ CallPhase[t] = "done" /\ CallPhase'[t] = "idle"
          /\ CallReq'[t] = NoRequest
          /\ CallReply[t] = a /\ CallReply'[t] = NoReply
          /\ t \notin Threw /\ t \notin Threw'
      BY <1>1, <1>2, <1>5, <2>1, <2>2, Seen, SeenNext DEF Calling, InCall
    <2>5. /\ CallPhase' = [CallPhase EXCEPT ![t] = "idle"]
          /\ CallReq' = [CallReq EXCEPT ![t] = NoRequest]
          /\ CallReply' = [CallReply EXCEPT ![t] = NoReply]
          /\ LateCalls' = LateCalls
          /\ Threw' = Threw
      BY <1>0, <2>3, <2>4, Mapped, Stays
    <2>6. Calls1!Return(t)
      BY <1>3, <2>4, <2>5, SameData DEF Calls1!Return
    <2>7. Calls1!Deliver(t)
      BY <1>6, <2>1, <2>4, <2>5, <2>6 DEF Calls1!Deliver
    <2> QED
      BY <2>7
  <1>7. CASE a.mtype # "T_REPLY"
    <2>1. pc'[t] = "threw" /\ res' = res
      BY <1>1, <1>7, ReceiveOrderly
    <2>2. ~Numbered(t)'
      BY <2>1 DEF Calling, Numbered, InCall
    <2>3. LateCalls[t] = {} /\ LateCalls'[t] = {}
      BY <1>2, <1>4, <2>2, Seen, SeenNext
    <2>4. Calls1!Throw(t)
      BY <1>0, <1>2, <2>1, <2>3, GivesUp
    <2> QED
      BY <2>4
  <1> QED
    BY <1>6, <1>7

LEMMA OtherSilent ==
  ASSUME ClientInv, TruthInv, NEW t \in Threads, Step(t),
         ~(GenerateSeqId(t) /\ stop_), ~SendFails(t), ~Dead(t), ~ReadFails(t), ~Receive(t)
  PROVE  UNCHANGED (Calls1!callVars)
  <1>0. TypeOK
    BY DEF ClientInv
  <1>1. UNCHANGED <<req, res, content>>
    <2>1. UNCHANGED res
      BY DEF Step, GenerateSeqId, Send, Lock, TakePending, NothingPending, ReadHeader,
             HandOver, HandOverLeaving, CheckWork, Sleep
    <2> QED
      BY <2>1, OwnCall, ThreadServed
  <1>2. Calling(t) /\ Calling(t)'
    <2>1. CASE GenerateSeqId(t)
      BY <1>0, <2>1, Path DEF Calling, InCall
    <2>2. CASE ~GenerateSeqId(t)
      BY <1>0, <2>2, Path DEF Step, Calling, InCall
    <2> QED
      BY <2>1, <2>2
  <1>3. Numbered(t)' /\ pc'[t] # "threw" /\ pc[t] # "threw"
    <2>1. pc'[t] # "called"
      BY <1>0, Path DEF Step
    <2> QED
      BY <1>2, <2>1 DEF Numbered, Calling, InCall
  <1>4. CallReply'[t] = CallReply[t] /\ LateCalls'[t] = LateCalls[t]
    <2>1. CASE GenerateSeqId(t)
      <3>1. ~stop_ /\ pc[t] = "called" /\ seqid'[t] = nextseqid_ /\ nextseqid_ \in SeqIds
        BY <1>0, <2>1, Path, IdInBound DEF GenerateSeqId, TypeOK
      <3>2. ~Numbered(t)
        BY <3>1 DEF Numbered
      <3>3. served[Shared][nextseqid_] = NoReply
        BY <1>0, <3>1, ConcurrentAssumption DEF TruthInv, Unserved, TypeOK
      <3>4. served' = served
        BY ThreadServed
      <3>5. CallReply[t] = NoReply /\ CallReply'[t] = NoReply /\ LateCalls'[t] = {}
        BY <1>3, <3>1, <3>2, <3>3, <3>4, Seen, SeenNext
      <3>6. LateCalls[t] = {}
        BY <3>1, <3>2, NothingLate
      <3> QED
        BY <3>5, <3>6
    <2>2. CASE ~GenerateSeqId(t)
      <3>1. Numbered(t)
        BY <1>3, <2>2, OwnCall
      <3>2. UNCHANGED <<seqid, served>>
        BY <2>2, OtherwiseNumbered, ThreadServed
      <3> QED
        BY <1>3, <3>1, <3>2, Seen, SeenNext
    <2> QED
      BY <2>1, <2>2
  <1>5. Alike(t)
    BY <1>1, <1>2, <1>3, <1>4, Seen, SeenNext DEF Alike
  <1>6. \A u \in Threads : Alike(u)
    BY <1>5, OthersAlike
  <1> QED
    BY <1>1, <1>6, Silent
-----------------------------------------------------------------------------
(***************************************************************************)
(* The steps of the server and of the connection.                          *)
(***************************************************************************)
LEMMA ConnectionSilent ==
  ASSUME ClientInv, TruthInv, UNCHANGED <<threadVars, syncVars>>,
         \/ Open(Shared) \/ WriteReply(Shared) \/ Disconnected(Shared) \/ Break(Shared)
         \/ UNCHANGED rpcVars
  PROVE  UNCHANGED (Calls1!callVars)
  <1>1. /\ UNCHANGED <<served, content, pc, req, seqid, res>>
        /\ InCalls(Shared)' \subseteq InCalls(Shared)
        /\ InCalls(Shared)' = InCalls(Shared) \/ ~stop_
    BY QuietTruth DEF threadVars
  <1>2. ASSUME NEW u \in Threads PROVE Alike(u)
    <2>1. (Calling(u)' <=> Calling(u)) /\ (Numbered(u)' <=> Numbered(u))
      BY <1>1 DEF Calling, Numbered
    <2>2. CallReply'[u] = CallReply[u]
      BY <1>1, <2>1, Seen, SeenNext
    <2>3. LateCalls'[u] = LateCalls[u]
      <3>1. CASE Numbered(u)
        BY <2>1, <3>1, Seen, SeenNext
      <3>2. CASE ~Numbered(u)
        <4>1. Left(u)' = Left(u)
          <5>1. Left(u)' \subseteq Left(u)
            BY <1>1 DEF Left
          <5>2. ~stop_ => Left(u) = {}
            BY <3>2, NothingLeft
          <5>3. InCalls(Shared)' = InCalls(Shared) => Left(u)' = Left(u)
            BY <1>1 DEF Left
          <5> QED
            BY <1>1, <5>1, <5>2, <5>3
        <4>2. {Args(m) : m \in Left(u)'} = {Args(m) : m \in Left(u)}
          BY <4>1
        <4>3. LateCalls[u] = {Args(m) : m \in Left(u)}
          BY <3>2, Seen
        <4>4. LateCalls'[u] = {Args(m) : m \in Left(u)'}
          BY <2>1, <3>2, SeenNext
        <4> QED
          BY <4>2, <4>3, <4>4
      <3> QED
        BY <3>1, <3>2
    <2>4. u \in Threw' <=> u \in Threw
      BY <1>1, Seen, SeenNext
    <2>5. CallPhase'[u] = CallPhase[u] /\ CallReq'[u] = CallReq[u]
      BY <1>1, <2>1, <2>2, Seen, SeenNext
    <2> QED
      BY <2>2, <2>3, <2>4, <2>5 DEF Alike
  <1> QED
    BY <1>1, <1>2, Silent

\* The handler runs for a thread that waits, or for one that gave its call up.
LEMMA ProcessExecutes ==
  ASSUME ClientInv, TruthInv, Process(Shared), UNCHANGED <<threadVars, syncVars>>
  PROVE  \E t \in Threads : Calls1!Execute(t) \/ Calls1!ExecuteLate(t)
  <1>0. TypeOK /\ RpcTypeOK /\ OnePlace(Shared) /\ Shared \in Clients
    BY ConcurrentAssumption DEF ClientInv, TypeOK, Placed
  <1>1. PICK m : m = Head(calls[Shared])
    OBVIOUS
  <1>2. calls[Shared] # <<>> /\ calls'[Shared] = Tail(calls[Shared])
    BY <1>0 DEF RpcTypeOK, Process, ProcessTaking
  <1>3. calls[Shared] \in Seq(Calls)
    BY <1>0 DEF RpcTypeOK
  <1>4. /\ m \in Calls /\ InCalls(Shared) = InCalls(Shared)' \cup {m}
        /\ \A n \in InCalls(Shared)' : n.seqid # m.seqid
    BY <1>0, <1>1, <1>2, <1>3, TakeMessage DEF OnePlace, InCalls
  <1>5. PICK r : r = Args(m)
    OBVIOUS
  <1>6. m.seqid \in SeqIds /\ r \in Requests
    BY <1>4, <1>5, CallTyped
  <1>7. PICK a \in Outcomes(r) :
          /\ content' = IF a = Reply(Answer(r, content)) THEN Effect(r, content) ELSE content
          /\ served' = [served EXCEPT ![Shared][m.seqid] = a]
    BY <1>1, <1>5 DEF Process, ProcessTaking
  <1>8. /\ served'[Shared][m.seqid] = a
        /\ \A i \in SeqIds : i # m.seqid => served'[Shared][i] = served[Shared][i]
    BY <1>0, <1>6, <1>7 DEF RpcTypeOK
  <1>9. /\ a = Reply(Answer(r, content)) \/ (MayFail /\ a \in FailureAnswers(r))
        /\ a # NoReply
    <2>1. a = Reply(Answer(r, content)) \/ (MayFail /\ a \in FailureAnswers(r))
      BY <1>7 DEF Outcomes
    <2>2. content \in [Keys -> Strings]
      BY <1>0 DEF RpcTypeOK
    <2>3. Reply(Answer(r, content)) \in Replies /\ FailureAnswers(r) \subseteq Replies
          /\ NoReply \notin Replies
      BY <1>6, <2>2, AnswersTyped
    <2> QED
      BY <2>1, <2>3
  <1>10. UNCHANGED <<pc, req, seqid, res>>
    BY DEF threadVars
  <1>11. CallTrue(m)
    BY <1>4 DEF TruthInv
  <1>12. PICK t \in Threads : seqid[t] = m.seqid
    BY <1>11 DEF CallTrue
  <1>13. ASSUME NEW u \in Threads PROVE (Calling(u)' <=> Calling(u)) /\ (Numbered(u)' <=> Numbered(u))
    BY <1>10 DEF Calling, Numbered
  <1>14. ASSUME NEW u \in Threads \ {t} PROVE Alike(u)
    <2>1. seqid[u] # m.seqid
      BY <1>6, <1>12 DEF ClientInv, Ids
    <2>2. Numbered(u) => seqid[u] \in SeqIds
      BY SentId
    <2>3. CallReply'[u] = CallReply[u]
      BY <1>8, <1>10, <1>13, <2>1, <2>2, Seen, SeenNext
    <2>4. Left(u)' = Left(u)
      BY <1>4, <1>10, <2>1 DEF Left
    <2>5. LateCalls'[u] = LateCalls[u]
      <3>1. CASE Numbered(u)
        BY <1>13, <3>1, Seen, SeenNext
      <3>2. CASE ~Numbered(u)
        <4>1. {Args(n) : n \in Left(u)'} = {Args(n) : n \in Left(u)}
          BY <2>4
        <4>2. LateCalls[u] = {Args(n) : n \in Left(u)}
          BY <3>2, Seen
        <4>3. LateCalls'[u] = {Args(n) : n \in Left(u)'}
          BY <1>13, <3>2, SeenNext
        <4> QED
          BY <4>1, <4>2, <4>3
      <3> QED
        BY <3>1, <3>2
    <2>6. u \in Threw' <=> u \in Threw
      BY <1>10, Seen, SeenNext
    <2>7. CallPhase'[u] = CallPhase[u] /\ CallReq'[u] = CallReq[u]
      BY <1>10, <1>13, <2>3, Seen, SeenNext
    <2> QED
      BY <2>3, <2>5, <2>6, <2>7 DEF Alike
  <1>15. Threw' = Threw
    <2>1. t \in Threw' <=> t \in Threw
      BY <1>10, Seen, SeenNext
    <2> QED
      BY <1>14, <2>1, Stays
  <1>16. CASE Numbered(t)
    <2>1. r = req[t] /\ Calling(t)
      <3>1. m = CallMessage(req[t], m.seqid)
        BY <1>11, <1>12, <1>16 DEF CallTrue
      <3>2. req[t] \in Requests
        BY <1>16 DEF ClientInv, Bounded, Numbered
      <3> QED
        BY <1>5, <1>16, <3>1, <3>2, CallArrives DEF Numbered
    <2>2. served[Shared][seqid[t]] = NoReply
      BY <1>11, <1>12 DEF CallTrue
    <2>3. /\ CallReply[t] = NoReply /\ CallReply'[t] = a
          /\ LateCalls[t] = {} /\ LateCalls'[t] = {}
      BY <1>8, <1>10, <1>12, <1>13, <1>16, <2>2, Seen, SeenNext
    <2>4. /\ CallPhase[t] = "invoked" /\ CallPhase'[t] = "done"
          /\ CallReq[t] = r /\ CallReq'[t] = r
      BY <1>9, <1>10, <1>13, <2>1, <2>3, Seen, SeenNext
    <2>5. /\ CallPhase' = [CallPhase EXCEPT ![t] = "done"]
          /\ CallReply' = [CallReply EXCEPT ![t] = a]
          /\ UNCHANGED <<CallReq, LateCalls>>
      BY <1>14, <2>3, <2>4, Mapped, Stays
    <2>6. CASE a = Reply(Answer(r, content))
      <3>1. content' = Effect(r, content)
        BY <1>7, <2>6
      <3>2. Calls1!Perform(t)
        BY <2>4, <2>5, <2>6, <3>1, SameData DEF Calls1!Perform
      <3>3. Calls1!Execute(t)
        BY <1>10, <1>15, <2>5, <3>2 DEF Calls1!Execute
      <3> QED
        BY <3>3
    <2>7. CASE a # Reply(Answer(r, content))
      <3>1. content' = content /\ MayFail /\ a \in FailureAnswers(r)
        BY <1>7, <1>9, <2>7
      <3>2. Calls1!Fail(t)
        BY <2>4, <2>5, <3>1, SameData DEF Calls1!Fail
      <3>3. Calls1!Execute(t)
        BY <1>10, <1>15, <2>5, <3>2 DEF Calls1!Execute
      <3> QED
        BY <3>3
    <2> QED
      BY <2>6, <2>7
  <1>17. CASE ~Numbered(t)
    <2>1. Left(t) = {m} /\ Left(t)' = {}
      BY <1>4, <1>10, <1>12 DEF Left
    <2>2. LateCalls[t] = {r}
      <3>1. {Args(n) : n \in Left(t)} = {r}
        BY <1>5, <2>1
      <3> QED
        BY <1>17, <3>1, Seen
    <2>3. LateCalls'[t] = {}
      <3>1. {Args(n) : n \in Left(t)'} = {}
        BY <2>1
      <3> QED
        BY <1>13, <1>17, <3>1, SeenNext
    <2>4. LateCalls' = [LateCalls EXCEPT ![t] = @ \ {r}]
      <3>1. LateCalls'[t] = LateCalls[t] \ {r}
        BY <2>2, <2>3
      <3> QED
        BY <1>14, <3>1, Mapped
    <2>5. /\ CallReply'[t] = CallReply[t] /\ CallPhase'[t] = CallPhase[t]
          /\ CallReq'[t] = CallReq[t]
      BY <1>10, <1>13, <1>17, Seen, SeenNext
    <2>6. UNCHANGED <<CallPhase, CallReq, CallReply>>
      BY <1>14, <2>5, Stays
    <2>7. content' \in {content, Effect(r, content)}
      BY <1>7
    <2>8. Calls1!ExecuteLate(t)
      BY <1>10, <1>15, <2>2, <2>4, <2>6, <2>7, SameData DEF Calls1!ExecuteLate
    <2> QED
      BY <2>8
  <1> QED
    BY <1>16, <1>17

\* A call that is never answered: a thread that waits for it sees nothing, and
\* one that a thread gave up is lost.
LEMMA BlockLoses ==
  ASSUME ClientInv, TruthInv, Block(Shared), UNCHANGED <<threadVars, syncVars>>
  PROVE  UNCHANGED (Calls1!callVars) \/ \E t \in Threads : Calls1!ExecuteLate(t)
  <1>0. TypeOK /\ RpcTypeOK /\ OnePlace(Shared) /\ Shared \in Clients
    BY ConcurrentAssumption DEF ClientInv, TypeOK, Placed
  <1>1. PICK m : m = Head(calls[Shared])
    OBVIOUS
  <1>2. calls[Shared] # <<>> /\ calls'[Shared] = Tail(calls[Shared])
    BY <1>0 DEF RpcTypeOK, Block
  <1>3. calls[Shared] \in Seq(Calls)
    BY <1>0 DEF RpcTypeOK
  <1>4. /\ m \in Calls /\ InCalls(Shared) = InCalls(Shared)' \cup {m}
        /\ \A n \in InCalls(Shared)' : n.seqid # m.seqid
    BY <1>0, <1>1, <1>2, <1>3, TakeMessage DEF OnePlace, InCalls
  <1>5. PICK r : r = Args(m)
    OBVIOUS
  <1>6. UNCHANGED <<content, served, pc, req, seqid, res>>
    BY DEF Block, threadVars
  <1>7. PICK t \in Threads : seqid[t] = m.seqid
    BY <1>4 DEF TruthInv, CallTrue
  <1>8. ASSUME NEW u \in Threads
        PROVE  /\ (Calling(u)' <=> Calling(u)) /\ (Numbered(u)' <=> Numbered(u))
               /\ CallPhase'[u] = CallPhase[u] /\ CallReq'[u] = CallReq[u]
               /\ CallReply'[u] = CallReply[u] /\ (u \in Threw' <=> u \in Threw)
    <2>1. (Calling(u)' <=> Calling(u)) /\ (Numbered(u)' <=> Numbered(u))
      BY <1>6 DEF Calling, Numbered
    <2>2. CallReply'[u] = CallReply[u]
      BY <1>6, <2>1, Seen, SeenNext
    <2>3. u \in Threw' <=> u \in Threw
      BY <1>6, Seen, SeenNext
    <2> QED
      BY <1>6, <2>1, <2>2, <2>3, Seen, SeenNext
  <1>9. ASSUME NEW u \in Threads, u # t \/ Numbered(t) PROVE LateCalls'[u] = LateCalls[u]
    <2>1. CASE Numbered(u)
      BY <1>8, <2>1, Seen, SeenNext
    <2>2. CASE ~Numbered(u)
      <3>1. seqid[u] # m.seqid
        BY <1>4, <1>7, <1>9, <2>2, CallTyped DEF ClientInv, Ids
      <3>2. Left(u)' = Left(u)
        BY <1>4, <1>6, <3>1 DEF Left
      <3>3. {Args(n) : n \in Left(u)'} = {Args(n) : n \in Left(u)}
        BY <3>2
      <3>4. LateCalls[u] = {Args(n) : n \in Left(u)}
        BY <2>2, Seen
      <3>5. LateCalls'[u] = {Args(n) : n \in Left(u)'}
        BY <1>8, <2>2, SeenNext
      <3> QED
        BY <3>3, <3>4, <3>5
    <2> QED
      BY <2>1, <2>2
  <1>10. \A u \in Threads \ {t} : Alike(u)
    BY <1>8, <1>9 DEF Alike
  <1>11. CASE Numbered(t)
    <2>1. Alike(t)
      BY <1>8, <1>9, <1>11 DEF Alike
    <2> QED
      BY <1>6, <1>10, <2>1, Silent
  <1>12. CASE ~Numbered(t)
    <2>1. Left(t) = {m} /\ Left(t)' = {}
      BY <1>4, <1>6, <1>7 DEF Left
    <2>2. LateCalls[t] = {r}
      <3>1. {Args(n) : n \in Left(t)} = {r}
        BY <1>5, <2>1
      <3> QED
        BY <1>12, <3>1, Seen
    <2>3. LateCalls'[t] = {}
      <3>1. {Args(n) : n \in Left(t)'} = {}
        BY <2>1
      <3> QED
        BY <1>8, <1>12, <3>1, SeenNext
    <2>4. LateCalls' = [LateCalls EXCEPT ![t] = @ \ {r}]
      <3>1. LateCalls'[t] = LateCalls[t] \ {r}
        BY <2>2, <2>3
      <3> QED
        BY <1>10, <3>1, Mapped
    <2>5. UNCHANGED <<CallPhase, CallReq, CallReply>> /\ Threw' = Threw
      BY <1>8, <1>10, Stays
    <2>6. Calls1!ExecuteLate(t)
      BY <1>6, <2>2, <2>4, <2>5 DEF Calls1!ExecuteLate
    <2> QED
      BY <2>6
  <1> QED
    BY <1>11, <1>12
-----------------------------------------------------------------------------
LEMMA RefinesStep ==
  ASSUME ClientInv, TruthInv, [Next]_vars
  PROVE  [Calls1!CallsNext]_(Calls1!callVars)
  <1>1. CASE UNCHANGED vars
    BY <1>1, ConnectionSilent DEF vars
  <1>2. CASE Connect \/ Server
    BY <1>2, ConnectionSilent, ProcessExecutes, BlockLoses DEF Connect, Server, ServerThread, Calls1!CallsNext
  <1>3. ASSUME NEW t \in Threads, Invoke(t) \/ Step(t)
        PROVE  [Calls1!CallsNext]_(Calls1!callVars)
    <2>1. CASE Invoke(t)
      BY <2>1, InvokeBegins DEF Calls1!CallsNext
    <2>2. CASE (GenerateSeqId(t) /\ stop_) \/ SendFails(t) \/ Dead(t) \/ ReadFails(t)
      BY <2>2, FailureThrows DEF Calls1!CallsNext
    <2>3. CASE Receive(t)
      BY <2>3, ReceiveDelivers DEF Calls1!CallsNext
    <2> QED
      BY <1>3, <2>1, <2>2, <2>3, OtherSilent
  <1> QED
    BY <1>1, <1>2, <1>3 DEF Next

\* At most once: each thread gets the answer to its own call, which took
\* effect exactly once, whichever thread read it; a call that throws took
\* effect once or not at all, and may still do so later.
THEOREM ThreadsCallAtMostOnce == Spec => AtMostOnce
  <1>1. ClientInv /\ TruthInv /\ [Next]_vars => [Calls1!CallsNext]_(Calls1!callVars)
    BY RefinesStep
  <1> QED
    BY <1>1, RefinesInit, ClientInvariant, MessagesTrue, PTL DEF Spec, AtMostOnce, Calls1!CallsSpec
=============================================================================
