----------------------- MODULE KVConcurrentClientProofs -----------------------
(***************************************************************************)
(* Proofs about KVConcurrentClient, for any set of threads, whatever they  *)
(* call and wherever the connection breaks.                                *)
(***************************************************************************)
EXTENDS KVConcurrentClient, KVRpcProofs, FiniteSetTheorems, WellFoundedInduction

\* The call of t is on its way, executed, answered or lost.
Sent(t) == Numbered(t) /\ pc[t] # "send"

Unnumbered == {t \in Threads : pc[t] = "called"}

\* The ids that are given out stay within the bound.
Bounded ==
  /\ IsFiniteSet(Unnumbered)
  /\ nextseqid_ + Cardinality(Unnumbered) <= MaxCalls
  /\ \A t \in Threads : Calling(t) => req[t] \in Requests
  /\ \A t \in Threads : Numbered(t) => seqid[t] \in SeqIds
  /\ srv[Shared] = "writing" => out[Shared] \in Messages

\* Who reads holds the read mutex.
Mutex == \A t \in Threads : pc[t] \in Holding <=> readMutex_ = t

\* An id is given to one call.
Ids ==
  /\ \A t \in Threads : seqid[t] \in SeqIds => seqid[t] < nextseqid_
  /\ \A t, u \in Threads : seqid[t] = seqid[u] /\ seqid[t] \in SeqIds => t = u

\* A message is in one place, and no call is on its way before it is sent.
Placed ==
  /\ OnePlace(Shared)
  /\ \A m \in InFlight(Shared) : m.seqid < nextseqid_
  /\ \A t \in Threads : pc[t] = "send" => \A m \in InFlight(Shared) : m.seqid # seqid[t]

\* The header in the hands of the thread at match.
Reading ==
  /\ conn[Shared] = "none" => replies[Shared] = <<>> /\ srv[Shared] = "none"
  /\ \A t \in Threads : pc[t] \in {"read", "match"} => seqidPending_ = NoSeqid
  /\ \A t \in Threads : pc[t] = "read" => ~headerRead
  /\ \A t \in Threads : pc[t] = "match" => headerRead /\ NextIs(Shared, rseqid)

\* As long as the client is in order:

Answerable ==
  /\ seqidToMonitorMap_ = {seqid[t] : t \in {u \in Threads : Numbered(u)}}
  /\ \A m \in InFlight(Shared) : \E t \in Threads : Sent(t) /\ m.seqid = seqid[t]

Pending ==
  /\ headerRead <=> seqidPending_ # NoSeqid \/ \E t \in Threads : pc[t] = "match"
  /\ seqidPending_ # NoSeqid =>
       /\ \E t \in Threads : Sent(t) /\ seqid[t] = seqidPending_
       /\ NextIs(Shared, seqidPending_)
  /\ \A t \in Threads : pc[t] = "match" => \E u \in Threads : Sent(u) /\ seqid[u] = rseqid

Wakeful ==
  /\ \A t \in Threads : Sent(t) /\ seqid[t] = seqidPending_ => pc[t] \in {"sent", "woken", "check", "loop"}
  /\ \A t \in Threads : pc[t] = "sleep" => seqidPending_ \notin {NoSeqid, seqid[t]}
  /\ (\E t \in Threads : pc[t] \in {"waiting", "woken", "check", "sleep"}) =>
       \/ \E t \in Threads : pc[t] \in {"loop", "read", "match"}
       \/ wakeupSomeone_
       \/ seqidPending_ # NoSeqid

InOrder == Answerable /\ Pending /\ Wakeful /\ SleepersWatched

ClientInv ==
  /\ TypeOK /\ Bounded
  /\ Mutex /\ Ids /\ Placed /\ Reading
  /\ ~stop_ => InOrder
-----------------------------------------------------------------------------
\* Whoever is woken by a step of t was waiting, and t goes to m.
Moved(t, m) ==
  /\ pc' \in [Threads -> Locations]
  /\ pc'[t] = m
  /\ \A u \in Threads \ {t} : pc'[u] = pc[u] \/ (pc[u] = "waiting" /\ pc'[u] = "woken")

LEMMA NotifyMoves ==
  ASSUME TypeOK, NEW t \in Threads, NEW m \in Locations, NEW ids, Notify(t, m, ids)
  PROVE  Moved(t, m)
  <1>2. \A u \in Threads : pc[u] \in Locations
    BY DEF TypeOK
  <1>3. pc' \in [Threads -> Locations]
    BY <1>2 DEF Notify, Locations
  <1>4. pc'[t] = m
    BY DEF Notify
  <1>5. ASSUME NEW u \in Threads \ {t} PROVE pc'[u] = pc[u] \/ (pc[u] = "waiting" /\ pc'[u] = "woken")
    BY DEF Notify
  <1> QED
    BY <1>3, <1>4, <1>5 DEF Moved

LEMMA AtMoves ==
  ASSUME TypeOK, NEW t \in Threads, NEW l, NEW m \in Locations, At(t, l, m)
  PROVE  Moved(t, m) /\ pc[t] = l
  BY DEF TypeOK, At, Moved

LEMMA LeaveChanges ==
  ASSUME NEW t \in Threads, NEW m, NEW committed, Leave(t, m, committed)
  PROVE  /\ seqidToMonitorMap_' = seqidToMonitorMap_ \ {seqid[t]}
         /\ readMutex_' = NoThread
         /\ UNCHANGED <<nextseqid_, seqidPending_>>
  BY DEF Leave, LeaveNotifying

LEMMA LeaveStops ==
  ASSUME TypeOK, NEW t \in Threads, NEW m, NEW committed \in BOOLEAN, Leave(t, m, committed)
  PROVE  /\ stop_' \in BOOLEAN /\ wakeupSomeone_' = TRUE
         /\ ~stop_' => ~stop_ /\ committed
  <1>1. CASE committed
    BY <1>1 DEF Leave, LeaveNotifying, TypeOK
  <1>2. CASE ~committed
    BY <1>2 DEF Leave, LeaveNotifying, MarkBad
  <1> QED
    BY <1>1, <1>2

LEMMA LeaveMoves ==
  ASSUME TypeOK, NEW t \in Threads, NEW m \in Locations, NEW committed \in BOOLEAN, Leave(t, m, committed)
  PROVE  Moved(t, IF committed THEN m ELSE "threw")
  <1> "threw" \in Locations
    BY DEF Locations
  <1>1. CASE committed
    BY <1>1, NotifyMoves DEF Leave, LeaveNotifying
  <1>2. CASE ~committed
    BY <1>2, NotifyMoves DEF Leave, LeaveNotifying, MarkBad
  <1> QED
    BY <1>1, <1>2
-----------------------------------------------------------------------------
LEMMA InitInv == ASSUME Init PROVE ClientInv
  <1> USE DEF Init
  <1>1. TypeOK
    BY RpcInitTyped DEF TypeOK, Locations, Result, DefaultResult, ErrorCode, Strings
  <1>2. Bounded
    <2>1. Unnumbered = {}
      BY DEF Unnumbered
    <2>2. IsFiniteSet(Unnumbered) /\ Cardinality(Unnumbered) = 0
      BY <2>1, FS_EmptySet
    <2> QED
      BY <2>2, ConcurrentAssumption DEF Bounded, Calling, InCall, Numbered, RpcInit
  <1>3. InFlight(Shared) = {} /\ OnePlace(Shared)
    BY EmptyStream, ConcurrentAssumption DEF RpcInit, InFlight, InCalls, InOut, InReplies, OnePlace
  <1>4. Mutex /\ Ids /\ Placed /\ Reading
    BY <1>3, ConcurrentAssumption DEF Mutex, Holding, Ids, Placed, Reading, RpcInit
  <1>5. InOrder
    BY <1>3 DEF InOrder, Answerable, Pending, Wakeful, SleepersWatched, Sent, Numbered, Calling, InCall
  <1> QED
    BY <1>1, <1>2, <1>4, <1>5 DEF ClientInv

LEMMA OtherwiseQuiet ==
  ASSUME NEW t \in Threads, Invoke(t) \/ Step(t), ~Send(t), ~Receive(t)
  PROVE  UNCHANGED rpcVars
  BY DEF Invoke, Step, GenerateSeqId, SendFails, Lock, TakePending, NothingPending, Dead, Fails,
         ReadHeader, ReadFails, HandOver, HandOverLeaving, CheckWork, Sleep

LEMMA OtherwiseNumbered ==
  ASSUME NEW t \in Threads, Invoke(t) \/ Step(t), ~(GenerateSeqId(t) /\ ~stop_)
  PROVE  UNCHANGED <<seqid, nextseqid_>>
  BY LeaveChanges
     DEF Invoke, Step, GenerateSeqId, Send, SendFails, Lock, TakePending, NothingPending, Dead, Fails,
         ReadHeader, ReadFails, Receive, ReceiveRest, HandOver, HandOverLeaving, CheckWork, Sleep, syncVars

LEMMA RpcStep == ASSUME ClientInv, Next PROVE RpcTypeOK'
  <1> USE ConcurrentAssumption
  <1>1. RpcTypeOK
    BY DEF ClientInv, TypeOK
  <1>2. CASE Connect
    BY <1>1, <1>2, ConnectionTyped DEF Connect
  <1>3. CASE Server
    BY <1>1, <1>3, ConnectionTyped, ProcessTyped, WriteReplyTyped
       DEF Server, ServerThread, ClientInv, Bounded, WriteReply, WriteReplySending
  <1>4. ASSUME NEW t \in Threads, Send(t) PROVE RpcTypeOK'
    <2>1. req[t] \in Requests /\ seqid[t] \in SeqIds
      BY <1>4 DEF Send, At, ClientInv, Bounded, Numbered, Calling, InCall
    <2> QED
      BY <1>1, <1>4, <2>1, SendTyped DEF Send
  <1>5. ASSUME NEW t \in Threads, Receive(t) PROVE RpcTypeOK'
    BY <1>1, <1>5, RecvTyped DEF Receive, ReceiveRest
  <1>6. ASSUME NEW t \in Threads, Invoke(t) \/ Step(t), ~Send(t), ~Receive(t) PROVE UNCHANGED rpcVars
    BY <1>6, OtherwiseQuiet
  <1> QED
    BY <1>1, <1>2, <1>3, <1>4, <1>5, <1>6, ConnectionTyped DEF Next

\* The call that gets an id is within the bound.
LEMMA IdInBound ==
  ASSUME ClientInv, NEW t \in Threads, pc[t] = "called"
  PROVE  nextseqid_ \in SeqIds /\ nextseqid_ < MaxCalls
  <1>1. IsFiniteSet(Unnumbered) /\ t \in Unnumbered
    BY DEF ClientInv, Bounded, Unnumbered
  <1>2. Cardinality(Unnumbered) \in Nat /\ Cardinality(Unnumbered) # 0
    BY <1>1, FS_CardinalityType, FS_EmptySet
  <1> QED
    BY <1>2, ConcurrentAssumption DEF ClientInv, Bounded, TypeOK

LEMMA StepMoves ==
  ASSUME TypeOK, NEW t \in Threads, Invoke(t) \/ Step(t)
  PROVE  Moved(t, pc'[t])
  <1> USE DEF Locations
  <1>1. ASSUME NEW l \in Locations, NEW m \in Locations, At(t, l, m) PROVE Moved(t, pc'[t])
    BY <1>1, AtMoves DEF Moved
  <1>2. CASE SendFails(t)
    BY <1>2, NotifyMoves DEF SendFails, MarkBad, Moved
  <1>3. CASE HandOver(t)
    BY <1>3, NotifyMoves DEF HandOver, HandOverLeaving, Moved
  <1>4. CASE Fails(t)
    BY <1>4, LeaveMoves DEF Fails, Moved
  <1>5. CASE Receive(t)
    <2>1. PICK m \in {"idle", "threw"}, committed \in BOOLEAN : Leave(t, m, committed)
      BY <1>5 DEF Receive, ReceiveRest
    <2> QED
      BY <2>1, LeaveMoves DEF Moved
  <1>6. CASE Invoke(t)
    BY <1>1, <1>6 DEF Invoke
  <1>7. CASE GenerateSeqId(t)
    BY <1>1, <1>7 DEF GenerateSeqId
  <1>8. CASE Lock(t, "sent", "loop") \/ Lock(t, "woken", "check")
    BY <1>1, <1>8 DEF Lock
  <1>9. CASE Send(t) \/ TakePending(t) \/ NothingPending(t) \/ ReadHeader(t) \/ Sleep(t)
    BY <1>1, <1>9 DEF Send, TakePending, NothingPending, ReadHeader, Sleep
  <1>10. CASE CheckWork(t)
    BY <1>1, <1>10 DEF CheckWork
  <1> QED
    BY <1>2, <1>3, <1>4, <1>5, <1>6, <1>7, <1>8, <1>9, <1>10 DEF Step, Dead, ReadFails

LEMMA TypesStep ==
  ASSUME ClientInv, NEW t \in Threads, Invoke(t) \/ Step(t), RpcTypeOK'
  PROVE  TypeOK'
  <1>0. TypeOK /\ pc' \in [Threads -> Locations]
    BY StepMoves DEF ClientInv, Moved
  <1> USE <1>0, ConcurrentAssumption
  <1>1. CASE Invoke(t)
    BY <1>1 DEF Invoke, TypeOK, syncVars
  <1>2. CASE GenerateSeqId(t)
    <2>1. CASE stop_
      BY <1>2, <2>1 DEF GenerateSeqId, TypeOK
    <2>2. CASE ~stop_
      <3>1. nextseqid_ \in SeqIds
        BY <1>2, <2>2, IdInBound DEF GenerateSeqId, At
      <3>2. seqid' \in [Threads -> SeqIds \cup {NoSeqid}]
        BY <1>2, <2>2, <3>1 DEF GenerateSeqId, TypeOK
      <3>3. nextseqid_' \in Nat
        BY <1>2, <2>2 DEF GenerateSeqId, TypeOK
      <3>4. seqidToMonitorMap_' \subseteq SeqIds
        BY <1>2, <2>2, <3>1 DEF GenerateSeqId, TypeOK
      <3> QED
        BY <1>2, <3>2, <3>3, <3>4 DEF GenerateSeqId, TypeOK
    <2> QED
      BY <2>1, <2>2
  <1>3. CASE Send(t) \/ CheckWork(t) \/ Sleep(t)
    BY <1>3 DEF Send, CheckWork, Sleep, TypeOK, syncVars
  <1>4. CASE SendFails(t)
    BY <1>4 DEF SendFails, MarkBad, TypeOK
  <1>5. ASSUME NEW l, NEW m, Lock(t, l, m) PROVE TypeOK'
    BY <1>5 DEF Lock, TypeOK
  <1>6. CASE TakePending(t) \/ NothingPending(t)
    BY <1>6 DEF TakePending, NothingPending, TypeOK
  <1>7. ASSUME NEW m \in {"idle", "threw"}, NEW committed \in BOOLEAN, Leave(t, m, committed)
        PROVE  /\ seqidToMonitorMap_' \subseteq SeqIds /\ readMutex_' \in Threads \cup {NoThread}
               /\ {stop_', wakeupSomeone_'} \subseteq BOOLEAN
               /\ UNCHANGED <<nextseqid_, seqidPending_>>
    <2>1. seqidToMonitorMap_' \subseteq SeqIds /\ readMutex_' \in Threads \cup {NoThread}
      BY <1>7, LeaveChanges DEF TypeOK
    <2>2. {stop_', wakeupSomeone_'} \subseteq BOOLEAN
      <3>1. stop_' \in BOOLEAN /\ wakeupSomeone_' = TRUE
        BY <1>0, <1>7, LeaveStops, ZenonT(30)
      <3> QED
        BY <3>1
    <2> QED
      BY <1>7, <2>1, <2>2, LeaveChanges
  <1>8. CASE Fails(t)
    BY <1>7, <1>8 DEF Fails, TypeOK
  <1>9. CASE ReadHeader(t)
    <2>1. NextReply(Shared) \in Messages
      BY <1>9, TakeMessage DEF ReadHeader, TypeOK, RpcTypeOK, NextReply
    <2>2. NextReply(Shared).seqid \in SeqIds
      BY <2>1, ReplyTyped
    <2> QED
      BY <1>9, <2>2 DEF ReadHeader, TypeOK, syncVars
  <1>10. CASE Receive(t)
    <2>1. presult(NextReply(Shared).fields, res[t]) \in Result
      BY <1>10, RecvTyped, ReplyTyped DEF Receive, ReceiveRest, TypeOK
    <2>2. res' \in [Threads -> Result]
      BY <1>10, <2>1 DEF Receive, ReceiveRest, TypeOK
    <2>3. PICK m \in {"idle", "threw"}, committed \in BOOLEAN : Leave(t, m, committed)
      BY <1>10 DEF Receive, ReceiveRest
    <2> QED
      BY <1>7, <1>10, <2>2, <2>3 DEF Receive, ReceiveRest, TypeOK
  <1>11. CASE HandOver(t)
    BY <1>11 DEF HandOver, HandOverLeaving, TypeOK
  <1> QED
    BY <1>1, <1>2, <1>3, <1>4, <1>5, <1>6, <1>8, <1>9, <1>10, <1>11 DEF Step, Dead, ReadFails
-----------------------------------------------------------------------------
\* From where to where t goes.
LEMMA Path ==
  ASSUME TypeOK, NEW t \in Threads
  PROVE  /\ Invoke(t) => pc[t] \in {"idle", "threw"} /\ pc'[t] = "called"
         /\ GenerateSeqId(t) => pc[t] = "called" /\ pc'[t] = IF stop_ THEN "threw" ELSE "send"
         /\ Send(t) => pc[t] = "send" /\ pc'[t] = "sent"
         /\ SendFails(t) => pc[t] = "send" /\ pc'[t] = "threw"
         /\ Lock(t, "sent", "loop") => pc[t] = "sent" /\ pc'[t] = "loop"
         /\ Lock(t, "woken", "check") => pc[t] = "woken" /\ pc'[t] = "check"
         /\ TakePending(t) => pc[t] = "loop" /\ pc'[t] = "match"
         /\ NothingPending(t) => pc[t] = "loop" /\ pc'[t] = "read"
         /\ Dead(t) => pc[t] \in {"loop", "check"} /\ pc'[t] = "threw"
         /\ ReadHeader(t) => pc[t] = "read" /\ pc'[t] = "match"
         /\ ReadFails(t) => pc[t] \in {"read", "match"} /\ pc'[t] = "threw"
         /\ Receive(t) => pc[t] = "match" /\ pc'[t] \in {"idle", "threw"}
         /\ HandOver(t) => pc[t] = "match" /\ pc'[t] = "check"
         /\ CheckWork(t) => pc[t] = "check" /\ pc'[t] \in {"loop", "sleep"}
         /\ Sleep(t) => pc[t] = "sleep" /\ pc'[t] = "waiting"
  <1>1. ASSUME NEW l, NEW m, At(t, l, m) PROVE pc[t] = l /\ pc'[t] = m
    BY <1>1 DEF At, TypeOK
  <1>2. ASSUME NEW m \in {"idle", "threw"}, NEW committed \in BOOLEAN, Leave(t, m, committed)
        PROVE  pc'[t] = IF committed THEN m ELSE "threw"
    BY <1>2, LeaveMoves DEF Moved, Locations
  <1>3. Fails(t) => pc'[t] = "threw"
    BY <1>2 DEF Fails
  <1>4. Receive(t) => pc[t] = "match" /\ pc'[t] \in {"idle", "threw"}
    <2> SUFFICES ASSUME Receive(t) PROVE pc[t] = "match" /\ pc'[t] \in {"idle", "threw"}
      OBVIOUS
    <2>1. PICK m \in {"idle", "threw"}, committed \in BOOLEAN : Leave(t, m, committed)
      BY DEF Receive, ReceiveRest
    <2> QED
      BY <1>2, <2>1 DEF Receive, ReceiveRest
  <1>5. /\ Dead(t) => pc[t] \in {"loop", "check"} /\ pc'[t] = "threw"
        /\ ReadFails(t) => pc[t] \in {"read", "match"} /\ pc'[t] = "threw"
    BY <1>3 DEF Dead, ReadFails
  <1>6. /\ SendFails(t) => pc[t] = "send" /\ pc'[t] = "threw"
        /\ HandOver(t) => pc[t] = "match" /\ pc'[t] = "check"
    BY DEF SendFails, MarkBad, Notify, HandOver, HandOverLeaving
  <1>7. /\ Invoke(t) => pc[t] \in {"idle", "threw"} /\ pc'[t] = "called"
        /\ GenerateSeqId(t) => pc[t] = "called" /\ pc'[t] = IF stop_ THEN "threw" ELSE "send"
        /\ Send(t) => pc[t] = "send" /\ pc'[t] = "sent"
        /\ Sleep(t) => pc[t] = "sleep" /\ pc'[t] = "waiting"
    BY <1>1 DEF Invoke, GenerateSeqId, Send, Sleep
  <1>8. /\ Lock(t, "sent", "loop") => pc[t] = "sent" /\ pc'[t] = "loop"
        /\ Lock(t, "woken", "check") => pc[t] = "woken" /\ pc'[t] = "check"
    BY <1>1 DEF Lock
  <1>9. /\ TakePending(t) => pc[t] = "loop" /\ pc'[t] = "match"
        /\ NothingPending(t) => pc[t] = "loop" /\ pc'[t] = "read"
        /\ ReadHeader(t) => pc[t] = "read" /\ pc'[t] = "match"
        /\ CheckWork(t) => pc[t] = "check" /\ pc'[t] \in {"loop", "sleep"}
    BY <1>1 DEF TakePending, NothingPending, ReadHeader, CheckWork
  <1> QED
    BY <1>4, <1>5, <1>6, <1>7, <1>8, <1>9

LEMMA BoundedStep ==
  ASSUME ClientInv, NEW t \in Threads, Invoke(t) \/ Step(t)
  PROVE  Bounded'
  <1> USE ConcurrentAssumption
  <1>0. TypeOK /\ Bounded
    BY DEF ClientInv
  <1>1. Moved(t, pc'[t])
    BY <1>0, StepMoves
  <1>2. /\ IsFiniteSet(Unnumbered)' /\ (nextseqid_ + Cardinality(Unnumbered))' <= MaxCalls
    <2>1. CASE Invoke(t)
      <3>1. t \notin Unnumbered /\ Unnumbered' = Unnumbered \cup {t}
        BY <1>1, <2>1, <1>0 DEF Invoke, At, Unnumbered, Moved
      <3>2. IsFiniteSet(Unnumbered') /\ Cardinality(Unnumbered') = Cardinality(Unnumbered) + 1
        BY <1>0, <3>1, FS_AddElement DEF Bounded
      <3>3. Cardinality(Unnumbered) \in Nat /\ nextseqid_ + Cardinality(Unnumbered) < MaxCalls
        BY <1>0, <2>1, FS_CardinalityType DEF Bounded, Invoke, Unnumbered
      <3> QED
        BY <1>0, <2>1, <3>2, <3>3 DEF Invoke, TypeOK, syncVars
    <2>2. CASE GenerateSeqId(t)
      <3>1. t \in Unnumbered /\ Unnumbered' = Unnumbered \ {t}
        BY <1>0, <1>1, <2>2 DEF GenerateSeqId, At, Unnumbered, Moved, TypeOK
      <3>2. IsFiniteSet(Unnumbered') /\ Cardinality(Unnumbered') = Cardinality(Unnumbered) - 1
        BY <1>0, <3>1, FS_RemoveElement DEF Bounded
      <3>3. Cardinality(Unnumbered) \in Nat /\ nextseqid_' \in {nextseqid_, nextseqid_ + 1}
        BY <1>0, <2>2, FS_CardinalityType DEF Bounded, GenerateSeqId
      <3> QED
        BY <1>0, <3>2, <3>3 DEF Bounded, TypeOK
    <2>3. CASE ~Invoke(t) /\ ~GenerateSeqId(t)
      <3>1. /\ pc[t] # "called" /\ pc'[t] # "called"
            /\ UNCHANGED nextseqid_
        <4>1. UNCHANGED nextseqid_
          BY <2>3, LeaveChanges
             DEF Step, Send, SendFails, Lock, TakePending, NothingPending, Dead, Fails, ReadHeader, ReadFails,
                 Receive, ReceiveRest, HandOver, HandOverLeaving, CheckWork, Sleep, syncVars
        <4> QED
          BY <1>0, <2>3, <4>1, Path DEF Step
      <3>2. Unnumbered' = Unnumbered
        BY <1>1, <3>1 DEF Unnumbered, Moved
      <3> QED
        BY <1>0, <3>1, <3>2 DEF Bounded
    <2> QED
      BY <2>1, <2>2, <2>3
  <1>3. ASSUME NEW u \in Threads PROVE Calling(u)' => req'[u] \in Requests
    <2>1. CASE Invoke(t)
      <3>1. \A x \in Workload[t] : x \in Requests
        OBVIOUS
      <3>2. req'[t] \in Requests /\ (u # t => req'[u] = req[u])
        BY <1>0, <2>1, <3>1 DEF Invoke, TypeOK
      <3> QED
        BY <1>0, <1>1, <3>2 DEF Bounded, Moved, Calling, InCall
    <2>2. CASE Step(t)
      <3>1. UNCHANGED req
        BY <2>2 DEF Step, GenerateSeqId, Send, SendFails, Lock, TakePending, NothingPending, Dead, Fails,
                    ReadHeader, ReadFails, Receive, ReceiveRest, HandOver, HandOverLeaving, CheckWork, Sleep
      <3>2. pc[t] \in InCall
        BY <1>0, <2>2, Path DEF Step, InCall
      <3> QED
        BY <1>0, <1>1, <3>1, <3>2 DEF Bounded, Moved, Calling, InCall
    <2> QED
      BY <2>1, <2>2
  <1>4. ASSUME NEW u \in Threads PROVE Numbered(u)' => seqid'[u] \in SeqIds
    <2>1. CASE GenerateSeqId(t)
      <3>1. CASE stop_
        BY <1>0, <1>1, <2>1, <3>1, Path DEF GenerateSeqId, Bounded, Moved, Numbered, Calling, InCall
      <3>2. CASE ~stop_
        <4>1. nextseqid_ \in SeqIds
          BY <1>0, <2>1, IdInBound, Path
        <4> QED
          BY <1>0, <1>1, <2>1, <3>2, <4>1 DEF GenerateSeqId, TypeOK, Bounded, Moved, Numbered, Calling, InCall
      <3> QED
        BY <3>1, <3>2
    <2>2. CASE ~GenerateSeqId(t)
      <3>1. UNCHANGED seqid
        BY <2>2 DEF Invoke, Step, Send, SendFails, Lock, TakePending, NothingPending, Dead, Fails,
                    ReadHeader, ReadFails, Receive, ReceiveRest, HandOver, HandOverLeaving, CheckWork, Sleep
      <3>2. Numbered(t)' => Numbered(t)
        BY <1>0, <2>2, Path DEF Step, Numbered, Calling, InCall
      <3> QED
        BY <1>0, <1>1, <3>1, <3>2 DEF Bounded, Moved, Numbered, Calling, InCall
    <2> QED
      BY <2>1, <2>2
  <1>5. srv'[Shared] = "writing" => out'[Shared] \in Messages
    BY <1>0 DEF Bounded, Invoke, Step, GenerateSeqId, Send, SendCall, SendFails, Lock, TakePending, NothingPending,
                Dead, Fails, ReadHeader, ReadFails, Receive, ReceiveRest, RecvReply, HandOver, HandOverLeaving,
                CheckWork, Sleep, rpcVars
  <1> QED
    BY <1>2, <1>3, <1>4, <1>5 DEF Bounded

LEMMA MutexStep ==
  ASSUME ClientInv, NEW t \in Threads, Invoke(t) \/ Step(t)
  PROVE  Mutex'
  <1> USE ConcurrentAssumption
  <1>0. TypeOK /\ Mutex
    BY DEF ClientInv
  <1>1. Moved(t, pc'[t])
    BY <1>0, StepMoves
  <1> SUFFICES /\ pc'[t] \in Holding <=> readMutex_' = t
               /\ \A u \in Threads \ {t} : readMutex_' = u <=> readMutex_ = u
    BY <1>0, <1>1 DEF Mutex, Moved, Holding
  <1>3. CASE Invoke(t) \/ GenerateSeqId(t) \/ Send(t) \/ SendFails(t)
    <2>1. pc[t] \notin Holding /\ pc'[t] \notin Holding
      BY <1>0, <1>3, Path DEF Holding
    <2>2. UNCHANGED readMutex_
      BY <1>3 DEF Invoke, GenerateSeqId, Send, SendFails, syncVars
    <2> QED
      BY <1>0, <2>1, <2>2 DEF Mutex
  <1>4. CASE Lock(t, "sent", "loop") \/ Lock(t, "woken", "check")
    <2>1. pc'[t] \in Holding
      BY <1>0, <1>4, Path DEF Holding
    <2>2. readMutex_ = NoThread /\ readMutex_' = t
      BY <1>4 DEF Lock
    <2> QED
      BY <2>1, <2>2
  <1>5. CASE TakePending(t) \/ NothingPending(t) \/ ReadHeader(t) \/ HandOver(t) \/ CheckWork(t)
    <2>1. pc[t] \in Holding /\ pc'[t] \in Holding
      BY <1>0, <1>5, Path DEF Holding
    <2>2. UNCHANGED readMutex_
      BY <1>5 DEF TakePending, NothingPending, ReadHeader, HandOver, HandOverLeaving, CheckWork, syncVars
    <2> QED
      BY <1>0, <2>1, <2>2 DEF Mutex
  <1>6. CASE Dead(t) \/ ReadFails(t) \/ Receive(t) \/ Sleep(t)
    <2>1. pc[t] \in Holding /\ pc'[t] \notin Holding
      BY <1>0, <1>6, Path DEF Holding
    <2>2. readMutex_' = NoThread
      BY <1>6, LeaveChanges DEF Dead, ReadFails, Fails, Receive, ReceiveRest, Sleep
    <2> QED
      BY <1>0, <2>1, <2>2 DEF Mutex
  <1> QED
    BY <1>3, <1>4, <1>5, <1>6 DEF Step

LEMMA IdsStep ==
  ASSUME ClientInv, NEW t \in Threads, Invoke(t) \/ Step(t)
  PROVE  Ids'
  <1>1. CASE GenerateSeqId(t) /\ ~stop_
    <2>1. /\ seqid' = [seqid EXCEPT ![t] = nextseqid_] /\ nextseqid_' = nextseqid_ + 1
      BY <1>1 DEF GenerateSeqId
    <2>2. \A i \in SeqIds : i \in Nat
      BY ConcurrentAssumption
    <2> QED
      BY <2>1, <2>2 DEF Ids, ClientInv, TypeOK
  <1>2. CASE ~(GenerateSeqId(t) /\ ~stop_)
    <2>1. UNCHANGED <<seqid, nextseqid_>>
      BY <1>2, OtherwiseNumbered
    <2> QED
      BY <2>1 DEF Ids, ClientInv
  <1> QED
    BY <1>1, <1>2

LEMMA SentId ==
  ASSUME ClientInv, NEW t \in Threads, Numbered(t)
  PROVE  /\ seqid[t] \in SeqIds /\ seqid[t] < nextseqid_
         /\ \A u \in Threads : seqid[u] = seqid[t] => u = t
  BY DEF ClientInv, Bounded, Ids

\* The message is that of the call, and new.
LEMMA SendSent ==
  ASSUME ClientInv, NEW t \in Threads, Send(t)
  PROVE  /\ OnePlace(Shared)'
         /\ \A m \in InFlight(Shared)' :
              m.seqid = seqid[t] \/ \E n \in InFlight(Shared) : m.seqid = n.seqid
         /\ \A i : NextIs(Shared, i) => NextIs(Shared, i)'
  <1>1. TypeOK /\ RpcTypeOK /\ OnePlace(Shared) /\ Shared \in Clients
    BY ConcurrentAssumption DEF ClientInv, TypeOK, Placed
  <1>2. pc[t] = "send" /\ SendCall(Shared, req[t], seqid[t])
    BY DEF Send, At
  <1>3. req[t] \in Requests /\ seqid[t] \in SeqIds
    BY <1>2 DEF ClientInv, Bounded, Numbered, Calling, InCall
  <1>4. \A m \in InFlight(Shared) : m.seqid # seqid[t]
    BY <1>2 DEF ClientInv, Placed
  <1> QED
    BY <1>1, <1>2, <1>3, <1>4, SendPlaces

LEMMA PlacedStep ==
  ASSUME ClientInv, NEW t \in Threads, Invoke(t) \/ Step(t)
  PROVE  Placed'
  <1>0. /\ TypeOK /\ RpcTypeOK /\ Placed /\ OnePlace(Shared) /\ Shared \in Clients
        /\ nextseqid_ \in Nat
    BY ConcurrentAssumption DEF ClientInv, TypeOK, Placed
  <1>1. Moved(t, pc'[t])
    BY <1>0, StepMoves
  <1>2. CASE Send(t)
    <2>1. /\ pc[t] = "send" /\ pc'[t] = "sent" /\ UNCHANGED <<seqid, nextseqid_>>
      BY <1>0, <1>2, Path DEF Send, syncVars
    <2>2. \A u \in Threads : pc'[u] = "send" => pc[u] = "send" /\ u # t
      BY <1>1, <2>1 DEF Moved
    <2>3. /\ seqid[t] < nextseqid_ /\ \A u \in Threads : seqid[u] = seqid[t] => u = t
      BY <2>1, SentId DEF Numbered, Calling, InCall
    <2>4. ASSUME NEW m \in InFlight(Shared)'
          PROVE  /\ m.seqid < nextseqid_
                 /\ \A u \in Threads : pc'[u] = "send" => m.seqid # seqid[u]
      BY <1>0, <1>2, <2>2, <2>3, SendSent DEF Placed
    <2> QED
      BY <1>2, <2>1, <2>4, SendSent DEF Placed
  <1>3. CASE Receive(t)
    <2>1. pc[t] = "match" /\ pc'[t] \in {"idle", "threw"} /\ UNCHANGED <<seqid, nextseqid_>>
      BY <1>0, <1>3, Path, OtherwiseNumbered DEF GenerateSeqId
    <2>2. \A u \in Threads : pc'[u] = "send" => pc[u] = "send"
      BY <1>1, <2>1 DEF Moved
    <2>3. OnePlace(Shared)' /\ \A m \in InFlight(Shared)' : m \in InFlight(Shared)
      BY <1>0, <1>3, RecvPlaces DEF Receive, ReceiveRest
    <2> QED
      BY <1>0, <2>1, <2>2, <2>3 DEF Placed
  <1>4. CASE ~Send(t) /\ ~Receive(t)
    <2>1. OnePlace(Shared)' /\ InFlight(Shared)' = InFlight(Shared)
      BY <1>0, <1>4, OtherwiseQuiet, QuietPlaces DEF KeepsPlaces
    <2>2. CASE GenerateSeqId(t) /\ ~stop_
      <3>1. /\ seqid' = [seqid EXCEPT ![t] = nextseqid_] /\ nextseqid_' = nextseqid_ + 1
        BY <2>2 DEF GenerateSeqId
      <3>2. ASSUME NEW m \in InFlight(Shared)
            PROVE  /\ m.seqid < nextseqid_'
                   /\ \A u \in Threads : pc'[u] = "send" => m.seqid # seqid'[u]
        <4>1. m.seqid < nextseqid_ /\ m.seqid \in Nat
          <5>1. m \in Calls \/ m \in Messages
            BY <1>0, TakeMessage DEF InFlight, InCalls, InOut, InReplies, RpcTypeOK, Range, ClientInv, Bounded
          <5>2. m.seqid \in SeqIds
            BY <5>1, CallTyped, ReplyTyped
          <5> QED
            BY <1>0, <5>2, ConcurrentAssumption DEF Placed
        <4>2. seqid'[t] = nextseqid_ /\ \A u \in Threads \ {t} : seqid'[u] = seqid[u]
          BY <1>0, <3>1 DEF TypeOK
        <4>3. \A u \in Threads \ {t} : pc'[u] = "send" => pc[u] = "send"
          BY <1>1 DEF Moved
        <4> QED
          BY <1>0, <3>1, <4>1, <4>2, <4>3 DEF Placed
      <3> QED
        BY <2>1, <3>2 DEF Placed
    <2>3. CASE ~(GenerateSeqId(t) /\ ~stop_)
      <3>1. UNCHANGED <<seqid, nextseqid_>>
        BY <2>3, OtherwiseNumbered
      <3>2. pc'[t] # "send"
        BY <1>0, <1>4, <2>3, Path DEF Step
      <3>3. \A u \in Threads : pc'[u] = "send" => pc[u] = "send"
        BY <1>1, <3>2 DEF Moved
      <3> QED
        BY <1>0, <2>1, <3>1, <3>3 DEF Placed
    <2> QED
      BY <2>2, <2>3
  <1> QED
    BY <1>2, <1>3, <1>4

\* Steps of a thread that does not have the read mutex, and of its holder.
Outside(t) == Invoke(t) \/ GenerateSeqId(t) \/ Send(t) \/ SendFails(t)

Inside(t) ==
  \/ Lock(t, "sent", "loop") \/ Lock(t, "woken", "check")
  \/ TakePending(t) \/ NothingPending(t) \/ Dead(t)
  \/ ReadHeader(t) \/ ReadFails(t) \/ Receive(t) \/ HandOver(t)
  \/ CheckWork(t) \/ Sleep(t)

LEMMA OutsideStays ==
  ASSUME NEW t \in Threads, Outside(t)
  PROVE  UNCHANGED <<rseqid, headerRead, seqidPending_, readMutex_>>
  BY DEF Outside, Invoke, GenerateSeqId, Send, SendFails, syncVars

LEMMA HolderAlone ==
  ASSUME ClientInv, NEW t \in Threads, Inside(t)
  PROVE  \A u \in Threads \ {t} : pc[u] \notin Holding /\ pc'[u] \notin Holding
  <1>0. TypeOK /\ Mutex
    BY DEF ClientInv
  <1>1. readMutex_ = t \/ readMutex_ = NoThread
    <2>1. CASE Lock(t, "sent", "loop") \/ Lock(t, "woken", "check")
      BY <2>1 DEF Lock
    <2>2. CASE ~(Lock(t, "sent", "loop") \/ Lock(t, "woken", "check"))
      <3>1. pc[t] \in Holding
        BY <1>0, <2>2, Path DEF Inside, Holding
      <3> QED
        BY <1>0, <3>1 DEF Mutex
    <2> QED
      BY <2>1, <2>2
  <1>2. \A u \in Threads \ {t} : pc[u] \notin Holding
    BY <1>0, <1>1, ConcurrentAssumption DEF Mutex
  <1>3. Moved(t, pc'[t])
    BY <1>0, StepMoves DEF Inside, Step
  <1> QED
    BY <1>2, <1>3 DEF Moved, Holding

LEMMA ReadingStep ==
  ASSUME ClientInv, NEW t \in Threads, Invoke(t) \/ Step(t)
  PROVE  Reading'
  <1>0. TypeOK /\ RpcTypeOK /\ OnePlace(Shared) /\ Reading /\ Shared \in Clients /\ Moved(t, pc'[t])
    BY StepMoves, ConcurrentAssumption DEF ClientInv, TypeOK, Placed
  <1>1. conn'[Shared] = "none" => replies'[Shared] = <<>> /\ srv'[Shared] = "none"
    <2>1. CASE Send(t)
      BY <1>0, <2>1 DEF Send, SendCall, Reading
    <2>2. CASE Receive(t)
      BY <1>0, <2>2 DEF Receive, ReceiveRest, RecvReply, Reading
    <2>3. CASE ~Send(t) /\ ~Receive(t)
      BY <1>0, <2>3, OtherwiseQuiet DEF rpcVars, Reading
    <2> QED
      BY <2>1, <2>2, <2>3
  <1>2. CASE Outside(t)
    <2>1. \A u \in Threads : pc'[u] \in {"read", "match"} => pc'[u] = pc[u]
      BY <1>0, <1>2, Path DEF Outside, Moved
    <2>2. \A i : NextIs(Shared, i) => NextIs(Shared, i)'
      <3>1. CASE Send(t)
        BY <3>1, SendSent
      <3>2. CASE ~Send(t)
        <4>1. UNCHANGED rpcVars
          BY <1>0, <1>2, <3>2, OtherwiseQuiet, Path DEF Outside
        <4> QED
          BY <4>1 DEF rpcVars, NextIs, NextReply
      <3> QED
        BY <3>1, <3>2
    <2> QED
      BY <1>0, <1>1, <1>2, <2>1, <2>2, OutsideStays DEF Reading
  <1>3. CASE Inside(t)
    <2>1. \A u \in Threads \ {t} : pc'[u] \notin {"read", "match"} /\ pc[u] \notin {"read", "match"}
      BY <1>3, HolderAlone DEF Holding
    <2>2. CASE pc'[t] \notin {"read", "match"}
      BY <1>1, <2>1, <2>2 DEF Reading
    <2>3. CASE TakePending(t)
      <3>1. /\ pc'[t] = "match" /\ ~stop_ /\ seqidPending_ # NoSeqid
            /\ rseqid' = seqidPending_ /\ seqidPending_' = NoSeqid /\ UNCHANGED <<rpcVars, headerRead>>
        BY <1>0, <2>3, Path DEF TakePending
      <3>2. headerRead /\ NextIs(Shared, seqidPending_)
        BY <3>1 DEF ClientInv, InOrder, Pending
      <3>3. NextIs(Shared, rseqid)'
        BY <3>1, <3>2 DEF NextIs, NextReply, rpcVars
      <3> QED
        BY <1>1, <2>1, <3>1, <3>2, <3>3 DEF Reading
    <2>4. CASE NothingPending(t)
      <3>1. /\ pc[t] = "loop" /\ pc'[t] = "read" /\ ~stop_ /\ seqidPending_ = NoSeqid
            /\ UNCHANGED <<seqidPending_, headerRead>>
        BY <1>0, <2>4, Path DEF NothingPending
      <3>2. ~headerRead
        BY <2>1, <3>1 DEF ClientInv, InOrder, Pending
      <3> QED
        BY <1>1, <2>1, <3>1, <3>2 DEF Reading
    <2>5. CASE ReadHeader(t)
      <3>1. /\ pc[t] = "read" /\ pc'[t] = "match" /\ headerRead' = TRUE
            /\ replies[Shared] # <<>> /\ rseqid' = NextReply(Shared).seqid
            /\ UNCHANGED <<rpcVars, seqidPending_>>
        BY <1>0, <2>5, Path, OtherwiseQuiet DEF ReadHeader, syncVars
      <3>2. NextIs(Shared, rseqid)'
        BY <3>1 DEF NextIs, NextReply, rpcVars
      <3> QED
        BY <1>0, <1>1, <2>1, <3>1, <3>2 DEF Reading
    <2> QED
      BY <1>0, <1>3, <2>2, <2>3, <2>4, <2>5, Path DEF Inside
  <1> QED
    BY <1>2, <1>3 DEF Step, Outside, Inside
-----------------------------------------------------------------------------
(***************************************************************************)
(* Steps of a thread that leave the client in order.                       *)
(***************************************************************************)
Orderly(t) ==
  \/ Invoke(t) \/ GenerateSeqId(t) \/ Send(t)
  \/ Lock(t, "sent", "loop") \/ Lock(t, "woken", "check")
  \/ TakePending(t) \/ NothingPending(t)
  \/ ReadHeader(t) \/ Receive(t) \/ HandOver(t)
  \/ CheckWork(t) \/ Sleep(t)

LEMMA StaysOrderly ==
  ASSUME ClientInv, NEW t \in Threads, Invoke(t) \/ Step(t), ~stop_'
  PROVE  ~stop_ /\ InOrder /\ Orderly(t)
  <1>0. TypeOK
    BY DEF ClientInv
  <1>1. ~Fails(t)
    BY <1>0, LeaveStops DEF Fails
  <1>2. ~SendFails(t)
    BY DEF SendFails, MarkBad
  <1>3. Orderly(t)
    BY <1>1, <1>2 DEF Orderly, Step, Dead, ReadFails
  <1>4. CASE Receive(t)
    <2>1. PICK m \in {"idle", "threw"}, committed \in BOOLEAN : Leave(t, m, committed)
      BY <1>4 DEF Receive, ReceiveRest
    <2> QED
      BY <1>0, <1>3, <2>1, LeaveStops DEF ClientInv
  <1>5. CASE ~Receive(t)
    <2>1. UNCHANGED stop_
      BY <1>3, <1>5 DEF Orderly, Invoke, GenerateSeqId, Send, Lock, TakePending, NothingPending, ReadHeader,
                        HandOver, HandOverLeaving, CheckWork, Sleep, syncVars
    <2> QED
      BY <1>3, <2>1 DEF ClientInv
  <1> QED
    BY <1>4, <1>5

LEMMA AnswerableStep ==
  ASSUME ClientInv, NEW t \in Threads, Invoke(t) \/ Step(t), ~stop_'
  PROVE  Answerable'
  <1>0. /\ TypeOK /\ RpcTypeOK /\ OnePlace(Shared) /\ Shared \in Clients /\ Moved(t, pc'[t])
        /\ ~stop_ /\ Orderly(t) /\ Answerable
    BY StepMoves, StaysOrderly, ConcurrentAssumption DEF ClientInv, TypeOK, Placed, InOrder
  <1>1. ASSUME NEW u \in Threads, u # t
        PROVE  (Numbered(u)' <=> Numbered(u)) /\ (Sent(u)' <=> Sent(u))
    BY <1>0, <1>1 DEF Moved, Sent, Numbered, Calling, InCall
  <1>2. CASE GenerateSeqId(t)
    <2>1. /\ seqid' = [seqid EXCEPT ![t] = nextseqid_]
          /\ seqidToMonitorMap_' = seqidToMonitorMap_ \cup {nextseqid_}
          /\ UNCHANGED rpcVars
      BY <1>0, <1>2 DEF GenerateSeqId
    <2>2. pc[t] = "called" /\ pc'[t] = "send"
      BY <1>0, <1>2, Path
    <2>3. ~Numbered(t) /\ ~Sent(t) /\ Numbered(t)' /\ seqid'[t] = nextseqid_
      BY <1>0, <2>1, <2>2 DEF Sent, Numbered, Calling, InCall, TypeOK
    <2>4. \A u \in Threads : u # t => seqid'[u] = seqid[u]
      BY <1>0, <2>1 DEF TypeOK
    <2>5. InFlight(Shared)' = InFlight(Shared)
      BY <1>0, <2>1, QuietPlaces
    <2>6. seqidToMonitorMap_' = {seqid'[u] : u \in {v \in Threads : Numbered(v)'}}
      BY <1>0, <1>1, <2>1, <2>3, <2>4 DEF Answerable
    <2>7. \A m \in InFlight(Shared) : \E u \in Threads : Sent(u)' /\ m.seqid = seqid'[u]
      BY <1>0, <1>1, <2>3, <2>4 DEF Answerable
    <2> QED
      BY <2>5, <2>6, <2>7 DEF Answerable
  <1>3. CASE Receive(t)
    <2>1. /\ pc[t] = "match" /\ pc'[t] \in {"idle", "threw"} /\ UNCHANGED <<seqid, nextseqid_>>
          /\ rseqid = seqid[t] /\ RecvReply(Shared)
      BY <1>0, <1>3, Path, OtherwiseNumbered DEF GenerateSeqId, Receive, ReceiveRest
    <2>2. Numbered(t) /\ Sent(t) /\ ~Numbered(t)' /\ ~Sent(t)'
      BY <2>1 DEF Sent, Numbered, Calling, InCall
    <2>3. seqidToMonitorMap_' = seqidToMonitorMap_ \ {seqid[t]}
      BY <1>3, LeaveChanges DEF Receive, ReceiveRest
    <2>4. \A u \in Threads : Numbered(u) /\ seqid[u] = seqid[t] => u = t
      BY <2>2, SentId
    <2>5. seqidToMonitorMap_' = {seqid'[u] : u \in {v \in Threads : Numbered(v)'}}
      BY <1>0, <1>1, <2>1, <2>2, <2>3, <2>4 DEF Answerable
    <2>6. NextReply(Shared).seqid = seqid[t]
      BY <2>1 DEF ClientInv, Reading, NextIs, RecvReply
    <2>7. \A m \in InFlight(Shared)' : m \in InFlight(Shared) /\ m.seqid # seqid[t]
      BY <1>0, <2>1, <2>6, RecvPlaces
    <2>8. \A m \in InFlight(Shared)' : \E u \in Threads : Sent(u)' /\ m.seqid = seqid'[u]
      BY <1>0, <1>1, <2>1, <2>7 DEF Answerable
    <2> QED
      BY <2>5, <2>8 DEF Answerable
  <1>4. CASE ~GenerateSeqId(t) /\ ~Receive(t)
    <2>1. UNCHANGED <<seqid, seqidToMonitorMap_>>
      BY <1>0, <1>4 DEF Orderly, Invoke, Send, Lock, TakePending, NothingPending, ReadHeader,
                        HandOver, HandOverLeaving, CheckWork, Sleep, syncVars
    <2>2. (Numbered(t)' <=> Numbered(t)) /\ (Sent(t) => Sent(t)')
      BY <1>0, <1>4, Path DEF Orderly, Sent, Numbered, Calling, InCall
    <2>3. seqidToMonitorMap_' = {seqid'[u] : u \in {v \in Threads : Numbered(v)'}}
      BY <1>0, <1>1, <2>1, <2>2 DEF Answerable
    <2>4. CASE Send(t)
      <3>1. Sent(t)'
        BY <1>0, <2>4, Path DEF Sent, Numbered, Calling, InCall
      <3>2. \A m \in InFlight(Shared)' : \E u \in Threads : Sent(u)' /\ m.seqid = seqid'[u]
        BY <1>0, <1>1, <2>1, <2>2, <2>4, <3>1, SendSent DEF Answerable
      <3> QED
        BY <2>3, <3>2 DEF Answerable
    <2>5. CASE ~Send(t)
      <3>1. InFlight(Shared)' = InFlight(Shared)
        BY <1>0, <1>4, <2>5, OtherwiseQuiet, QuietPlaces
      <3>2. \A m \in InFlight(Shared)' : \E u \in Threads : Sent(u)' /\ m.seqid = seqid'[u]
        BY <1>0, <1>1, <2>1, <2>2, <3>1 DEF Answerable
      <3> QED
        BY <2>3, <3>2 DEF Answerable
    <2> QED
      BY <2>4, <2>5
  <1> QED
    BY <1>2, <1>3, <1>4

LEMMA SentStays ==
  ASSUME ClientInv, NEW t \in Threads, Orderly(t), ~Receive(t), NEW u \in Threads, Sent(u)
  PROVE  Sent(u)' /\ seqid'[u] = seqid[u]
  <1>0. TypeOK /\ Moved(t, pc'[t])
    BY StepMoves DEF ClientInv, Orderly, Step
  <1>1. CASE u # t
    <2>1. seqid'[u] = seqid[u]
      <3>1. CASE GenerateSeqId(t)
        BY <1>0, <1>1, <3>1 DEF GenerateSeqId, TypeOK
      <3>2. CASE ~GenerateSeqId(t)
        BY <3>2, OtherwiseNumbered DEF Orderly, Step
      <3> QED
        BY <3>1, <3>2
    <2> QED
      BY <1>0, <1>1, <2>1 DEF Moved, Sent, Numbered, Calling, InCall
  <1>2. CASE u = t
    <2>1. ~GenerateSeqId(t) /\ Sent(t)'
      BY <1>0, <1>2, Path DEF Orderly, Sent, Numbered, Calling, InCall
    <2>2. UNCHANGED seqid
      BY <2>1, OtherwiseNumbered DEF Orderly, Step
    <2> QED
      BY <1>2, <2>1, <2>2
  <1> QED
    BY <1>1, <1>2

LEMMA PendingStep ==
  ASSUME ClientInv, NEW t \in Threads, Invoke(t) \/ Step(t), ~stop_'
  PROVE  Pending'
  <1>0. /\ TypeOK /\ RpcTypeOK /\ OnePlace(Shared) /\ Shared \in Clients /\ Moved(t, pc'[t])
        /\ ~stop_ /\ Orderly(t) /\ Answerable /\ Pending /\ Reading
    BY StepMoves, StaysOrderly, ConcurrentAssumption DEF ClientInv, TypeOK, Placed, InOrder
  <1>1. CASE Invoke(t) \/ GenerateSeqId(t) \/ Send(t)
    <2>1. UNCHANGED <<rseqid, headerRead, seqidPending_>>
      BY <1>1, OutsideStays DEF Outside
    <2>2. \A u \in Threads : pc'[u] = "match" <=> pc[u] = "match"
      BY <1>0, <1>1, Path DEF Moved
    <2>3. \A i : NextIs(Shared, i) => NextIs(Shared, i)'
      <3>1. CASE Send(t)
        BY <3>1, SendSent
      <3>2. CASE ~Send(t)
        <4>1. UNCHANGED rpcVars
          BY <1>0, <1>1, <3>2, OtherwiseQuiet, Path DEF Step
        <4> QED
          BY <4>1 DEF rpcVars, NextIs, NextReply
      <3> QED
        BY <3>1, <3>2
    <2>4. ~Receive(t)
      BY <1>0, <1>1, Path
    <2> QED
      BY <1>0, <2>1, <2>2, <2>3, <2>4, SentStays DEF Pending
  <1>2. CASE Inside(t)
    <2>1. \A u \in Threads \ {t} : pc'[u] # "match" /\ pc[u] # "match"
      BY <1>2, HolderAlone DEF Holding
    <2>2. CASE Receive(t)
      <3>1. pc[t] = "match" /\ pc'[t] # "match" /\ headerRead' = FALSE /\ UNCHANGED seqidPending_
        BY <1>0, <2>2, Path, LeaveChanges DEF Receive, ReceiveRest
      <3> QED
        BY <1>0, <2>1, <3>1 DEF Reading, Pending
    <2>3. CASE ReadHeader(t)
      <3>1. /\ pc[t] = "read" /\ pc'[t] = "match" /\ headerRead' = TRUE
            /\ replies[Shared] # <<>> /\ rseqid' = NextReply(Shared).seqid
            /\ UNCHANGED <<seqidPending_>>
        BY <1>0, <2>3, Path DEF ReadHeader, syncVars
      <3>2. NextReply(Shared) \in InFlight(Shared)
        BY <1>0, <3>1, TakeMessage DEF RpcTypeOK, NextReply, InFlight, InReplies
      <3>3. PICK u \in Threads : Sent(u) /\ rseqid' = seqid[u]
        BY <1>0, <3>1, <3>2 DEF Answerable
      <3>4. Sent(u)' /\ seqid'[u] = rseqid'
        BY <1>0, <3>1, <3>3, SentStays, Path
      <3> QED
        BY <1>0, <2>1, <3>1, <3>4 DEF Reading, Pending
    <2>4. CASE HandOver(t)
      <3>1. /\ pc[t] = "match" /\ pc'[t] = "check" /\ seqidPending_' = rseqid
            /\ UNCHANGED <<rpcVars, headerRead>>
        BY <1>0, <2>4, Path, OtherwiseQuiet DEF HandOver, HandOverLeaving
      <3>2. PICK u \in Threads : Sent(u) /\ seqid[u] = rseqid
        BY <1>0, <3>1 DEF Pending
      <3>3. Sent(u)' /\ seqid'[u] = rseqid
        BY <1>0, <3>1, <3>2, SentStays, Path
      <3>4. headerRead /\ NextIs(Shared, rseqid)
        BY <1>0, <3>1 DEF Reading
      <3>5. NextIs(Shared, seqidPending_)'
        BY <3>1, <3>4 DEF NextIs, NextReply, rpcVars
      <3>6. rseqid # NoSeqid
        BY <3>2, SentId, ConcurrentAssumption DEF Sent
      <3> QED
        BY <2>1, <3>1, <3>3, <3>4, <3>5, <3>6 DEF Pending
    <2>5. CASE TakePending(t)
      <3>1. /\ pc[t] = "loop" /\ pc'[t] = "match" /\ seqidPending_ # NoSeqid
            /\ rseqid' = seqidPending_ /\ seqidPending_' = NoSeqid /\ UNCHANGED headerRead
        BY <1>0, <2>5, Path DEF TakePending
      <3>2. PICK u \in Threads : Sent(u) /\ seqid[u] = seqidPending_
        BY <1>0, <3>1 DEF Pending
      <3>3. Sent(u)' /\ seqid'[u] = rseqid'
        BY <1>0, <3>1, <3>2, SentStays, Path
      <3> QED
        BY <1>0, <2>1, <3>1, <3>3 DEF Pending
    <2>6. CASE \/ Lock(t, "sent", "loop") \/ Lock(t, "woken", "check") \/ NothingPending(t)
               \/ CheckWork(t) \/ Sleep(t)
      <3>1. pc[t] # "match" /\ pc'[t] # "match" /\ ~Receive(t)
        BY <1>0, <2>6, Path
      <3>2. UNCHANGED <<rpcVars, rseqid, headerRead, seqidPending_>>
        BY <2>6 DEF Lock, NothingPending, CheckWork, Sleep, syncVars
      <3>3. \A i : NextIs(Shared, i)' <=> NextIs(Shared, i)
        BY <3>2 DEF rpcVars, NextIs, NextReply
      <3> QED
        BY <1>0, <2>1, <3>1, <3>2, <3>3, SentStays DEF Pending
    <2> QED
      BY <1>0, <1>2, <2>2, <2>3, <2>4, <2>5, <2>6, Path DEF Orderly, Inside
  <1> QED
    BY <1>0, <1>1, <1>2 DEF Orderly, Inside

\* The holder of the read mutex that is not at loop, read or match is at check
\* or sleep.
LEMMA WakefulStep ==
  ASSUME ClientInv, NEW t \in Threads, Invoke(t) \/ Step(t), ~stop_'
  PROVE  Wakeful'
  <1>0. /\ TypeOK /\ Moved(t, pc'[t]) /\ Reading
        /\ ~stop_ /\ Orderly(t) /\ Pending /\ Wakeful
    BY StepMoves, StaysOrderly DEF ClientInv, InOrder
  <1>1. CASE Invoke(t) \/ GenerateSeqId(t) \/ Send(t)
    <2>1. UNCHANGED <<seqidPending_, wakeupSomeone_>>
      BY <1>1 DEF Invoke, GenerateSeqId, Send, syncVars
    <2>2. pc[t] \in {"idle", "threw", "called", "send"} /\ pc'[t] \in {"called", "send", "threw", "sent"}
      BY <1>0, <1>1, Path
    <2>3. \A u \in Threads : u # t => seqid'[u] = seqid[u]
      BY <1>0, <1>1 DEF Invoke, GenerateSeqId, Send, TypeOK
    <2>4. ASSUME NEW u \in Threads, Sent(u)', seqid'[u] = seqidPending_'
          PROVE  pc'[u] \in {"sent", "woken", "check", "loop"}
      <3>1. CASE u = t
        BY <2>2, <2>4, <3>1 DEF Sent, Numbered, Calling, InCall
      <3>2. CASE u # t
        BY <1>0, <2>1, <2>3, <2>4, <3>2 DEF Moved, Wakeful, Sent, Numbered, Calling, InCall
      <3> QED
        BY <3>1, <3>2
    <2>5. \A u \in Threads : pc'[u] = "sleep" => pc[u] = "sleep" /\ u # t
      BY <1>0, <2>2 DEF Moved
    <2>6. /\ \A u \in Threads : pc'[u] \in {"waiting", "woken", "check", "sleep"}
                                => pc[u] \in {"waiting", "woken", "check", "sleep"}
          /\ \A u \in Threads : pc[u] \in {"loop", "read", "match"} => pc'[u] \in {"loop", "read", "match"}
      BY <1>0, <2>2 DEF Moved
    <2> QED
      BY <1>0, <2>1, <2>3, <2>4, <2>5, <2>6 DEF Wakeful
  <1>2. CASE Inside(t)
    <2>1. /\ \A u \in Threads \ {t} : pc[u] \notin Holding /\ pc'[u] \notin Holding
          /\ UNCHANGED seqid
      BY <1>0, <1>2, HolderAlone, OtherwiseNumbered, Path DEF Inside, Step
    <2>2. \A u \in Threads : Sent(u)' => Sent(u)
      BY <1>0, <1>2, Path DEF Moved, Inside, Sent, Numbered, Calling, InCall
    <2>3. \A u \in Threads : Sent(u) => seqid[u] # NoSeqid
      BY SentId, ConcurrentAssumption DEF Sent
    <2>4. CASE Lock(t, "sent", "loop") \/ Lock(t, "woken", "check")
      <3>1. pc[t] \in {"sent", "woken"} /\ pc'[t] = IF pc[t] = "sent" THEN "loop" ELSE "check"
        BY <1>0, <2>4, Path
      <3>2. UNCHANGED <<seqidPending_, wakeupSomeone_>>
        BY <2>4 DEF Lock
      <3>3. \A u \in Threads : pc'[u] # "sleep"
        BY <2>1, <3>1 DEF Holding
      <3>4. ASSUME NEW u \in Threads, Sent(u)', seqid'[u] = seqidPending_'
            PROVE  pc'[u] \in {"sent", "woken", "check", "loop"}
        BY <1>0, <2>1, <2>2, <3>1, <3>2, <3>4 DEF Moved, Wakeful
      <3>5. \/ \E u \in Threads : pc'[u] \in {"loop", "read", "match"}
            \/ wakeupSomeone_' \/ seqidPending_' # NoSeqid
        <4>1. CASE pc[t] = "sent"
          BY <3>1, <4>1
        <4>2. CASE pc[t] = "woken"
          <5>1. \A u \in Threads : pc[u] \notin {"loop", "read", "match"}
            BY <2>1, <4>2 DEF Holding
          <5> QED
            BY <1>0, <3>2, <4>2, <5>1 DEF Wakeful
        <4> QED
          BY <3>1, <4>1, <4>2
      <3> QED
        BY <3>3, <3>4, <3>5 DEF Wakeful
    <2>5. CASE TakePending(t) \/ NothingPending(t) \/ ReadHeader(t)
      <3>1. pc'[t] \in {"read", "match"} /\ seqidPending_' = NoSeqid
        BY <1>0, <2>5, Path DEF TakePending, NothingPending, ReadHeader, Reading, syncVars
      <3>2. \A u \in Threads : pc'[u] # "sleep"
        BY <2>1, <3>1 DEF Holding
      <3> QED
        BY <2>1, <2>2, <2>3, <3>1, <3>2 DEF Wakeful
    <2>6. CASE Receive(t)
      <3>1. pc'[t] \in {"idle", "threw"} /\ seqidPending_' = NoSeqid
        BY <1>0, <2>6, Path, LeaveChanges DEF Receive, ReceiveRest, Reading
      <3>2. wakeupSomeone_'
        <4>1. PICK m \in {"idle", "threw"}, committed \in BOOLEAN : Leave(t, m, committed)
          BY <2>6 DEF Receive, ReceiveRest
        <4> QED
          BY <1>0, <4>1, LeaveStops
      <3>3. \A u \in Threads : pc'[u] # "sleep"
        BY <2>1, <3>1 DEF Holding
      <3> QED
        BY <2>1, <2>2, <2>3, <3>1, <3>2, <3>3 DEF Wakeful
    <2>7. CASE HandOver(t)
      <3>1. /\ pc[t] = "match" /\ pc'[t] = "check" /\ seqidPending_' = rseqid /\ rseqid # seqid[t]
            /\ Notify(t, "check", {rseqid})
        BY <1>0, <2>7, Path DEF HandOver, HandOverLeaving
      <3>2. rseqid # NoSeqid
        BY <1>0, <2>3, <3>1 DEF Pending
      <3>3. ASSUME NEW u \in Threads, Sent(u)', seqid'[u] = seqidPending_'
            PROVE  pc'[u] \in {"sent", "woken", "check", "loop"}
        <4>1. Sent(u) /\ seqid[u] = rseqid /\ u # t
          BY <2>1, <2>2, <3>1, <3>3
        <4>2. pc[u] \in {"sent", "waiting", "woken"}
          BY <2>1, <4>1 DEF Sent, Numbered, Calling, InCall, Holding
        <4>3. pc'[u] = IF pc[u] = "waiting" THEN "woken" ELSE pc[u]
          BY <3>1, <4>1 DEF Notify
        <4> QED
          BY <4>2, <4>3
      <3>4. \A u \in Threads : pc'[u] # "sleep"
        BY <2>1, <3>1 DEF Holding
      <3> QED
        BY <3>1, <3>2, <3>3, <3>4 DEF Wakeful
    <2>8. CASE CheckWork(t)
      <3>1. /\ pc[t] = "check" /\ UNCHANGED <<seqidPending_, wakeupSomeone_>>
            /\ pc'[t] = IF wakeupSomeone_ \/ seqidPending_ = seqid[t] THEN "loop" ELSE "sleep"
        BY <1>0, <2>8 DEF CheckWork, At, TypeOK, syncVars
      <3>2. \A u \in Threads : pc[u] \notin {"loop", "read", "match"}
        BY <2>1, <3>1 DEF Holding
      <3>3. pc'[t] = "sleep" => seqidPending_ \notin {NoSeqid, seqid[t]}
        BY <1>0, <3>1, <3>2 DEF Wakeful
      <3>4. ASSUME NEW u \in Threads, Sent(u)', seqid'[u] = seqidPending_'
            PROVE  pc'[u] \in {"sent", "woken", "check", "loop"}
        <4>1. Sent(u) /\ seqid[u] = seqidPending_
          BY <2>1, <2>2, <3>1, <3>4
        <4>2. CASE u = t
          BY <3>1, <4>1, <4>2
        <4>3. CASE u # t
          BY <1>0, <4>1, <4>3 DEF Moved, Wakeful
        <4> QED
          BY <4>2, <4>3
      <3>5. \A u \in Threads : pc'[u] = "sleep" => seqidPending_' \notin {NoSeqid, seqid'[u]}
        BY <2>1, <3>1, <3>3 DEF Holding
      <3>6. pc'[t] = "loop" \/ seqidPending_' # NoSeqid
        BY <3>1, <3>3
      <3> QED
        BY <3>4, <3>5, <3>6 DEF Wakeful
    <2>9. CASE Sleep(t)
      <3>1. pc[t] = "sleep" /\ pc'[t] = "waiting" /\ UNCHANGED <<seqidPending_, wakeupSomeone_>>
        BY <1>0, <2>9, Path DEF Sleep
      <3>2. seqidPending_ \notin {NoSeqid, seqid[t]}
        BY <1>0, <3>1 DEF Wakeful
      <3>3. \A u \in Threads : pc'[u] # "sleep"
        BY <2>1, <3>1 DEF Holding
      <3>4. ASSUME NEW u \in Threads, Sent(u)', seqid'[u] = seqidPending_'
            PROVE  pc'[u] \in {"sent", "woken", "check", "loop"}
        BY <1>0, <2>1, <2>2, <3>1, <3>2, <3>4 DEF Moved, Wakeful
      <3> QED
        BY <3>1, <3>2, <3>3, <3>4 DEF Wakeful
    <2> QED
      BY <1>0, <1>2, <2>4, <2>5, <2>6, <2>7, <2>8, <2>9, Path DEF Orderly, Inside
  <1> QED
    BY <1>0, <1>1, <1>2 DEF Orderly, Inside

\* The most recent of the calls that are made.
LEMMA MostRecent ==
  ASSUME NEW n \in Nat, NEW T \in SUBSET (0..(n - 1)), T # {}
  PROVE  \E i \in T : \A j \in T : j <= i
  <1> DEFINE left == {k \in Nat : n - k \in T}
             less == OpToRel(<, Nat)
  <1>1. \A i \in T : n - i \in left
    OBVIOUS
  <1>2. IsWellFoundedOn(less, Nat)
    BY NatLessThanWellFounded
  <1>3. left \subseteq Nat /\ left # {}
    BY <1>1
  <1>4. PICK k \in left : \A l \in left : ~(<<l, k>> \in less)
    <2> HIDE DEF left, less
    <2> QED
      BY <1>2, <1>3, WFMin
  <1>5. \A l \in left : ~(l < k)
    BY <1>4 DEF OpToRel
  <1>6. ASSUME NEW j \in T PROVE j <= n - k
    <2>1. n - j \in left /\ ~(n - j < k)
      BY <1>1, <1>5
    <2>2. k \in Nat /\ j \in Nat
      OBVIOUS
    <2> QED
      BY <2>1, <2>2
  <1>7. n - k \in T
    OBVIOUS
  <1> QED
    BY <1>6, <1>7

LEMMA WatchedStep ==
  ASSUME ClientInv, NEW t \in Threads, Invoke(t) \/ Step(t), ~stop_'
  PROVE  SleepersWatched'
  <1>0. /\ TypeOK /\ Moved(t, pc'[t])
        /\ ~stop_ /\ Orderly(t) /\ Answerable /\ Pending /\ Wakeful /\ SleepersWatched
    BY StepMoves, StaysOrderly DEF ClientInv, InOrder
  <1> SUFFICES ASSUME NEW w \in Threads, pc'[w] = "waiting"
               PROVE  \E u \in Threads : pc'[u] \in Holding \cup {"send", "sent", "woken"}
    BY DEF SleepersWatched
  <1>1. CASE Invoke(t) \/ GenerateSeqId(t) \/ Send(t)
    <2>1. /\ pc'[t] # "waiting"
          /\ pc[t] \in Holding \cup {"send", "sent", "woken"} => pc'[t] = "sent"
      BY <1>0, <1>1, Path DEF Holding
    <2>2. pc[w] = "waiting"
      BY <1>0, <2>1 DEF Moved
    <2>3. PICK u \in Threads : pc[u] \in Holding \cup {"send", "sent", "woken"}
      BY <1>0, <2>2 DEF SleepersWatched
    <2>4. pc'[u] \in Holding \cup {"send", "sent", "woken"}
      BY <1>0, <2>1, <2>3 DEF Moved, Holding
    <2> QED
      BY <2>4
  <1>2. CASE Sleep(t)
    <2>1. pc[t] = "sleep"
      BY <1>0, <1>2, Path
    <2>2. seqidPending_ \notin {NoSeqid, seqid[t]}
      BY <1>0, <2>1 DEF Wakeful
    <2>3. PICK u \in Threads : Sent(u) /\ seqid[u] = seqidPending_
      BY <1>0, <2>2 DEF Pending
    <2>4. pc[u] \in {"sent", "woken", "check", "loop"} /\ u # t
      BY <1>0, <2>2, <2>3 DEF Wakeful
    <2>5. pc[u] \notin Holding
      BY <1>2, <2>4, HolderAlone DEF Inside
    <2>6. pc'[u] \in {"sent", "woken"}
      BY <1>0, <2>4, <2>5 DEF Moved, Holding
    <2> QED
      BY <2>6
  <1>3. CASE Receive(t)
    <2> DEFINE others == seqidToMonitorMap_ \ {seqid[t]}
    <2>1. pc[t] = "match" /\ pc'[t] \in {"idle", "threw"}
      BY <1>0, <1>3, Path
    <2>2. pc[w] = "waiting" /\ w # t
      BY <1>0, <2>1 DEF Moved
    <2>3. Numbered(w) /\ Numbered(t)
      BY <2>1, <2>2 DEF Numbered, Calling, InCall
    <2>4. seqid[w] \in others
      BY <1>0, <2>2, <2>3, SentId DEF Answerable
    <2>5. others \subseteq 0..(MaxCalls - 1) /\ others # {}
      BY <1>0, <2>4, ConcurrentAssumption DEF TypeOK
    <2>6. PICK i \in others : \A j \in others : j <= i
      BY <2>5, MostRecent, ConcurrentAssumption
    <2>7. PICK v \in Threads : Numbered(v) /\ seqid[v] = i
      BY <1>0, <2>6 DEF Answerable
    <2>8. v # t
      BY <2>6, <2>7
    <2>9. pc[v] \in {"send", "sent", "waiting", "woken"}
      BY <1>3, <2>7, <2>8, HolderAlone DEF Inside, Holding, Numbered, Calling, InCall
    <2>10. PICK m \in {"idle", "threw"}, committed \in BOOLEAN : Leave(t, m, committed)
      BY <1>3 DEF Receive, ReceiveRest
    <2>11. committed
      BY <1>0, <2>10, LeaveStops
    <2>12. Notify(t, m, {x \in others : \A j \in others : j <= x})
      BY <2>10, <2>11 DEF Leave, LeaveNotifying
    <2>13. pc'[v] \in {"send", "sent", "woken"}
      BY <2>6, <2>7, <2>8, <2>9, <2>12 DEF Notify
    <2> QED
      BY <2>13
  <1>4. CASE Inside(t) /\ ~Sleep(t) /\ ~Receive(t)
    <2>1. pc'[t] \in Holding
      BY <1>0, <1>4, Path DEF Inside, Orderly, Holding
    <2> QED
      BY <2>1
  <1> QED
    BY <1>0, <1>1, <1>2, <1>3, <1>4 DEF Orderly, Inside
-----------------------------------------------------------------------------
\* The connection and the server, and steps of others.
LEMMA OthersKeep ==
  ASSUME ClientInv, Connect \/ Server \/ UNCHANGED vars
  PROVE  /\ KeepsPlaces(Shared)
         /\ srv'[Shared] = "writing" => out'[Shared] \in Messages
         /\ conn'[Shared] = "none" => replies'[Shared] = <<>> /\ srv'[Shared] = "none"
         /\ UNCHANGED <<threadVars, syncVars>>
  <1>0. /\ RpcTypeOK /\ Shared \in Clients /\ OnePlace(Shared)
        /\ srv[Shared] = "writing" => out[Shared] \in Messages
        /\ conn[Shared] = "none" => replies[Shared] = <<>> /\ srv[Shared] = "none"
    BY ConcurrentAssumption DEF ClientInv, TypeOK, Bounded, Placed, Reading
  <1>1. CASE Connect
    <2>1. Open(Shared) /\ UNCHANGED <<threadVars, syncVars>>
      BY <1>1 DEF Connect
    <2>2. conn[Shared] = "none" /\ conn'[Shared] = "open" /\ srv'[Shared] = "reading"
      BY <1>0, <2>1 DEF Open, RpcTypeOK
    <2> QED
      BY <1>0, <2>1, <2>2, QuietPlaces
  <1>2. CASE Process(Shared) /\ UNCHANGED <<threadVars, syncVars>>
    <2>1. KeepsPlaces(Shared) /\ out'[Shared] \in Messages
      BY <1>0, <1>2, ProcessPlaces, ProcessTyped
    <2>2. UNCHANGED <<conn, replies>> /\ srv[Shared] = "reading"
      BY <1>2 DEF Process, ProcessTaking
    <2> QED
      BY <1>0, <1>2, <2>1, <2>2
  <1>3. CASE WriteReply(Shared) /\ UNCHANGED <<threadVars, syncVars>>
    <2>1. srv[Shared] = "writing" /\ srv'[Shared] # "writing" /\ UNCHANGED conn
      BY <1>0, <1>3 DEF WriteReply, WriteReplySending, RpcTypeOK
    <2> QED
      BY <1>0, <1>3, <2>1, WriteReplyPlaces
  <1>4. CASE Disconnected(Shared) /\ UNCHANGED <<threadVars, syncVars>>
    <2>1. srv[Shared] = "reading" /\ srv'[Shared] = "ended" /\ UNCHANGED <<conn, replies, out>>
      BY <1>0, <1>4 DEF Disconnected, DisconnectedFrom, RpcTypeOK
    <2>2. KeepsPlaces(Shared)
      BY <1>0, <1>4, QuietPlaces
    <2> QED
      BY <1>0, <1>4, <2>1, <2>2
  <1>5. CASE Break(Shared) /\ UNCHANGED <<threadVars, syncVars>>
    <2>1. conn'[Shared] = "broken" /\ UNCHANGED <<srv, out>>
      BY <1>0, <1>5 DEF Break, RpcTypeOK
    <2>2. KeepsPlaces(Shared)
      BY <1>0, <1>5, BreakPlaces
    <2> QED
      BY <1>0, <1>5, <2>1, <2>2
  <1>6. CASE UNCHANGED vars
    <2>1. UNCHANGED rpcVars /\ UNCHANGED <<threadVars, syncVars>>
      BY <1>6 DEF vars
    <2> QED
      BY <1>0, <2>1, QuietPlaces DEF rpcVars
  <1>7. CASE Block(Shared) /\ UNCHANGED <<threadVars, syncVars>>
    <2>1. srv'[Shared] = "blocked" /\ UNCHANGED <<conn, replies, out>> /\ srv[Shared] = "reading"
      BY <1>0, <1>7 DEF Block, RpcTypeOK
    <2>2. KeepsPlaces(Shared)
      BY <1>0, <1>7, BlockPlaces
    <2> QED
      BY <1>0, <1>7, <2>1, <2>2
  <1> QED
    BY <1>1, <1>2, <1>3, <1>4, <1>5, <1>6, <1>7 DEF Server, ServerThread

LEMMA OthersStep ==
  ASSUME ClientInv, Connect \/ Server \/ UNCHANGED vars
  PROVE  ClientInv'
  <1>0. /\ TypeOK /\ Bounded /\ Mutex /\ Ids /\ Placed /\ Reading
        /\ UNCHANGED <<pc, req, seqid, res, rseqid, headerRead, nextseqid_, seqidToMonitorMap_,
                       readMutex_, stop_, wakeupSomeone_, seqidPending_>>
    BY OthersKeep DEF ClientInv, threadVars, syncVars
  <1>1. /\ OnePlace(Shared)'
        /\ \A m \in InFlight(Shared)' : \E n \in InFlight(Shared) : m.seqid = n.seqid
        /\ \A i : NextIs(Shared, i) => NextIs(Shared, i)'
    BY OthersKeep DEF KeepsPlaces
  <1>2. TypeOK'
    <2>1. RpcTypeOK'
      <3>1. CASE UNCHANGED vars
        BY <1>0, <3>1, ConnectionTyped, ConcurrentAssumption DEF vars, TypeOK
      <3>2. CASE Connect \/ Server
        BY <3>2, RpcStep DEF Next
      <3> QED
        BY <3>1, <3>2
    <2> QED
      BY <1>0, <2>1 DEF TypeOK
  <1>3. Bounded'
    <2>1. Unnumbered' = Unnumbered
      BY <1>0 DEF Unnumbered
    <2> QED
      BY <1>0, <2>1, OthersKeep DEF Bounded, Numbered, Calling
  <1>4. Mutex' /\ Ids'
    BY <1>0 DEF Mutex, Ids
  <1>5. Placed'
    BY <1>0, <1>1 DEF Placed
  <1>6. Reading'
    BY <1>0, <1>1, OthersKeep DEF Reading
  <1>7. ASSUME ~stop_ PROVE InOrder'
    <2>1. Answerable /\ Pending /\ Wakeful /\ SleepersWatched
      BY <1>7 DEF ClientInv, InOrder
    <2>2. Answerable'
      BY <1>0, <1>1, <2>1 DEF Answerable, Sent, Numbered, Calling
    <2>3. Pending'
      BY <1>0, <1>1, <2>1 DEF Pending, Sent, Numbered, Calling
    <2>4. Wakeful' /\ SleepersWatched'
      BY <1>0, <2>1 DEF Wakeful, SleepersWatched, Sent, Numbered, Calling
    <2> QED
      BY <2>2, <2>3, <2>4 DEF InOrder
  <1> QED
    BY <1>0, <1>2, <1>3, <1>4, <1>5, <1>6, <1>7 DEF ClientInv

LEMMA InvStep == ASSUME ClientInv, [Next]_vars PROVE ClientInv'
  <1>1. ASSUME NEW t \in Threads, Invoke(t) \/ Step(t) PROVE ClientInv'
    <2>1. RpcTypeOK'
      BY <1>1, RpcStep DEF Next
    <2>2. TypeOK'
      BY <1>1, <2>1, TypesStep
    <2>3. Bounded' /\ Mutex' /\ Ids'
      BY <1>1, BoundedStep, MutexStep, IdsStep
    <2>4. Placed' /\ Reading'
      BY <1>1, PlacedStep, ReadingStep
    <2>5. ~stop_' => InOrder'
      BY <1>1, AnswerableStep, PendingStep, WakefulStep, WatchedStep DEF InOrder
    <2> QED
      BY <2>2, <2>3, <2>4, <2>5 DEF ClientInv
  <1> QED
    BY <1>1, OthersStep DEF Next

\* The inductive invariant: it relates the ids that threads hold, the messages
\* on the connection, the monitors and the pending header.
THEOREM ClientInvariant == Spec => []ClientInv
  BY InitInv, InvStep, PTL DEF Spec

\* The variables keep their types; no id is given out beyond the bound, and no
\* reader takes a field that is not in the message (recv_, presult).
THEOREM ClientTyped == Spec => []TypeOK
  <1>1. ClientInv => TypeOK
    BY DEF ClientInv
  <1> QED
    BY <1>1, ClientInvariant, PTL

LEMMA AtMostOne ==
  ASSUME NEW S, \A x, y \in S : x = y
  PROVE  Cardinality(S) <= 1
  <1>1. CASE S = {}
    BY <1>1, FS_EmptySet
  <1>2. CASE S # {}
    <2>1. PICK x \in S : S = {x}
      BY <1>2
    <2> QED
      BY <2>1, FS_Singleton
  <1> QED
    BY <1>1, <1>2

LEMMA InvHeader == ASSUME ClientInv PROVE HeaderKept
  <1> DEFINE holders == {t \in Threads : pc[t] = "match"}
             known == ({seqidPending_} \ {NoSeqid}) \cup {rseqid : t \in holders}
  <1> SUFFICES ASSUME ~stop_
               PROVE  /\ headerRead <=> known # {}
                      /\ Cardinality(known) <= 1
                      /\ \A t \in Threads : pc[t] = "read" => ~headerRead
                      /\ known \subseteq seqidToMonitorMap_
                      /\ headerRead /\ replies[Shared] # <<>> => NextReply(Shared).seqid \in known
    BY DEF HeaderKept
  <1>0. Reading /\ Answerable /\ Pending
    BY DEF ClientInv, InOrder
  <1>1. headerRead <=> known # {}
    BY <1>0 DEF Pending
  <1>2. Cardinality(known) <= 1
    <2>1. \A x, y \in known : x = y
      BY <1>0 DEF Reading
    <2> QED
      BY <2>1, AtMostOne
  <1>3. \A t \in Threads : pc[t] = "read" => ~headerRead
    BY <1>0 DEF Reading
  <1>4. known \subseteq seqidToMonitorMap_
    <2>1. ASSUME NEW i \in known PROVE \E u \in Threads : Sent(u) /\ seqid[u] = i
      BY <1>0 DEF Pending
    <2> QED
      BY <1>0, <2>1 DEF Answerable, Sent
  <1>5. headerRead /\ replies[Shared] # <<>> => NextReply(Shared).seqid \in known
    BY <1>0 DEF Pending, Reading, NextIs
  <1> QED
    BY <1>1, <1>2, <1>3, <1>4, <1>5

\* The header that was read but whose message was not is kept in one place, it
\* is that of the next message, and its call is still being made (HeaderKept).
THEOREM ClientKeepsHeader == Spec => []HeaderKept
  BY InvHeader, ClientInvariant, PTL

\* No thread is left asleep on a client in order without one that reads, or is
\* on its way to (SleepersWatched).
THEOREM ClientWatchesSleepers == Spec => []SleepersWatched
  <1>1. ClientInv => SleepersWatched
    BY DEF ClientInv, InOrder, SleepersWatched
  <1> QED
    BY <1>1, ClientInvariant, PTL
=============================================================================
