------------------------- MODULE KVConcurrentClient -------------------------
(***************************************************************************)
(* KVStoreConcurrentClient: threads that share one connection.  A thread   *)
(* takes a sequence id, sends its call, and then reads messages until it   *)
(* meets the answer with its id.  The header of a message that answers     *)
(* another thread is left pending, and that thread is woken to read the    *)
(* rest.  Only the holder of the read mutex reads; the mutex is released   *)
(* while a thread sleeps.                                                  *)
(*                                                                         *)
(* The client's sync_, a TConcurrentClientSyncInfo, and its sentries are   *)
(* Thrift's and external.  The write mutex is left out: a send is one step.*)
(***************************************************************************)
EXTENDS KVRpc, FiniteSets, Functions

CONSTANTS Threads,   \* the threads that use the client
          Shared,    \* the one member of Clients: their connection
          Workload,  \* Workload[t]: the calls thread t draws from
          MaxCalls,  \* bound on the calls that get a sequence id
          NoThread,  \* "nobody holds the read mutex"
          NoSeqid    \* "no message is pending", "the thread has no id yet"

ASSUME ConcurrentAssumption ==
  /\ Clients = {Shared}
  /\ Workload \in [Threads -> SUBSET Requests]
  /\ MaxCalls \in Nat
  /\ SeqIds = 0..(MaxCalls - 1)
  /\ MayFail \in BOOLEAN
  /\ NoThread \notin Threads
  /\ NoSeqid \notin SeqIds

VARIABLES pc,         \* pc[t]: where thread t is
          req,        \* req[t]: the call it makes or made last
          seqid,      \* seqid[t]: the id of that call
          res,        \* res[t]: the Result it passes
          rseqid,     \* the id in the header the holder of the read mutex has
          headerRead, \* whether the header of the next message has been read
          nextseqid_, seqidToMonitorMap_, readMutex_,
          stop_, wakeupSomeone_,
          seqidPending_  \* the id of the pending header, or NoSeqid

syncVars == <<nextseqid_, seqidToMonitorMap_, readMutex_, stop_, wakeupSomeone_, seqidPending_>>
threadVars == <<pc, req, seqid, res, rseqid, headerRead>>
vars == <<rpcVars, threadVars, syncVars>>

Locations ==
  {"idle", "threw",  \* between two calls; the last one threw
   "called",         \* before generateSeqId
   "send",           \* it has an id
   "sent",           \* it constructs the receive sentry: readMutex_.lock()
   "loop",           \* at the head of the loop of recv_
   "read",           \* in readMessageBegin
   "match",          \* it has a header
   "check",          \* at the head of the loop of waitForWork
   "sleep",          \* it found no work and goes to sleep
   "waiting",        \* asleep on its monitor, the read mutex released
   "woken"}          \* notified, it takes the read mutex again

InCall == {"called", "send", "sent", "loop", "read", "match", "check", "sleep", "waiting", "woken"}

Holding == {"loop", "read", "match", "check", "sleep"}

TypeOK ==
  /\ RpcTypeOK
  /\ pc \in [Threads -> Locations]
  /\ req \in [Threads -> Requests \cup {NoRequest}]
  /\ seqid \in [Threads -> SeqIds \cup {NoSeqid}]
  /\ res \in [Threads -> Result]
  /\ {rseqid, seqidPending_} \subseteq SeqIds \cup {NoSeqid}
  /\ nextseqid_ \in Nat
  /\ seqidToMonitorMap_ \subseteq SeqIds
  /\ readMutex_ \in Threads \cup {NoThread}
  /\ {headerRead, stop_, wakeupSomeone_} \subseteq BOOLEAN

Init ==
  /\ RpcInit
  /\ pc = [t \in Threads |-> "idle"]
  /\ req = [t \in Threads |-> NoRequest]
  /\ seqid = [t \in Threads |-> NoSeqid]
  /\ res = [t \in Threads |-> DefaultResult]
  /\ rseqid = NoSeqid
  /\ headerRead = FALSE
  /\ nextseqid_ = 0
  /\ seqidToMonitorMap_ = {}
  /\ readMutex_ = NoThread
  /\ stop_ = FALSE
  /\ wakeupSomeone_ = FALSE
  /\ seqidPending_ = NoSeqid
-----------------------------------------------------------------------------
\* Thread t goes from location l to m.
At(t, l, m) == pc[t] = l /\ pc' = [pc EXCEPT ![t] = m]

\* Thread t goes to m and notifies the monitors of ids: whoever sleeps there
\* wakes up, and a notification nobody waits for is lost.
Notify(t, m, ids) ==
  pc' = [u \in Threads |->
           IF u = t THEN m
           ELSE IF pc[u] = "waiting" /\ seqid[u] \in ids THEN "woken" ELSE pc[u]]

\* markBad_: the client is unusable from now on, and everybody is woken.
MarkBad(t) ==
  /\ stop_' = TRUE
  /\ wakeupSomeone_' = TRUE
  /\ Notify(t, "threw", seqidToMonitorMap_)

\* The destructor of the receive sentry at the end of a call, to location m:
\* it releases the read mutex.  A committed one notifies somebody to read on.
LeaveNotifying(t, m, committed, notified) ==
  /\ seqidToMonitorMap_' = seqidToMonitorMap_ \ {seqid[t]}
  /\ readMutex_' = NoThread
  /\ IF committed
       THEN wakeupSomeone_' = TRUE /\ Notify(t, m, notified) /\ UNCHANGED stop_
       ELSE MarkBad(t)
  /\ UNCHANGED <<nextseqid_, seqidPending_>>

\* A slip the properties are there to catch: nobody is notified.
LeaveSilently(t, m, committed) == LeaveNotifying(t, m, committed, {})

\* wakeupAnyone_: the most recent of the other calls.
Leave(t, m, committed) ==
  LET others == seqidToMonitorMap_ \ {seqid[t]} IN
  LeaveNotifying(t, m, committed, {i \in others : \A j \in others : j <= i})

Fails(t) == Leave(t, "threw", FALSE) /\ UNCHANGED <<rpcVars, req, seqid, res, rseqid, headerRead>>
-----------------------------------------------------------------------------
Connect == Open(Shared) /\ UNCHANGED <<threadVars, syncVars>>

\* kvset, kvget, kvdelete.
Invoke(t) ==
  /\ conn[Shared] # "none"
  /\ nextseqid_ + Cardinality({u \in Threads : pc[u] = "called"}) < MaxCalls
  /\ At(t, "idle", "called") \/ At(t, "threw", "called")
  /\ \E r \in Workload[t] : req' = [req EXCEPT ![t] = r]
  /\ UNCHANGED <<rpcVars, seqid, res, rseqid, headerRead, syncVars>>

\* generateSeqId, which adds a monitor, or throws on a client that is dead.
GenerateSeqId(t) ==
  /\ IF stop_
       THEN At(t, "called", "threw") /\ UNCHANGED <<seqid, nextseqid_, seqidToMonitorMap_>>
       ELSE /\ At(t, "called", "send")
            /\ seqid' = [seqid EXCEPT ![t] = nextseqid_]
            /\ nextseqid_' = nextseqid_ + 1
            /\ seqidToMonitorMap_' = seqidToMonitorMap_ \cup {nextseqid_}
  /\ UNCHANGED <<rpcVars, req, res, rseqid, headerRead,
                 readMutex_, stop_, wakeupSomeone_, seqidPending_>>

Send(t) ==
  /\ At(t, "send", "sent")
  /\ SendCall(Shared, req[t], seqid[t])
  /\ UNCHANGED <<req, seqid, res, rseqid, headerRead, syncVars>>

\* The write throws: the send sentry, not committed, marks the client bad.  It
\* does not hold the read mutex, and the monitor of the call stays in the map.
SendFails(t) ==
  /\ pc[t] = "send"
  /\ conn[Shared] = "broken"
  /\ MarkBad(t)
  /\ UNCHANGED <<rpcVars, req, seqid, res, rseqid, headerRead,
                 nextseqid_, seqidToMonitorMap_, readMutex_, seqidPending_>>

\* Thread t, at l, gets the read mutex: at the start, or when woken.
Lock(t, l, m) ==
  /\ readMutex_ = NoThread
  /\ At(t, l, m)
  /\ readMutex_' = t
  /\ UNCHANGED <<rpcVars, req, seqid, res, rseqid, headerRead,
                 nextseqid_, seqidToMonitorMap_, stop_, wakeupSomeone_, seqidPending_>>

\* getPending finds the header another thread left.
TakePending(t) ==
  /\ ~stop_ /\ seqidPending_ # NoSeqid
  /\ At(t, "loop", "match")
  /\ rseqid' = seqidPending_
  /\ seqidPending_' = NoSeqid
  /\ wakeupSomeone_' = FALSE
  /\ UNCHANGED <<rpcVars, req, seqid, res, headerRead,
                 nextseqid_, seqidToMonitorMap_, readMutex_, stop_>>

\* There is none, and the thread goes on to readMessageBegin.
NothingPending(t) ==
  /\ ~stop_ /\ seqidPending_ = NoSeqid
  /\ At(t, "loop", "read")
  /\ wakeupSomeone_' = FALSE
  /\ UNCHANGED <<rpcVars, req, seqid, res, rseqid, headerRead,
                 nextseqid_, seqidToMonitorMap_, readMutex_, stop_, seqidPending_>>

\* getPending or waitForWork throws: the client has died on another thread.
Dead(t) == stop_ /\ pc[t] \in {"loop", "check"} /\ Fails(t)

\* readMessageBegin.
ReadHeader(t) ==
  /\ replies[Shared] # <<>>
  /\ At(t, "read", "match")
  /\ rseqid' = NextReply(Shared).seqid
  /\ headerRead' = TRUE
  /\ UNCHANGED <<rpcVars, req, seqid, res, syncVars>>

\* The header, or the rest of the message, cannot be read.
ReadFails(t) ==
  /\ EndOfStream(Shared)
  /\ pc[t] = "read" \/ (pc[t] = "match" /\ rseqid = seqid[t])
  /\ Fails(t)

\* The rest of the message is read.  An answer and a T_EXCEPTION leave the
\* client in order, anything else does not.
ReceiveRest(t) ==
  LET m == NextReply(Shared)
      returns == Expected(m, req[t].fname) /\ Returns(m) IN
  /\ pc[t] = "match"
  /\ RecvReply(Shared)
  /\ headerRead' = FALSE
  /\ res' = IF returns THEN [res EXCEPT ![t] = presult(m.fields, @)] ELSE res
  /\ Leave(t, IF returns THEN "idle" ELSE "threw", returns \/ m.mtype = "T_EXCEPTION")
  /\ UNCHANGED <<req, seqid, rseqid>>

\* updatePending: the header becomes the pending one, and a thread is notified.
HandOverLeaving(t, pending, notified) ==
  /\ pc[t] = "match" /\ rseqid # seqid[t]
  /\ seqidPending_' = pending
  /\ Notify(t, "check", notified)
  /\ UNCHANGED <<rpcVars, req, seqid, res, rseqid, headerRead,
                 nextseqid_, seqidToMonitorMap_, readMutex_, stop_, wakeupSomeone_>>

\* Slips the properties are there to catch: the id is not compared; the pending
\* header is not kept; the thread it is for is not notified.
ReceiveUnmatched(t) == ReceiveRest(t)

HandOverDropping(t) == HandOverLeaving(t, NoSeqid, {rseqid})

HandOverSilently(t) == HandOverLeaving(t, rseqid, {})

\* The message answers the call of this thread, or that of another.  (One that
\* answers nobody's, for which updatePending throws, does not come: HeaderKept.)
Receive(t) == rseqid = seqid[t] /\ ReceiveRest(t)

HandOver(t) == HandOverLeaving(t, rseqid, {rseqid})

\* The loop of waitForWork: there is work, or the thread will sleep.
CheckWork(t) ==
  /\ ~stop_
  /\ At(t, "check", IF wakeupSomeone_ \/ seqidPending_ = seqid[t] THEN "loop" ELSE "sleep")
  /\ UNCHANGED <<rpcVars, req, seqid, res, rseqid, headerRead, syncVars>>

\* waitForever releases the read mutex and waits in one step.
Sleep(t) ==
  /\ At(t, "sleep", "waiting")
  /\ readMutex_' = NoThread
  /\ UNCHANGED <<rpcVars, req, seqid, res, rseqid, headerRead,
                 nextseqid_, seqidToMonitorMap_, stop_, wakeupSomeone_, seqidPending_>>

Step(t) ==
  \/ GenerateSeqId(t)
  \/ Send(t) \/ SendFails(t)
  \/ Lock(t, "sent", "loop") \/ Lock(t, "woken", "check")
  \/ TakePending(t) \/ NothingPending(t) \/ Dead(t)
  \/ ReadHeader(t) \/ ReadFails(t)
  \/ Receive(t) \/ HandOver(t)
  \/ CheckWork(t) \/ Sleep(t)

Server == (ServerThread(Shared) \/ Break(Shared)) /\ UNCHANGED <<threadVars, syncVars>>

Next == Connect \/ (\E t \in Threads : Invoke(t) \/ Step(t)) \/ Server

Spec == Init /\ [][Next]_vars

\* The threads and the server's are scheduled, and a mutex that is free is
\* taken.  Nothing makes a thread call.
Fairness ==
  /\ \A t \in Threads : WF_vars(Step(t))
  /\ WF_vars(ServerThread(Shared) /\ UNCHANGED <<threadVars, syncVars>>)

FairSpec == Spec /\ Fairness
-----------------------------------------------------------------------------
(***************************************************************************)
(* Properties.                                                             *)
(***************************************************************************)
\* A header that was read is either pending or in the hands of the holder of
\* the read mutex, it is that of the next message, and the call it answers is
\* still being made: no thread takes the middle of a message for a beginning,
\* or one message for another, and no answer is for nobody.
HeaderKept ==
  LET holders == {t \in Threads : pc[t] = "match"}
      known == ({seqidPending_} \ {NoSeqid}) \cup {rseqid : t \in holders} IN
  ~stop_ =>
    /\ headerRead <=> known # {}
    /\ Cardinality(known) <= 1
    /\ \A t \in Threads : pc[t] = "read" => ~headerRead
    /\ known \subseteq seqidToMonitorMap_
    /\ headerRead /\ replies[Shared] # <<>> => NextReply(Shared).seqid \in known

\* As long as the client is in order, a thread sleeps only while another one
\* reads, or is on its way to.
SleepersWatched ==
  ~stop_ /\ (\E t \in Threads : pc[t] = "waiting") =>
    \E u \in Threads : pc[u] \in Holding \cup {"send", "sent", "woken"}

\* At most once, as in KVClients, for every thread: it gets the answer to its
\* own call and not another thread's.
Calling(t) == pc[t] \in InCall

Numbered(t) == Calling(t) /\ pc[t] # "called"

CallReply == [t \in Threads |-> IF Numbered(t) THEN served[Shared][seqid[t]] ELSE NoReply]

CallPhase ==
  [t \in Threads |->
     IF ~Calling(t) THEN "idle" ELSE IF CallReply[t] = NoReply THEN "invoked" ELSE "done"]

CallReq == [t \in Threads |-> IF Calling(t) THEN req[t] ELSE NoRequest]

LateCalls ==
  [t \in Threads |->
     IF Numbered(t) THEN {}
     ELSE {Args(m) : m \in {x \in Range(calls[Shared]) : x.seqid = seqid[t]}}]

Threw == {t \in Threads : pc[t] = "threw"}

Calls1 == INSTANCE KVCalls WITH
  Conns <- Threads,
  Ops <- {"kvset", "kvget", "kvdelete"},
  SetValues <- Strings,
  phase <- CallPhase,
  req <- CallReq,
  reply <- CallReply,
  threw <- Threw,
  late <- LateCalls

AtMostOnce == Calls1!CallsSpec

\* Every call ends, by its answer or by an exception, whichever thread read it.
\* That takes a notification for each thread asleep, also when a failed send
\* has left a monitor behind on which nobody sleeps, and when it marks the
\* client bad while another thread is about to sleep: the last to read wakes it.
\* Only a call that needs the server's mutex after a kvset has thrown does not.
CallsEnd == \A t \in Threads : Calling(t) ~> ~Calling(t) \/ Blocked(Shared)
=============================================================================
