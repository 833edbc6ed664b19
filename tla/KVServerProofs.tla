--------------------------- MODULE KVServerProofs ---------------------------
(***************************************************************************)
(* Proofs about KVServer, for any sets of connections, keys, values and    *)
(* locked handlers and any number of failing allocations.                  *)
(***************************************************************************)
EXTENDS KVServer, TLAPS

LEMMA IssuedRequests ==
  ASSUME NEW r \in Issued
  PROVE  /\ r.fname \in Ops
         /\ r.fname \in AllOps
         /\ r.key \in Keys
         /\ r.value \in Strings
  BY DEF Issued, Requests, AllOps, Strings

LEMMA AnswersTyped ==
  /\ Reply(Succeeded) \in Replies
  /\ Reply(NotStored) \in Replies
  /\ Exception \in Replies
  /\ \A v \in Strings : Reply(Lookup(v)) \in Replies
  BY DEF Reply, Succeeded, NotStored, Exception, Lookup, Replies, Result, DefaultResult,
         ErrorCode, Strings

LEMMA AfterAccessTyped ==
  \A c : AfterAccess(c) \in {"unlock", "reply"}
  BY DEF AfterAccess
-----------------------------------------------------------------------------
LEMMA InitInv == Init => IndInv
  <1> SUFFICES ASSUME Init PROVE IndInv
    OBVIOUS
  <1>1. TypeOK
    <2>1. store \in [Keys -> Strings \cup {Absent}] /\ lck \in Conns \cup {NoConn}
      BY DEF Init
    <2>2. pc \in [Conns -> Locations]
      BY DEF Init, Locations
    <2>3. req \in [Conns -> Issued \cup {NoRequest}] /\ reply \in [Conns -> Replies \cup {NoReply}]
      BY DEF Init
    <2>4. faults \in 0..MaxFaults
      BY ServerAssumption DEF Init
    <2>5. {corrupted, crashed} \subseteq BOOLEAN
      BY DEF Init
    <2> QED
      BY <2>1, <2>2, <2>3, <2>4, <2>5 DEF TypeOK
  <1>2. HasRequest /\ RightPlace /\ HoldsLock
    BY DEF Init, HasRequest, RightPlace, HoldsLock
  <1> QED
    BY <1>1, <1>2 DEF IndInv

\* What the steps of a thread have in common: it moves, and the others stay.
LEMMA TypeStep ==
  ASSUME IndInv, Next
  PROVE  TypeOK'
  <1> USE DEF IndInv, TypeOK
  <1>1. PICK c \in Conns : \/ Accept(c) \/ Close(c)
                           \/ \E r \in Issued : Receive(c, r)
                           \/ Serve(c)
    BY DEF Next
  <1>2. CASE Accept(c) \/ Close(c)
    BY <1>2 DEF Accept, Close, GoTo, Locations
  <1>3. ASSUME NEW r \in Issued, Receive(c, r) PROVE TypeOK'
    BY <1>3 DEF Receive, GoTo, Locations
  <1>4. CASE Enter(c)
    BY <1>4 DEF Enter, GoTo, Locations
  <1>5. CASE Subscript(c) \/ SubscriptFails(c)
    BY <1>5, ServerAssumption DEF Subscript, SubscriptFails, AllocationFails, GoTo, Locations, Strings
  <1>6. CASE Assign(c)
    <2>1. req[c].value \in Strings /\ req[c].key \in Keys
      BY <1>6, IssuedRequests DEF Assign, HasRequest
    <2> QED
      BY <1>6, <2>1, AnswersTyped, AfterAccessTyped DEF Assign, GoTo, Respond, Locations
  <1>7. CASE Copy(c)
    <2>1. req[c].key \in Keys
      BY <1>7, IssuedRequests DEF Copy, HasRequest
    <2>2. store[req[c].key] \in Strings
      BY <1>7, <2>1 DEF Copy
    <2> QED
      BY <1>7, <2>2, AnswersTyped, AfterAccessTyped DEF Copy, GoTo, Respond, Locations
  <1>8. CASE CopyFails(c)
    BY <1>8, ServerAssumption DEF CopyFails, AllocationFails, GoTo, Locations
  <1>9. CASE Erase(c)
    BY <1>9, AnswersTyped, AfterAccessTyped DEF Erase, GoTo, Respond, Locations
  <1>10. CASE Catch(c)
    BY <1>10, AnswersTyped, AfterAccessTyped DEF Catch, GoTo, Respond, Locations, Strings
  <1>11. CASE CatchFails(c)
    BY <1>11, ServerAssumption, AnswersTyped DEF CatchFails, AllocationFails, GoTo, Respond, Locations
  <1>12. CASE Unlock(c)
    BY <1>12 DEF Unlock, GoTo, Locations
  <1>13. CASE Undefined(c)
    BY <1>13, AnswersTyped, AfterAccessTyped DEF Undefined, GoTo, Respond, Locations
  <1>14. CASE Return(c) \/ HangUp(c)
    BY <1>14 DEF Return, HangUp, EndCall, GoTo, Locations
  <1> QED
    BY <1>1, <1>2, <1>3, <1>4, <1>5, <1>6, <1>7, <1>8, <1>9, <1>10, <1>11, <1>12, <1>13, <1>14
       DEF Serve
-----------------------------------------------------------------------------
\* An access that is over leaves the thread where AfterAccess says: at its
\* unlock() with the mutex, or past the handler.
LEMMA ControlStep ==
  ASSUME IndInv, Next
  PROVE  HasRequest' /\ RightPlace' /\ HoldsLock'
  <1> USE DEF IndInv, TypeOK, HasRequest, RightPlace, HoldsLock, GoTo
  <1>1. PICK c \in Conns : \/ Accept(c) \/ Close(c)
                           \/ \E r \in Issued : Receive(c, r)
                           \/ Serve(c)
    BY DEF Next
  <1>2. CASE Accept(c) \/ Close(c)
    BY <1>2 DEF Accept, Close
  <1>3. ASSUME NEW r \in Issued, Receive(c, r)
        PROVE  HasRequest' /\ RightPlace' /\ HoldsLock'
    BY <1>3 DEF Receive
  <1>4. CASE Enter(c)
    BY <1>4, ServerAssumption DEF Enter
  <1>5. CASE Subscript(c)
    BY <1>5 DEF Subscript
  <1>6. CASE SubscriptFails(c) \/ CopyFails(c)
    BY <1>6, ServerAssumption DEF SubscriptFails, CopyFails, AllocationFails
  <1>7. CASE Assign(c) \/ Copy(c) \/ Erase(c) \/ Catch(c)
    BY <1>7 DEF Assign, Copy, Erase, Catch, AfterAccess
  <1>8. CASE CatchFails(c)
    BY <1>8, ServerAssumption DEF CatchFails, AllocationFails
  <1>9. CASE Unlock(c)
    BY <1>9, ServerAssumption DEF Unlock
  <1>10. CASE Undefined(c)
    BY <1>10 DEF Undefined, AfterAccess
  <1>11. CASE Return(c) \/ HangUp(c)
    BY <1>11 DEF Return, HangUp, EndCall
  <1> QED
    BY <1>1, <1>2, <1>3, <1>4, <1>5, <1>6, <1>7, <1>8, <1>9, <1>10, <1>11 DEF Serve

LEMMA Stutter ==
  ASSUME IndInv, UNCHANGED vars
  PROVE  IndInv'
  BY DEF IndInv, TypeOK, HasRequest, RightPlace, HoldsLock, vars

\* The inductive invariant: locking handlers hold the mutex, whatever the
\* others do to the map, undefined behaviour included.
THEOREM Invariance == Spec => []IndInv
  <1>1. IndInv /\ [Next]_vars => IndInv'
    <2> SUFFICES ASSUME IndInv, [Next]_vars PROVE IndInv'
      OBVIOUS
    <2>1. CASE Next
      BY <2>1, TypeStep, ControlStep DEF IndInv
    <2>2. CASE UNCHANGED vars
      BY <2>2, Stutter
    <2> QED
      BY <2>1, <2>2
  <1> QED
    BY <1>1, InitInv, PTL DEF Spec

\* Every variable of the server keeps to its type, through failed
\* allocations, races and hung-up clients.
THEOREM TypeCorrect == Spec => []TypeOK
  BY Invariance, PTL DEF IndInv

\* Two handlers that both hold lck are never in the map at once: a data race
\* on shared_kvstore needs a handler that takes no lock, as kvdelete.
THEOREM RacesNeedUnlocked == Spec => []LockingSuffices
  <1>1. IndInv => LockingSuffices
    BY DEF IndInv, HoldsLock, LockingSuffices, Conflict, WritesTree
  <1> QED
    BY <1>1, Invariance, PTL
-----------------------------------------------------------------------------
\* A thread holds the mutex for a handler that locks and is not over; or two
\* allocations have failed; or a race has damaged the map, and the thread is
\* lost in it or one allocation has failed.
HolderInside ==
  \A c \in Conns :
    lck = c => \/ pc[c] \in {"find", "use", "catch", "unlock"} /\ req[c].fname \in LockedOps
               \/ faults > 1
               \/ corrupted /\ (pc[c] = "lost" \/ faults > 0)

LEMMA HolderStep ==
  ASSUME IndInv, HolderInside, Next
  PROVE  HolderInside'
  <1> USE ServerAssumption DEF IndInv, TypeOK, HasRequest, RightPlace, HoldsLock, HolderInside, GoTo
  <1>1. PICK c \in Conns : \/ Accept(c) \/ Close(c)
                           \/ \E r \in Issued : Receive(c, r)
                           \/ Serve(c)
    BY DEF Next
  <1>2. CASE Accept(c) \/ Close(c)
    BY <1>2 DEF Accept, Close
  <1>3. ASSUME NEW r \in Issued, Receive(c, r) PROVE HolderInside'
    BY <1>3 DEF Receive
  <1>4. CASE Enter(c)
    BY <1>4 DEF Enter
  <1>5. CASE Subscript(c)
    BY <1>5 DEF Subscript
  <1>6. CASE SubscriptFails(c) \/ CopyFails(c)
    BY <1>6 DEF SubscriptFails, CopyFails, AllocationFails
  <1>7. CASE Assign(c) \/ Copy(c) \/ Erase(c) \/ Catch(c)
    BY <1>7 DEF Assign, Copy, Erase, Catch, AfterAccess
  <1>8. CASE CatchFails(c)
    BY <1>8 DEF CatchFails, AllocationFails
  <1>9. CASE Unlock(c)
    BY <1>9 DEF Unlock
  <1>10. CASE Undefined(c)
    BY <1>10 DEF Undefined, AfterAccess
  <1>11. CASE Return(c) \/ HangUp(c)
    BY <1>11 DEF Return, HangUp, EndCall
  <1> QED
    BY <1>1, <1>2, <1>3, <1>4, <1>5, <1>6, <1>7, <1>8, <1>9, <1>10, <1>11 DEF Serve

\* The mutex stays locked for ever only when an allocation fails in kvset and
\* another one in its catch (...), or after a race on the map, in which the
\* thread that holds it is lost or a single failure is enough; whichever
\* handlers lock.
THEOREM StuckNeedsCause == Spec => []StuckHasCause
  <1>1. Init => HolderInside
    BY ServerAssumption DEF Init, HolderInside
  <1>2. IndInv /\ HolderInside /\ [Next]_vars => HolderInside'
    <2>1. IndInv /\ HolderInside /\ Next => HolderInside'
      BY HolderStep
    <2>2. HolderInside /\ UNCHANGED vars => HolderInside'
      BY DEF HolderInside, vars
    <2> QED
      BY <2>1, <2>2
  <1>3. HolderInside => StuckHasCause
    BY DEF HolderInside, StuckHasCause, Stuck
  <1> QED
    BY <1>1, <1>2, <1>3, Invariance, PTL DEF Spec
-----------------------------------------------------------------------------
(***************************************************************************)
(* From here on the calls take turns in the map: every call the clients    *)
(* issue has a handler that locks, as in kvserver_consistent under kvset   *)
(* and kvget, or there is one client, as in a run of kvclient alone.       *)
(***************************************************************************)
OneAtATime == Ops \subseteq LockedOps \/ (\A c, d \in Conns : c = d)

\* The map is sound, a reference into it is never dangling, and no answer is
\* early.
SafeInv == IndInv /\ ~corrupted /\ (\A c \in Conns : ~Dangling(c)) /\ AnswerPending

LEMMA OneInTheMap ==
  ASSUME OneAtATime, IndInv, NEW c \in Conns, NEW d \in Conns,
         pc[c] \in {"find", "use", "catch", "unlock"},
         pc[d] \in {"find", "use", "catch", "unlock"}
  PROVE  c = d
  <1>1. CASE Ops \subseteq LockedOps
    <2>1. req[c].fname \in LockedOps /\ req[d].fname \in LockedOps
      BY <1>1, IssuedRequests DEF IndInv, HasRequest
    <2> QED
      BY <2>1 DEF IndInv, HoldsLock
  <1>2. CASE \A e, f \in Conns : e = f
    BY <1>2
  <1> QED
    BY <1>1, <1>2 DEF OneAtATime

LEMMA NoRace ==
  ASSUME OneAtATime, SafeInv
  PROVE  RaceFree
  <1>1. ~DataRace
    BY OneInTheMap DEF SafeInv, DataRace, Conflict, WritesTree
  <1> QED
    BY <1>1 DEF SafeInv, RaceFree

LEMMA SafeStep ==
  ASSUME OneAtATime, SafeInv, Next
  PROVE  SafeInv'
  <1>1. IndInv'
    BY TypeStep, ControlStep DEF SafeInv, IndInv
  <1>2. PICK c \in Conns : \/ Accept(c) \/ Close(c)
                           \/ \E r \in Issued : Receive(c, r)
                           \/ Serve(c)
    BY DEF Next
  <1>3. ~Undefined(c)
    BY NoRace DEF RaceFree, Undefined, SafeInv
  <1>4. ASSUME NEW d \in Conns PROVE ~Dangling(d)'
    <2> USE DEF SafeInv, IndInv, TypeOK, HasRequest, Dangling, GoTo
    <2>1. CASE Accept(c) \/ Close(c) \/ (\E r \in Issued : Receive(c, r)) \/ Enter(c)
      BY <2>1 DEF Accept, Close, Receive, Enter
    <2>2. CASE Subscript(c)
      <3>1. req[c].key \in Keys
        BY <2>2, IssuedRequests DEF Subscript
      <3> QED
        BY <2>2, <3>1, ServerAssumption DEF Subscript, Strings
    <2>3. CASE SubscriptFails(c) \/ CopyFails(c) \/ CatchFails(c) \/ Catch(c) \/ Copy(c)
      BY <2>3, AfterAccessTyped DEF SubscriptFails, CopyFails, CatchFails, Catch, Copy
    <2>4. CASE Assign(c)
      <3>1. req[c].key \in Keys /\ req[c].value \in Strings
        BY <2>4, IssuedRequests DEF Assign
      <3> QED
        BY <2>4, <3>1, ServerAssumption, AfterAccessTyped DEF Assign
    <2>5. CASE Erase(c)
      BY <2>5, OneInTheMap, AfterAccessTyped DEF Erase
    <2>6. CASE Unlock(c) \/ Return(c) \/ HangUp(c)
      BY <2>6 DEF Unlock, Return, HangUp, EndCall
    <2> QED
      BY <1>2, <1>3, <2>1, <2>2, <2>3, <2>4, <2>5, <2>6 DEF Serve
  <1>5. AnswerPending'
    <2> USE DEF SafeInv, IndInv, TypeOK, AnswerPending, GoTo
    <2>1. CASE Accept(c) \/ Close(c) \/ (\E r \in Issued : Receive(c, r)) \/ Enter(c) \/ Subscript(c)
      BY <2>1 DEF Accept, Close, Receive, Enter, Subscript
    <2>2. CASE SubscriptFails(c) \/ CopyFails(c) \/ Unlock(c)
      BY <2>2 DEF SubscriptFails, CopyFails, Unlock
    <2>3. CASE Assign(c) \/ Copy(c) \/ Erase(c) \/ Catch(c) \/ CatchFails(c)
      BY <2>3, AfterAccessTyped DEF Assign, Copy, Erase, Catch, CatchFails, Respond
    <2>4. CASE Return(c) \/ HangUp(c)
      BY <2>4 DEF Return, HangUp, EndCall
    <2> QED
      BY <1>2, <1>3, <2>1, <2>2, <2>3, <2>4 DEF Serve
  <1>6. ~corrupted'
    BY <1>2, <1>3 DEF Serve, SafeInv, Accept, Close, Receive, Enter, Subscript, SubscriptFails,
       Assign, Copy, CopyFails, Erase, Catch, CatchFails, Unlock, Return, HangUp, EndCall
  <1> QED
    BY <1>1, <1>4, <1>5, <1>6 DEF SafeInv

LEMMA SafeInit == Init => SafeInv
  BY InitInv DEF Init, SafeInv, Dangling, AnswerPending

LEMMA SafeInvariance ==
  ASSUME OneAtATime
  PROVE  Spec => []SafeInv
  <1>1. SafeInv /\ [Next]_vars => SafeInv'
    <2> SUFFICES ASSUME SafeInv, [Next]_vars PROVE SafeInv'
      OBVIOUS
    <2>1. CASE Next
      BY <2>1, SafeStep
    <2>2. CASE UNCHANGED vars
      BY <2>2, Stutter DEF SafeInv, Dangling, AnswerPending, vars
    <2> QED
      BY <2>1, <2>2
  <1> QED
    BY <1>1, SafeInit, PTL DEF Spec

\* When every call the clients issue has a handler that locks, as with
\* kvserver_consistent under kvset and kvget, or one client has the server to
\* itself, no access to shared_kvstore races with another and no reference to
\* a freed node is ever used.
THEOREM RaceFreedom ==
  ASSUME OneAtATime
  PROVE  Spec => []RaceFree
  <1>1. SafeInv => RaceFree
    BY NoRace
  <1> QED
    BY <1>1, SafeInvariance, PTL
-----------------------------------------------------------------------------
(***************************************************************************)
(* The server implements the atomic store of KVStore.                      *)
(***************************************************************************)
\* The data of the two modules is the same.
LEMMA SameData ==
  /\ Abstract!Issued = Issued
  /\ Abstract!NoRequest = NoRequest
  /\ Abstract!NoReply = NoReply
  /\ \A res : Abstract!Reply(res) = Reply(res)
  /\ Abstract!Exception = Exception
  /\ \A v : Abstract!Lookup(v) = Lookup(v)
  /\ Abstract!Succeeded = Succeeded
  /\ Abstract!NotStored = NotStored
  BY DEF Abstract!Issued, Issued, Abstract!Requests, Requests, Abstract!Strings, Strings,
         Abstract!NoRequest, NoRequest, Abstract!NoReply, NoReply, Abstract!DefaultResult,
         DefaultResult, Abstract!Reply, Reply, Abstract!Exception, Exception, Abstract!Lookup,
         Lookup, Abstract!Succeeded, Succeeded, Abstract!NotStored, NotStored

LEMMA RefinesInit == Init => Abstract!Init
  BY SameData DEF Init, Abstract!Init, AbstractContent, AbstractPhase, PhaseAt

\* A step of c to location l moves its abstract phase alone.
LEMMA PhaseStep ==
  ASSUME TypeOK, NEW c \in Conns, NEW l, GoTo(c, l)
  PROVE  AbstractPhase' = [AbstractPhase EXCEPT ![c] = PhaseAt(l)]
  BY DEF TypeOK, GoTo, AbstractPhase

LEMMA Phases ==
  /\ PhaseAt("closed") = "idle" /\ PhaseAt("idle") = "idle"
  /\ PhaseAt("called") = "invoked" /\ PhaseAt("find") = "invoked"
  /\ PhaseAt("use") = "invoked" /\ PhaseAt("catch") = "invoked"
  /\ PhaseAt("unlock") = "done" /\ PhaseAt("reply") = "done"
  BY DEF PhaseAt

LEMMA PhaseStays ==
  ASSUME TypeOK, NEW c \in Conns, NEW l, GoTo(c, l), PhaseAt(l) = PhaseAt(pc[c])
  PROVE  AbstractPhase' = AbstractPhase
  BY PhaseStep DEF AbstractPhase

LEMMA PhaseDone ==
  ASSUME TypeOK, NEW c \in Conns, pc[c] \in {"find", "use", "catch"},
         NEW l \in {"unlock", "reply"}, GoTo(c, l)
  PROVE  AbstractPhase[c] = "invoked" /\ AbstractPhase' = [AbstractPhase EXCEPT ![c] = "done"]
  BY PhaseStep, Phases DEF AbstractPhase

\* Between its arrival and its answer a call changes nothing one can see: the
\* node that kvset and kvget insert reads as "".
LEMMA SilentSteps ==
  ASSUME SafeInv, NEW c \in Conns,
         \/ Accept(c) \/ Close(c) \/ Enter(c)
         \/ Subscript(c) \/ SubscriptFails(c) \/ CopyFails(c) \/ Unlock(c)
  PROVE  UNCHANGED Abstract!vars
  <1> USE DEF SafeInv, IndInv
  <1>1. AbstractContent' = AbstractContent
    BY DEF TypeOK, AbstractContent, Accept, Close, Enter, Subscript, SubscriptFails, CopyFails,
       Unlock
  <1>2. AbstractPhase' = AbstractPhase
    <2>1. CASE Accept(c) \/ Close(c)
      BY <2>1, PhaseStays, Phases DEF Accept, Close
    <2>2. CASE Enter(c)
      BY <2>2, PhaseStays, Phases DEF Enter
    <2>3. CASE Subscript(c)
      BY <2>3, PhaseStays, Phases DEF Subscript
    <2>4. CASE SubscriptFails(c) \/ CopyFails(c)
      BY <2>4, PhaseStays, Phases DEF SubscriptFails, CopyFails
    <2>5. CASE Unlock(c)
      BY <2>5, PhaseStays, Phases DEF Unlock
    <2> QED
      BY <2>1, <2>2, <2>3, <2>4, <2>5
  <1>3. UNCHANGED <<req, reply>>
    BY DEF Accept, Close, Enter, Subscript, SubscriptFails, CopyFails, Unlock
  <1> QED
    BY <1>1, <1>2, <1>3 DEF Abstract!vars

LEMMA ReceiveInvokes ==
  ASSUME SafeInv, NEW c \in Conns, NEW r \in Issued, Receive(c, r)
  PROVE  Abstract!Invoke(c, r)
  <1> USE DEF SafeInv, IndInv, TypeOK
  <1>1. AbstractPhase[c] = "idle" /\ AbstractPhase' = [AbstractPhase EXCEPT ![c] = "invoked"]
    BY PhaseStep, Phases DEF Receive, AbstractPhase
  <1> QED
    BY <1>1 DEF Receive, Abstract!Invoke, AbstractContent

LEMMA AnswerReturns ==
  ASSUME SafeInv, NEW c \in Conns, Return(c) \/ HangUp(c)
  PROVE  Abstract!Return(c)
  <1> USE DEF SafeInv, IndInv, TypeOK
  <1>1. AbstractPhase[c] = "done" /\ AbstractPhase' = [AbstractPhase EXCEPT ![c] = "idle"]
    BY PhaseStep, Phases DEF Return, HangUp, EndCall, AbstractPhase
  <1> QED
    BY <1>1, SameData DEF Return, HangUp, EndCall, Abstract!Return, AbstractContent

\* The access to the map is where a call takes effect.
LEMMA AccessPerforms ==
  ASSUME SafeInv, NEW c \in Conns, Assign(c) \/ Copy(c) \/ Erase(c)
  PROVE  Abstract!Perform(c)
  <1> USE DEF SafeInv, IndInv, TypeOK
  <1> DEFINE k == req[c].key
  <1>1. AbstractPhase[c] = "invoked" /\ AbstractPhase' = [AbstractPhase EXCEPT ![c] = "done"]
    BY PhaseDone, AfterAccessTyped DEF Assign, Copy, Erase
  <1>2. /\ req[c].fname \in AllOps /\ k \in Keys /\ req[c].value \in Strings
        /\ UNCHANGED req
    BY IssuedRequests DEF Assign, Copy, Erase, HasRequest
  <1>3. CASE Assign(c)
    <2>1. AbstractContent' = [AbstractContent EXCEPT ![k] = req[c].value]
      BY <1>2, <1>3, ServerAssumption DEF Assign, AbstractContent
    <2> QED
      BY <1>1, <1>2, <1>3, <2>1, SameData
         DEF Assign, Respond, Abstract!Perform, Abstract!Effect, Abstract!Answer
  <1>4. CASE Copy(c)
    <2>1. AbstractContent' = AbstractContent /\ AbstractContent[k] = store[k]
      BY <1>2, <1>4 DEF Copy, AbstractContent
    <2> QED
      BY <1>1, <1>2, <1>4, <2>1, SameData
         DEF Copy, Respond, Abstract!Perform, Abstract!Effect, Abstract!Answer
  <1>5. CASE Erase(c)
    <2>1. AbstractContent' = [AbstractContent EXCEPT ![k] = Empty]
      BY <1>2, <1>5 DEF Erase, AbstractContent
    <2> QED
      BY <1>1, <1>2, <1>5, <2>1, SameData
         DEF Erase, Respond, Abstract!Perform, Abstract!Effect, Abstract!Answer
  <1> QED
    BY <1>3, <1>4, <1>5

LEMMA CatchFailsCall ==
  ASSUME SafeInv, NEW c \in Conns, Catch(c) \/ CatchFails(c)
  PROVE  Abstract!Fail(c)
  <1> USE DEF SafeInv, IndInv, TypeOK
  <1>1. AbstractPhase[c] = "invoked" /\ AbstractPhase' = [AbstractPhase EXCEPT ![c] = "done"]
    BY PhaseDone, AfterAccessTyped DEF Catch, CatchFails
  <1>2. MaxFaults > 0
    BY ServerAssumption DEF Catch, CatchFails, RightPlace
  <1>3. \E a \in Abstract!FailureAnswers(req[c]) : reply' = [reply EXCEPT ![c] = a]
    <2>1. req[c].fname \in {"kvset", "kvget"}
      BY DEF Catch, CatchFails, RightPlace
    <2>2. CASE req[c].fname = "kvset"
      BY <2>2, SameData DEF Catch, CatchFails, Respond, Abstract!FailureAnswers
    <2>3. CASE req[c].fname = "kvget"
      BY <2>3, SameData DEF Catch, CatchFails, Respond, Abstract!FailureAnswers
    <2> QED
      BY <2>1, <2>2, <2>3
  <1> QED
    BY <1>1, <1>2, <1>3 DEF Catch, CatchFails, Abstract!Fail, AbstractContent

LEMMA RefinesStep ==
  ASSUME OneAtATime, SafeInv, Next
  PROVE  [Abstract!Next]_(Abstract!vars)
  <1>1. PICK c \in Conns : \/ Accept(c) \/ Close(c)
                           \/ \E r \in Issued : Receive(c, r)
                           \/ Serve(c)
    BY DEF Next
  <1>2. ~Undefined(c)
    BY NoRace DEF RaceFree, Undefined, SafeInv
  <1> QED
    BY <1>1, <1>2, SilentSteps, ReceiveInvokes, AnswerReturns, AccessPerforms, CatchFailsCall,
       SameData DEF Serve, Abstract!Next

\* Linearizability, when every call issued has a handler that locks or there
\* is one client: the server is the atomic map of KVStore.
THEOREM Refinement ==
  ASSUME OneAtATime
  PROVE  Spec => Linearizable
  <1>1. SafeInv /\ [Next]_vars => [Abstract!Next]_(Abstract!vars)
    <2> SUFFICES ASSUME SafeInv, [Next]_vars PROVE [Abstract!Next]_(Abstract!vars)
      OBVIOUS
    <2>1. CASE Next
      BY <2>1, RefinesStep
    <2>2. CASE UNCHANGED vars
      BY <2>2 DEF vars, Abstract!vars, AbstractContent, AbstractPhase
    <2> QED
      BY <2>1, <2>2
  <1> QED
    BY <1>1, RefinesInit, SafeInvariance, PTL DEF Spec, Linearizable, Abstract!Spec
=============================================================================
