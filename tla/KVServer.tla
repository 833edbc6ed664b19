------------------------------ MODULE KVServer ------------------------------
(***************************************************************************)
(* The server process: one thread per client connection, each running the  *)
(* handlers kvset, kvget and kvdelete on the one std::map shared_kvstore.  *)
(* kvserver.cpp takes no lock; kvserver_consistent.cpp holds the mutex lck *)
(* in kvset and kvget and takes no lock in kvdelete.  LockedOps says which *)
(* handlers lock, so that both programs are instances of this module.      *)
(*                                                                         *)
(* An access to the map is split where another thread can get in between:  *)
(* the walk of the tree that finds, inserts or erases a node ("find") and  *)
(* the copy into or out of the string in the node found ("use").  Two      *)
(* threads that are at conflicting accesses at once are a data race, and   *)
(* what follows one is undefined: see Undefined.                           *)
(***************************************************************************)
EXTENDS KVStoreTypes, Naturals

CONSTANTS Conns,      \* the client connections; each has its own thread
          Ops,        \* the calls the clients issue
          SetValues,  \* the strings they pass to kvset
          LockedOps,  \* the handlers that hold lck around their access
          MaxFaults,  \* bound on the allocations that fail in a behaviour
          Absent,     \* "the map has no node for this key"
          NoConn      \* "no thread holds the mutex"

ASSUME ServerAssumption ==
  /\ Ops \subseteq AllOps
  /\ SetValues \subseteq Strings
  /\ LockedOps \subseteq AllOps
  /\ MaxFaults \in Nat
  /\ Absent \notin Strings
  /\ NoConn \notin Conns

VARIABLES store,    \* shared_kvstore: store[k] is the string of k's node
          lck,      \* the connection whose thread holds the mutex, or NoConn
          pc,       \* pc[c]: where the thread of connection c is
          req,      \* req[c]: the arguments its handler was called with
          reply,    \* reply[c]: _return, as the processor will write it
          faults,   \* the number of allocations that have failed so far
          corrupted, \* whether undefined behaviour has damaged the map
          crashed   \* whether it ended the process

vars == <<store, lck, pc, req, reply, faults, corrupted, crashed>>

\* The locks of the two programs.
kvserver_locks == {}
kvserver_consistent_locks == {"kvset", "kvget"}

Issued == {r \in Requests : r.fname \in Ops /\ (r.fname = "kvset" => r.value \in SetValues)}

Locations ==
  {"closed",   \* no connection
   "idle",     \* the thread waits for the next message
   "called",   \* the handler is entered
   "find",     \* it walks the tree: shared_kvstore[key] or erase(key)
   "use",      \* it holds a reference to a node and copies the string
   "catch",    \* it is in catch (...)
   "lost",     \* it goes round in a damaged tree for ever
   "unlock",   \* the answer is made, lck is to be released
   "reply"}    \* the processor writes the answer

TypeOK ==
  /\ store \in [Keys -> Strings \cup {Absent}]
  /\ lck \in Conns \cup {NoConn}
  /\ pc \in [Conns -> Locations]
  /\ req \in [Conns -> Issued \cup {NoRequest}]
  /\ reply \in [Conns -> Replies \cup {NoReply}]
  /\ faults \in 0..MaxFaults
  /\ {corrupted, crashed} \subseteq BOOLEAN

Init ==
  /\ store = [k \in Keys |-> Absent]
  /\ lck = NoConn
  /\ pc = [c \in Conns |-> "closed"]
  /\ req = [c \in Conns |-> NoRequest]
  /\ reply = [c \in Conns |-> NoReply]
  /\ faults = 0
  /\ corrupted = FALSE
  /\ crashed = FALSE
-----------------------------------------------------------------------------
GoTo(c, l) == pc' = [pc EXCEPT ![c] = l]

\* Where a handler goes once its access is over.
AfterAccess(c) == IF req[c].fname \in LockedOps THEN "unlock" ELSE "reply"

Respond(c, r) == reply' = [reply EXCEPT ![c] = r]

\* An allocation fails and throws std::bad_alloc.
AllocationFails ==
  /\ faults < MaxFaults
  /\ faults' = faults + 1
-----------------------------------------------------------------------------
(***************************************************************************)
(* The connection: accepted, served one message at a time, closed.  A      *)
(* client that is gone is noticed when the answer cannot be written.       *)
(***************************************************************************)
Accept(c) ==
  /\ pc[c] = "closed"
  /\ GoTo(c, "idle")
  /\ UNCHANGED <<store, lck, req, reply, faults, corrupted, crashed>>

Close(c) ==
  /\ pc[c] = "idle"
  /\ GoTo(c, "closed")
  /\ UNCHANGED <<store, lck, req, reply, faults, corrupted, crashed>>

Receive(c, r) ==
  /\ pc[c] = "idle"
  /\ GoTo(c, "called")
  /\ req' = [req EXCEPT ![c] = r]
  /\ UNCHANGED <<store, lck, reply, faults, corrupted, crashed>>

EndCall(c, l) ==
  /\ pc[c] = "reply"
  /\ GoTo(c, l)
  /\ req' = [req EXCEPT ![c] = NoRequest]
  /\ reply' = [reply EXCEPT ![c] = NoReply]
  /\ UNCHANGED <<store, lck, faults, corrupted, crashed>>

Return(c) == EndCall(c, "idle")

HangUp(c) == EndCall(c, "closed")
-----------------------------------------------------------------------------
(***************************************************************************)
(* The handlers.                                                           *)
(***************************************************************************)
\* Slips the properties are there to catch; no specification contains them.
\* lck is taken without waiting for it.
EnterNoWait(c) ==
  /\ pc[c] = "called"
  /\ IF req[c].fname \in LockedOps THEN lck' = c ELSE UNCHANGED lck
  /\ GoTo(c, "find")
  /\ UNCHANGED <<store, req, reply, faults, corrupted, crashed>>

\* The string is copied from where no node may be.
CopyUnchecked(c) ==
  /\ pc[c] = "use"
  /\ req[c].fname = "kvget"
  /\ Respond(c, Reply(Lookup(store[req[c].key])))
  /\ GoTo(c, AfterAccess(c))
  /\ UNCHANGED <<store, lck, req, faults, corrupted, crashed>>

\* catch (...) swallows the exception, and kvset answers kSuccess; it returns
\* past the lck.unlock(); it locks once more.
CatchAnswering(c, r, l) ==
  /\ pc[c] = "catch"
  /\ Respond(c, Reply(IF req[c].fname = "kvset" THEN r ELSE Lookup(Empty)))
  /\ GoTo(c, l)
  /\ UNCHANGED <<store, req, faults, corrupted, crashed>>

CatchSilently(c) == CatchAnswering(c, Succeeded, AfterAccess(c)) /\ UNCHANGED lck

CatchReturns(c) == CatchAnswering(c, NotStored, "reply") /\ UNCHANGED lck

CatchRelocks(c) == CatchAnswering(c, NotStored, AfterAccess(c)) /\ lck = NoConn /\ lck' = c

\* lck.lock() in the handlers that lock; the others go straight to the map.
Enter(c) ==
  /\ pc[c] = "called"
  /\ IF req[c].fname \in LockedOps
       THEN lck = NoConn /\ lck' = c
       ELSE UNCHANGED lck
  /\ GoTo(c, "find")
  /\ UNCHANGED <<store, req, reply, faults, corrupted, crashed>>

\* shared_kvstore[key] of kvset and kvget: a missing key is inserted with "".
Subscript(c) ==
  LET k == req[c].key IN
  /\ pc[c] = "find"
  /\ req[c].fname \in {"kvset", "kvget"}
  /\ store' = [store EXCEPT ![k] = IF @ = Absent THEN Empty ELSE @]
  /\ GoTo(c, "use")
  /\ UNCHANGED <<lck, req, reply, faults, corrupted, crashed>>

SubscriptFails(c) ==
  /\ pc[c] = "find"
  /\ req[c].fname \in {"kvset", "kvget"}
  /\ store[req[c].key] = Absent
  /\ AllocationFails
  /\ GoTo(c, "catch")
  /\ UNCHANGED <<store, lck, req, reply, corrupted, crashed>>

\* kvset: ... = value, then kSuccess.
Assign(c) ==
  LET k == req[c].key IN
  /\ pc[c] = "use"
  /\ req[c].fname = "kvset"
  /\ store[k] # Absent
  /\ store' = [store EXCEPT ![k] = req[c].value]
  /\ Respond(c, Reply(Succeeded))
  /\ GoTo(c, AfterAccess(c))
  /\ UNCHANGED <<lck, req, faults, corrupted, crashed>>

\* kvget: _return.value = ..., then the test against "".
Copy(c) ==
  LET k == req[c].key IN
  /\ pc[c] = "use"
  /\ req[c].fname = "kvget"
  /\ store[k] # Absent
  /\ Respond(c, Reply(Lookup(store[k])))
  /\ GoTo(c, AfterAccess(c))
  /\ UNCHANGED <<store, lck, req, faults, corrupted, crashed>>

\* Copying a string other than "" may have to allocate, in either direction;
\* the string in the node stays as it was.
CopyFails(c) ==
  /\ pc[c] = "use"
  /\ (IF req[c].fname = "kvset" THEN req[c].value ELSE store[req[c].key]) \in Values
  /\ AllocationFails
  /\ GoTo(c, "catch")
  /\ UNCHANGED <<store, lck, req, reply, corrupted, crashed>>

\* kvdelete: erase(key) finds, unlinks and frees the node, if there is one.
Erase(c) ==
  /\ pc[c] = "find"
  /\ req[c].fname = "kvdelete"
  /\ store' = [store EXCEPT ![req[c].key] = Absent]
  /\ Respond(c, Reply(Succeeded))
  /\ GoTo(c, AfterAccess(c))
  /\ UNCHANGED <<lck, req, faults, corrupted, crashed>>

\* catch (...): kvset answers kError, kvget answers kKeyNotFound.
Catch(c) ==
  /\ pc[c] = "catch"
  /\ Respond(c, Reply(IF req[c].fname = "kvset" THEN NotStored ELSE Lookup(Empty)))
  /\ GoTo(c, AfterAccess(c))
  /\ UNCHANGED <<store, lck, req, faults, corrupted, crashed>>

\* The copy of the error text fails too.  The exception leaves kvset before
\* its lck.unlock(), and process_kvset turns it into a T_EXCEPTION.
CatchFails(c) ==
  /\ pc[c] = "catch"
  /\ req[c].fname = "kvset"
  /\ AllocationFails
  /\ Respond(c, Exception)
  /\ GoTo(c, "reply")
  /\ UNCHANGED <<store, lck, req, corrupted, crashed>>

Unlock(c) ==
  /\ pc[c] = "unlock"
  /\ lck' = NoConn
  /\ GoTo(c, "reply")
  /\ UNCHANGED <<store, req, reply, faults, corrupted, crashed>>
-----------------------------------------------------------------------------
(***************************************************************************)
(* Data races on the map and what they lead to.                            *)
(***************************************************************************)
\* The walk of c will insert, or unlink and free, a node.
WritesTree(c) ==
  /\ pc[c] = "find"
  /\ IF req[c].fname = "kvdelete"
       THEN store[req[c].key] # Absent
       ELSE store[req[c].key] = Absent

Conflict(c, d) ==
  \/ /\ pc[c] = "find" /\ pc[d] = "find"
     /\ WritesTree(c)
  \/ /\ pc[c] = "find" /\ pc[d] = "use"
     /\ req[c].fname = "kvdelete" /\ req[c].key = req[d].key
  \/ /\ pc[c] = "use" /\ pc[d] = "use"
     /\ req[c].fname = "kvset" /\ req[c].key = req[d].key

DataRace == \E c, d \in Conns : c # d /\ Conflict(c, d)

\* The thread of c holds a reference to a node that was freed under it.
Dangling(c) == pc[c] = "use" /\ store[req[c].key] = Absent

\* What a thread at the map does in a race, through a dangling reference, or
\* once either has damaged the map: the process dies; or, with a map that can
\* be anything, the thread answers anything, or throws, as when it copies a
\* string of garbage length, or never comes back from a tree with a cycle.
Undefined(c) ==
  /\ pc[c] \in {"find", "use"}
  /\ corrupted \/ DataRace \/ Dangling(c)
  /\ corrupted' = TRUE
  /\ \/ /\ crashed' = TRUE
        /\ UNCHANGED <<store, pc, reply>>
     \/ /\ store' \in [Keys -> Strings \cup {Absent}]
        /\ \/ /\ \E v \in Strings :
                  Respond(c, Reply(IF req[c].fname = "kvget" THEN Lookup(v) ELSE Succeeded))
              /\ GoTo(c, AfterAccess(c))
           \/ /\ GoTo(c, "catch") \/ GoTo(c, "lost")
              /\ UNCHANGED reply
        /\ UNCHANGED crashed
  /\ UNCHANGED <<lck, req, faults>>
-----------------------------------------------------------------------------
\* The steps of the thread of c from the call of the handler to the answer.
Serve(c) ==
  \/ Enter(c)
  \/ Subscript(c) \/ SubscriptFails(c)
  \/ Assign(c) \/ Copy(c) \/ CopyFails(c)
  \/ Erase(c)
  \/ Catch(c) \/ CatchFails(c)
  \/ Unlock(c)
  \/ Undefined(c)
  \/ Return(c) \/ HangUp(c)

Next ==
  /\ ~crashed
  /\ \E c \in Conns :
       \/ Accept(c) \/ Close(c)
       \/ \E r \in Issued : Receive(c, r)
       \/ Serve(c)

Spec == Init /\ [][Next]_vars

\* The operating system runs every thread that can run.
Fairness == \A c \in Conns : WF_vars(~crashed /\ Serve(c))

FairSpec == Spec /\ Fairness
-----------------------------------------------------------------------------
(***************************************************************************)
(* Properties.                                                             *)
(***************************************************************************)
\* A handler has its arguments until it is answered.
HasRequest ==
  \A c \in Conns : pc[c] \notin {"closed", "idle"} => req[c] \in Issued

\* kvdelete keeps no reference to a node; only a handler that locks unlocks;
\* catch is reached from kvset and kvget by a failed allocation, and from all
\* three by what a damaged map throws.
RightPlace ==
  \A c \in Conns :
    /\ pc[c] = "use" => req[c].fname \in {"kvset", "kvget"}
    /\ pc[c] = "unlock" => req[c].fname \in LockedOps
    /\ pc[c] = "catch" => corrupted \/ (faults > 0 /\ req[c].fname \in {"kvset", "kvget"})

\* A handler that locks holds the mutex from its lock() to its unlock().
HoldsLock ==
  \A c \in Conns :
    pc[c] \in {"find", "use", "catch", "lost", "unlock"} /\ req[c].fname \in LockedOps => lck = c

\* The inductive invariant behind the safety properties.
IndInv == TypeOK /\ HasRequest /\ RightPlace /\ HoldsLock

\* No answer is made before its time: the processor's _return is as it was
\* constructed until the handler is through with the map.
AnswerPending ==
  \A c \in Conns : pc[c] \notin {"unlock", "reply"} => reply[c] = NoReply

\* No two threads are ever at conflicting accesses to shared_kvstore, and
\* none holds a reference to a node another one freed.
RaceFree == ~DataRace /\ \A c \in Conns : ~Dangling(c)

\* lck does its work whatever the other handlers do: a data race on
\* shared_kvstore always has a handler in it that takes no lock.
LockingSuffices ==
  \A c, d \in Conns :
    c # d /\ Conflict(c, d) => ~({req[c].fname, req[d].fname} \subseteq LockedOps)

\* Linearizability.  To its clients the server is the atomic store of
\* KVStore: every call takes effect at one instant between its arrival and
\* its answer, on a map in which a node kvget inserted cannot be seen, and a
\* call that failed has no effect.
AbstractContent == [k \in Keys |-> IF store[k] = Absent THEN Empty ELSE store[k]]

PhaseAt(l) ==
  CASE l \in {"closed", "idle"}                         -> "idle"
    [] l \in {"called", "find", "use", "catch", "lost"} -> "invoked"
    [] l \in {"unlock", "reply"}                        -> "done"

AbstractPhase == [c \in Conns |-> PhaseAt(pc[c])]

Abstract == INSTANCE KVStore WITH
  content <- AbstractContent, phase <- AbstractPhase, MayFail <- (MaxFaults > 0)

Linearizable == Abstract!Spec

\* lck is held by a thread that is past its unlock() or will never get there:
\* nobody will ever unlock it.
Stuck(c) == lck = c /\ pc[c] \notin {"find", "use", "catch", "unlock"}

\* The mutex stays locked for ever only after two allocations have failed, the
\* one kvset's catch (...) is there for and the copy of the error text in the
\* catch, or after kvdelete has raced with a handler: then a thread can be lost
\* in the map with the mutex, or one failure in the catch is enough.
StuckHasCause ==
  \A c \in Conns :
    Stuck(c) => faults > 1 \/ (corrupted /\ (pc[c] = "lost" \/ faults > 0))

\* A thread that holds the mutex lets go of it, whatever its handler meets,
\* unless the handler throws out of its catch or is lost in a damaged map.
LockReleased == \A c \in Conns : lck = c ~> (lck # c \/ crashed \/ Stuck(c))

\* While threads wait for the mutex, calls that hold it get to their answers:
\* the server never stalls with all of them waiting, until one is stuck.
Waits(c) == pc[c] = "called" /\ req[c].fname \in LockedOps

ServerProgress ==
  (\E c \in Conns : Waits(c))
    ~> (crashed \/ \E c \in Conns : \/ pc[c] = "reply" /\ req[c].fname \in LockedOps
                                    \/ Stuck(c))
=============================================================================
