-------------------------- MODULE ConsistencyTest ---------------------------
(***************************************************************************)
(* consistency_test.cpp: threads that each send a number of random kvset   *)
(* and kvget calls over a connection of their own and log each one with a  *)
(* sequence number, and a main that joins them, sorts the logs by number   *)
(* and runs the loops of ConsistencyChecks on the result.  The server is   *)
(* the atomic store of KVStore, so that whatever the test gets wrong here  *)
(* is its own doing.                                                       *)
(*                                                                         *)
(* sequence_no++ is not atomic: a thread loads the number and later stores *)
(* its successor, before it calls the server.                              *)
(***************************************************************************)
EXTENDS ConsistencyChecks, Sequences, FiniteSets

CONSTANTS num_of_threads, num_of_runs,
          Workload,        \* the calls a thread may draw
          InitialContents  \* what the server may hold when the test starts

Threads == 0..(num_of_threads - 1)

ASSUME TestAssumption ==
  /\ num_of_threads \in Nat \ {0}
  /\ num_of_runs \in Nat \ {0}
  /\ TableSize = num_of_threads * num_of_runs
  /\ Workload \subseteq {r \in Requests : r.fname \in {"kvset", "kvget"} /\
                                          (r.fname = "kvset" => r.value \in Values)}
  /\ InitialContents \subseteq [Keys -> Strings]

VARIABLES content, phase, req, reply,  \* the server and the calls to it: see KVStore
          sequence_no,  \* the shared counter
          pc,           \* pc[t]: where thread t is, and "main" for the main thread
          number,       \* number[t]: data.sequence_number of the call of t in progress
          log,          \* log[t]: the events thread t has logged, bigTable[t] once it is done
          overlapped,   \* history: one thread began a call in the middle of another's
          stocked       \* history: the server had a pair of key_2 at the start

storeVars == <<content, phase, req, reply>>
threadVars == <<sequence_no, pc, number, log, overlapped, stocked>>
vars == <<storeVars, threadVars, checkVars>>

Store == INSTANCE KVStore WITH
  Conns <- Threads, Ops <- {"kvset", "kvget"}, SetValues <- Values, MayFail <- FALSE

LogEntries == [sequence_number : Slots, event : Events]

TypeOK ==
  /\ Store!TypeOK
  /\ sequence_no \in 0..TableSize
  /\ pc \in [Threads -> {"connect", "load", "send", "wait", "done"}]
  /\ number \in [Threads -> Slots]
  /\ \A t \in Threads : log[t] \in Seq(LogEntries) /\ Len(log[t]) <= num_of_runs
  /\ {overlapped, stocked} \subseteq BOOLEAN
  /\ ChecksTypeOK

Init ==
  /\ content \in InitialContents
  /\ phase = [t \in Threads |-> "idle"]
  /\ req = [t \in Threads |-> Store!NoRequest]
  /\ reply = [t \in Threads |-> Store!NoReply]
  /\ sequence_no = 0
  /\ pc = [t \in Threads |-> "connect"]
  /\ number = [t \in Threads |-> 0]
  /\ log = [t \in Threads |-> <<>>]
  /\ overlapped = FALSE
  /\ stocked = (content[key_2] # Empty)
  /\ sortedBigTable = [n \in Slots |-> Unfilled]
  /\ check = "join"
  /\ i = 0
  /\ last_updated_value = Empty
  /\ last_operation = "none"
  /\ exitCode = "running"
-----------------------------------------------------------------------------
(***************************************************************************)
(* The threads: requests(server, port, id).                                *)
(***************************************************************************)
\* Thread t takes a step from location l to location m.
At(t, l, m) ==
  /\ exitCode = "running"
  /\ pc[t] = l
  /\ pc' = [pc EXCEPT ![t] = m]

\* Thread t, at l, ends the whole process, whatever the others are at.
EndProcess(t, l, code) ==
  /\ exitCode = "running"
  /\ pc[t] = l
  /\ exitCode' = code
  /\ UNCHANGED <<storeVars, threadVars,
                 sortedBigTable, check, i, last_updated_value, last_operation>>

Connect(t) ==
  /\ At(t, "connect", "load")
  /\ UNCHANGED <<storeVars, sequence_no, number, log, overlapped, stocked, checkVars>>

\* open() throws: the thread calls exit(2), which destroys the globals while other
\* threads may still use them, to store their logs in bigTable for one.
ConnectFails(t) ==
  \/ EndProcess(t, "connect", "exit2")
  \/ EndProcess(t, "connect", "SIGSEGV") /\ \E u \in Threads \ {t} : pc[u] # "done"

\* Slips the properties are there to catch; no specification contains them:
\* ++sequence_no; a counter that goes up by two, down, or not at all.
LoadPreIncremented(t) ==
  /\ At(t, "load", "send")
  /\ number' = [number EXCEPT ![t] = sequence_no + 1]
  /\ overlapped' = (overlapped \/ \E u \in Threads \ {t} : pc[u] \in {"send", "wait"})
  /\ UNCHANGED <<storeVars, sequence_no, log, stocked, checkVars>>

SendStoring(t, n) ==
  /\ At(t, "send", "wait")
  /\ sequence_no' = n
  /\ \E r \in Workload : Store!Invoke(t, r)
  /\ UNCHANGED <<number, log, overlapped, stocked, checkVars>>

SendByTwo(t) == SendStoring(t, number[t] + 2)

SendDown(t) == SendStoring(t, number[t] - 1)

SendSame(t) == SendStoring(t, number[t])

\* data.sequence_number = sequence_no++, the load.
Load(t) ==
  /\ At(t, "load", "send")
  /\ number' = [number EXCEPT ![t] = sequence_no]
  /\ overlapped' = (overlapped \/ \E u \in Threads \ {t} : pc[u] \in {"send", "wait"})
  /\ UNCHANGED <<storeVars, sequence_no, log, stocked, checkVars>>

\* sequence_no++, the store, and the request of the call that follows.
Send(t) ==
  /\ At(t, "send", "wait")
  /\ sequence_no' = number[t] + 1
  /\ \E r \in Workload : Store!Invoke(t, r)
  /\ UNCHANGED <<number, log, overlapped, stocked, checkVars>>

\* The server executes the call of t.
Perform(t) ==
  /\ exitCode = "running"
  /\ Store!Perform(t)
  /\ UNCHANGED <<threadVars, checkVars>>

\* The call returned: log.push_back(data).  After the last one, bigTable[id] = log.
Collect(t) ==
  LET e == [operation |-> IF req[t].fname = "kvset" THEN "set" ELSE "get",
            key |-> req[t].key, value |-> req[t].value, response |-> reply[t].result] IN
  /\ At(t, "wait", IF Len(log[t]) + 1 = num_of_runs THEN "done" ELSE "load")
  /\ Store!Return(t)
  /\ log' = [log EXCEPT ![t] = Append(@, [sequence_number |-> number[t], event |-> e])]
  /\ UNCHANGED <<sequence_no, number, overlapped, stocked, checkVars>>

\* The call throws, which nothing in the thread catches.
CallThrows(t) == EndProcess(t, "wait", "SIGABRT")
-----------------------------------------------------------------------------
(***************************************************************************)
(* main, once every thread is joined.                                      *)
(***************************************************************************)
\* The log entries with number n, as <<thread, index>>.
EntriesAt(n) ==
  {w \in Threads \X (1..num_of_runs) :
     w[2] \in DOMAIN log[w[1]] /\ log[w[1]][w[2]].sequence_number = n}

\* The last of them to be copied, by thread and then by index.
LastCopied(n) ==
  CHOOSE w \in EntriesAt(n) :
    \A x \in EntriesAt(n) : x[1] < w[1] \/ (x[1] = w[1] /\ x[2] <= w[2])

Sort ==
  /\ exitCode = "running"
  /\ check = "join"
  /\ \A t \in Threads : pc[t] = "done"
  /\ sortedBigTable' = [n \in Slots |->
       IF EntriesAt(n) = {} THEN Unfilled ELSE log[LastCopied(n)[1]][LastCopied(n)[2]].event]
  /\ check' = "print"
  /\ UNCHANGED <<storeVars, threadVars, i, last_updated_value, last_operation, exitCode>>

RunChecks == ChecksNext /\ UNCHANGED <<storeVars, threadVars>>
-----------------------------------------------------------------------------
Thread(t) == Connect(t) \/ ConnectFails(t) \/ Load(t) \/ Send(t) \/ Collect(t) \/ CallThrows(t)

Main == Sort \/ RunChecks

Next ==
  \/ \E t \in Threads : Thread(t) \/ Perform(t)
  \/ Main

Spec == Init /\ [][Next]_vars

\* The threads are scheduled, the server answers, and main runs on.
Fairness ==
  /\ \A t \in Threads : WF_vars(Thread(t)) /\ WF_vars(Perform(t))
  /\ WF_vars(Main)

FairSpec == Spec /\ Fairness
-----------------------------------------------------------------------------
(***************************************************************************)
(* Properties.                                                             *)
(***************************************************************************)
\* The numbers of the events logged and of the calls in progress.
Used ==
  {log[w[1]][w[2]].sequence_number :
     w \in {x \in Threads \X (1..num_of_runs) : x[2] \in DOMAIN log[x[1]]}}
    \cup {number[t] : t \in {u \in Threads : pc[u] \in {"send", "wait"}}}

\* However the unlocked increments interleave, numbers that no event has are
\* the last ones: what the loops may meet unfilled is the end of the table.
GapsAtEnd == \A n \in Used : 0..n \subseteq Used

\* A number that no event has yet is above every number given before.  So a
\* call is listed before one that was over when it began only under a number
\* given twice: a late store may take the counter back below numbers in use.
FreshNumbersGrow ==
  [][\A t \in Threads :
       pc[t] = "load" /\ pc'[t] = "send" =>
         number'[t] \in Used \/ \A n \in Used : n < number'[t]]_vars

\* Against a server that is correct, the test reports an inconsistency only
\* after calls of two threads overlapped, or when the server was not empty: a
\* second run of the test is judged by the pairs the first one left.  It
\* crashes only after calls overlapped, or when a thread did not connect.
AlarmNeedsCause ==
  /\ exitCode = "exit1" => overlapped \/ stocked
  /\ exitCode = "SIGSEGV" => overlapped \/ \E t \in Threads : pc[t] = "connect"

\* The test always comes to an end.
Termination == <>(exitCode # "running")

\* "someone fetched xyz and didnt get what i set": the test reports an
\* inconsistency only if the server's answers were inconsistent, and the
\* server here is the atomic store.
NoFalseAlarm == exitCode # "exit1"
=============================================================================
