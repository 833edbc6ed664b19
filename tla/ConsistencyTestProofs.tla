----------------------- MODULE ConsistencyTestProofs ------------------------
(***************************************************************************)
(* Proofs about the sequence numbers of ConsistencyTest, for any number of *)
(* threads and calls, any workload and any margin.                         *)
(***************************************************************************)
EXTENDS ConsistencyTest, ConsistencyChecksProofs, FiniteSetTheorems, NaturalsInduction

InCall == {"send", "wait"}

\* A log is a sequence, whatever its events are, with room for the call that
\* is still to be logged.
LogsOK ==
  /\ log = [t \in Threads |-> log[t]]
  /\ \A t \in Threads :
       /\ \E S : log[t] \in Seq(S)
       /\ \A j \in DOMAIN log[t] : log[t][j].sequence_number \in Nat
       /\ Len(log[t]) <= num_of_runs
       /\ pc[t] # "done" => Len(log[t]) < num_of_runs

NumbersOK ==
  /\ sequence_no \in Nat
  /\ pc \in [Threads -> {"connect", "load", "send", "wait", "done"}]
  /\ number \in [Threads -> Nat]
  /\ LogsOK

Logged(n) ==
  \E t \in Threads, j \in 1..num_of_runs :
    j \in DOMAIN log[t] /\ n = log[t][j].sequence_number

Pending(n) == \E t \in Threads : pc[t] \in InCall /\ n = number[t]

\* The counter is the successor of a number in use, or has not moved.
CounterFollows == sequence_no = 0 \/ sequence_no - 1 \in Used

NumbersInv == NumbersOK /\ GapsAtEnd /\ CounterFollows
-----------------------------------------------------------------------------
LEMMA UsedIs == \A n : n \in Used <=> Logged(n) \/ Pending(n)
  <1> SUFFICES ASSUME NEW n PROVE n \in Used <=> Logged(n) \/ Pending(n)
    OBVIOUS
  <1>1. (\E w \in {x \in Threads \X (1..num_of_runs) : x[2] \in DOMAIN log[x[1]]} :
           n = log[w[1]][w[2]].sequence_number) <=> Logged(n)
    <2>1. ASSUME NEW t \in Threads, NEW j \in 1..num_of_runs, j \in DOMAIN log[t],
                 n = log[t][j].sequence_number
          PROVE  \E w \in {x \in Threads \X (1..num_of_runs) : x[2] \in DOMAIN log[x[1]]} :
                   n = log[w[1]][w[2]].sequence_number
      <3>1. <<t, j>> \in {x \in Threads \X (1..num_of_runs) : x[2] \in DOMAIN log[x[1]]}
        BY <2>1
      <3> QED
        BY <2>1, <3>1
    <2> QED
      BY <2>1 DEF Logged
  <1>2. (\E t \in {u \in Threads : pc[u] \in InCall} : n = number[t]) <=> Pending(n)
    BY DEF Pending
  <1> QED
    BY <1>1, <1>2 DEF Used, InCall

LEMMA UsedIsNext == (\A n : n \in Used <=> Logged(n) \/ Pending(n))'
  BY UsedIs, PTL

LEMMA UsedNat == ASSUME NumbersOK PROVE Used \subseteq Nat
  BY UsedIs DEF NumbersOK, LogsOK, Logged, Pending

\* Steps that leave the threads and the counter alone leave the numbers alone.
LEMMA NumbersStay ==
  ASSUME NumbersInv, UNCHANGED threadVars
  PROVE  NumbersInv' /\ Used' = Used
  <1> USE DEF threadVars
  <1>1. NumbersOK'
    BY DEF NumbersInv, NumbersOK, LogsOK
  <1>2. Used' = Used
    BY DEF Used
  <1> QED
    BY <1>1, <1>2 DEF NumbersInv, GapsAtEnd, CounterFollows

LEMMA InitNumbers == ASSUME Init PROVE NumbersInv
  <1>1. NumbersOK
    <2>1. <<>> \in Seq({}) /\ Len(<<>>) = 0 /\ DOMAIN <<>> = {}
      OBVIOUS
    <2> QED
      BY <2>1, TestAssumption DEF Init, NumbersOK, LogsOK
  <1>2. Used = {}
    BY UsedIs DEF Init, Logged, Pending, InCall
  <1> QED
    BY <1>1, <1>2 DEF NumbersInv, GapsAtEnd, CounterFollows, Init

LEMMA ConnectNumbers ==
  ASSUME NumbersInv, NEW t \in Threads, Connect(t)
  PROVE  NumbersInv' /\ Used' = Used
  <1> USE DEF NumbersInv, NumbersOK, Connect, At
  <1>1. NumbersOK'
    BY DEF LogsOK
  <1>2. \A n : Pending(n)' <=> Pending(n)
    BY DEF Pending, InCall
  <1>3. \A n : Logged(n)' <=> Logged(n)
    BY DEF Logged
  <1>4. Used' = Used
    BY <1>2, <1>3, UsedIs, UsedIsNext
  <1> QED
    BY <1>1, <1>4 DEF GapsAtEnd, CounterFollows

LEMMA LoadNumbers ==
  ASSUME NumbersInv, NEW t \in Threads, Load(t)
  PROVE  NumbersInv' /\ Used' = Used \cup {sequence_no} /\ number'[t] = sequence_no
  <1> USE DEF NumbersInv, NumbersOK, Load, At
  <1>1. NumbersOK'
    BY DEF LogsOK
  <1>2. \A n : Pending(n)' <=> Pending(n) \/ n = sequence_no
    BY DEF Pending, InCall
  <1>3. \A n : Logged(n)' <=> Logged(n)
    BY DEF Logged
  <1>4. Used' = Used \cup {sequence_no}
    BY <1>2, <1>3, UsedIs, UsedIsNext
  <1>5. GapsAtEnd'
    BY <1>4, UsedNat DEF GapsAtEnd, CounterFollows
  <1>6. CounterFollows'
    BY <1>4 DEF CounterFollows
  <1> QED
    BY <1>1, <1>4, <1>5, <1>6

LEMMA SendNumbers ==
  ASSUME NumbersInv, NEW t \in Threads, Send(t)
  PROVE  NumbersInv' /\ Used' = Used
  <1> USE DEF NumbersInv, NumbersOK, Send, At
  <1>1. NumbersOK'
    BY DEF LogsOK
  <1>2. \A n : Pending(n)' <=> Pending(n)
    BY DEF Pending, InCall
  <1>3. \A n : Logged(n)' <=> Logged(n)
    BY DEF Logged
  <1>4. Used' = Used
    BY <1>2, <1>3, UsedIs, UsedIsNext
  <1>5. CounterFollows'
    <2>1. number[t] \in Used
      BY UsedIs DEF Pending, InCall
    <2> QED
      BY <1>4, <2>1 DEF CounterFollows
  <1> QED
    BY <1>1, <1>4, <1>5 DEF GapsAtEnd

\* What Collect appends: the number leaves the call and enters the log.
LEMMA CollectNumbers ==
  ASSUME NumbersInv, NEW t \in Threads, Collect(t)
  PROVE  NumbersInv' /\ Used' = Used
  <1> USE DEF NumbersInv, NumbersOK, At
  <1>1. PICK e : log' = [log EXCEPT ![t] = Append(@, [sequence_number |-> number[t], event |-> e])]
    BY DEF Collect
  <1> DEFINE entry == [sequence_number |-> number[t], event |-> e]
  <1>2. pc[t] = "wait" /\ pc' = [pc EXCEPT ![t] = IF Len(log[t]) + 1 = num_of_runs THEN "done" ELSE "load"]
    BY DEF Collect
  <1>3. UNCHANGED <<sequence_no, number>>
    BY DEF Collect
  <1>4. PICK S : log[t] \in Seq(S)
    BY DEF LogsOK
  <1> DEFINE m == Len(log[t])
  <1>5. /\ m \in Nat /\ m < num_of_runs /\ DOMAIN log[t] = 1..m
        /\ \E Z : log'[t] \in Seq(Z)
        /\ Len(log'[t]) = m + 1
        /\ DOMAIN log'[t] = 1..(m + 1)
        /\ \A j \in 1..m : log'[t][j] = log[t][j]
        /\ log'[t][m + 1] = entry
    <2>1. m \in Nat /\ m < num_of_runs /\ DOMAIN log[t] = 1..m
      BY <1>2, <1>4 DEF LogsOK
    <2>2. log'[t] = Append(log[t], entry)
      BY <1>1 DEF LogsOK
    <2>3. log[t] \in Seq(S \cup {entry}) /\ entry \in S \cup {entry}
      BY <1>4
    <2> QED
      BY <2>1, <2>2, <2>3
  <1>6. \A u \in Threads \ {t} : log'[u] = log[u] /\ pc'[u] = pc[u]
    BY <1>1, <1>2 DEF LogsOK
  <1>7. NumbersOK'
    <2>1. pc' \in [Threads -> {"connect", "load", "send", "wait", "done"}]
      BY <1>2
    <2>2. log' = [u \in Threads |-> log'[u]]
      BY <1>1 DEF LogsOK
    <2>3. /\ \A j \in DOMAIN log'[t] : log'[t][j].sequence_number \in Nat
          /\ Len(log'[t]) <= num_of_runs
          /\ pc'[t] # "done" => Len(log'[t]) < num_of_runs
      <3>1. \A j \in 1..m : log[t][j].sequence_number \in Nat
        BY <1>5 DEF LogsOK
      <3>2. ASSUME NEW j \in 1..(m + 1) PROVE log'[t][j].sequence_number \in Nat
        <4>1. CASE j = m + 1
          BY <1>5, <4>1
        <4>2. CASE j # m + 1
          <5>1. j \in 1..m
            BY <1>5, <4>2
          <5> QED
            BY <1>5, <3>1, <5>1
        <4> QED
          BY <4>1, <4>2
      <3>3. pc'[t] = IF m + 1 = num_of_runs THEN "done" ELSE "load"
        BY <1>2
      <3>4. m + 1 <= num_of_runs /\ (m + 1 # num_of_runs => m + 1 < num_of_runs)
        BY <1>5, TestAssumption
      <3> QED
        BY <1>5, <3>2, <3>3, <3>4
    <2>4. ASSUME NEW u \in Threads
          PROVE  /\ \E Z : log'[u] \in Seq(Z)
                 /\ \A j \in DOMAIN log'[u] : log'[u][j].sequence_number \in Nat
                 /\ Len(log'[u]) <= num_of_runs
                 /\ pc'[u] # "done" => Len(log'[u]) < num_of_runs
      <3>1. CASE u = t
        BY <1>5, <2>3, <3>1
      <3>2. CASE u # t
        BY <1>6, <3>2 DEF LogsOK
      <3> QED
        BY <3>1, <3>2
    <2>5. LogsOK'
      BY <2>2, <2>4 DEF LogsOK
    <2> QED
      BY <1>3, <2>1, <2>5
  <1>8. \A n : Logged(n)' <=> Logged(n) \/ n = number[t]
    <2>1. m + 1 \in 1..num_of_runs
      BY <1>5, TestAssumption
    <2>2. ASSUME NEW n, Logged(n) PROVE Logged(n)'
      <3>1. PICK u \in Threads, j \in 1..num_of_runs :
              j \in DOMAIN log[u] /\ n = log[u][j].sequence_number
        BY <2>2 DEF Logged
      <3>2. j \in DOMAIN log'[u] /\ n = log'[u][j].sequence_number
        BY <1>5, <1>6, <3>1
      <3> QED
        BY <3>2 DEF Logged
    <2>3. ASSUME NEW n, n = number[t] PROVE Logged(n)'
      <3>1. m + 1 \in DOMAIN log'[t] /\ n = log'[t][m + 1].sequence_number
        BY <1>5, <2>3
      <3> QED
        BY <2>1, <3>1 DEF Logged
    <2>4. ASSUME NEW n, Logged(n)' PROVE Logged(n) \/ n = number[t]
      <3>1. PICK u \in Threads, j \in 1..num_of_runs :
              j \in DOMAIN log'[u] /\ n = log'[u][j].sequence_number
        BY <2>4 DEF Logged
      <3>2. CASE u = t /\ j = m + 1
        BY <1>5, <3>1, <3>2
      <3>3. CASE ~(u = t /\ j = m + 1)
        <4>1. j \in DOMAIN log[u] /\ n = log[u][j].sequence_number
          BY <1>5, <1>6, <3>1, <3>3
        <4> QED
          BY <4>1 DEF Logged
      <3> QED
        BY <3>2, <3>3
    <2> QED
      BY <2>2, <2>3, <2>4
  <1>9. \A n : Pending(n) <=> Pending(n)' \/ n = number[t]
    BY <1>2, <1>3 DEF Pending, InCall
  <1>10. Used' = Used
    BY <1>8, <1>9, UsedIs, UsedIsNext
  <1> QED
    BY <1>3, <1>7, <1>10 DEF GapsAtEnd, CounterFollows
-----------------------------------------------------------------------------
\* Only Load gives a number out.
LEMMA NumbersStep ==
  ASSUME NumbersInv, Next
  PROVE  /\ NumbersInv'
         /\ Used' = Used \/ \E t \in Threads : Load(t)
  <1>1. ASSUME NEW t \in Threads, Thread(t)
        PROVE  NumbersInv' /\ (Used' = Used \/ \E u \in Threads : Load(u))
    <2>1. CASE ConnectFails(t) \/ CallThrows(t)
      BY <2>1, NumbersStay DEF ConnectFails, CallThrows, EndProcess
    <2> QED
      BY <1>1, <2>1, ConnectNumbers, LoadNumbers, SendNumbers, CollectNumbers DEF Thread
  <1>2. ASSUME NEW t \in Threads, Perform(t)
        PROVE  NumbersInv' /\ Used' = Used
    BY <1>2, NumbersStay DEF Perform
  <1>3. CASE Main
    BY <1>3, NumbersStay DEF Main, Sort, RunChecks
  <1> QED
    BY <1>1, <1>2, <1>3 DEF Next

LEMMA NumbersInvariance == Spec => []NumbersInv
  <1>1. NumbersInv /\ [Next]_vars => NumbersInv'
    BY NumbersStep, NumbersStay DEF vars
  <1> QED
    BY <1>1, InitNumbers, PTL DEF Spec

\* Lost updates of the counter leave no hole in the table: the entries that
\* are not filled are its last ones.
THEOREM NoHoles == Spec => []GapsAtEnd
  BY NumbersInvariance, PTL DEF NumbersInv

\* A number given out for the first time is above all the others.
THEOREM NumbersGrow == Spec => FreshNumbersGrow
  <1> DEFINE Grow == \A t \in Threads :
                       pc[t] = "load" /\ pc'[t] = "send" =>
                         number'[t] \in Used \/ \A n \in Used : n < number'[t]
  <1>1. NumbersInv /\ [Next]_vars => [Grow]_vars
    <2> SUFFICES ASSUME NumbersInv, Next, NEW t \in Threads, pc[t] = "load", pc'[t] = "send"
                 PROVE  number'[t] \in Used \/ \A n \in Used : n < number'[t]
      OBVIOUS
    <2>1. Load(t)
      <3>1. pc \in [Threads -> {"connect", "load", "send", "wait", "done"}]
        BY DEF NumbersInv, NumbersOK
      <3>2. ~Main /\ \A u \in Threads : ~Perform(u)
        BY DEF Main, Sort, RunChecks, Perform, threadVars
      <3>3. PICK u \in Threads : Thread(u)
        BY <3>2 DEF Next
      <3>4. u = t
        BY <3>1, <3>3 DEF Thread, Connect, ConnectFails, Load, Send, Collect, CallThrows,
                          EndProcess, At, threadVars
      <3> QED
        BY <3>1, <3>3, <3>4 DEF Thread, Connect, ConnectFails, Send, Collect, CallThrows,
                                EndProcess, At, threadVars
    <2>2. number'[t] = sequence_no
      BY <2>1, LoadNumbers
    <2> QED
      BY <2>2, UsedNat DEF NumbersInv, NumbersOK, GapsAtEnd
  <1> QED
    BY <1>1, NumbersInvariance, PTL DEF Spec, FreshNumbersGrow
-----------------------------------------------------------------------------
(***************************************************************************)
(* The types.  That a number stays within the table is a matter of         *)
(* counting: every number in use has a place among the calls the test      *)
(* makes, and a thread that is about to load one has a place left.         *)
(***************************************************************************)
\* The places of the calls: thread p[1], call p[2].
Places == Threads \X (1..num_of_runs)

\* Place p has number n, logged or in progress.
Holds(p, n) ==
  \/ p[2] \in DOMAIN log[p[1]] /\ n = log[p[1]][p[2]].sequence_number
  \/ pc[p[1]] \in InCall /\ n = number[p[1]] /\ p[2] = Len(log[p[1]]) + 1

LEMMA ThreadsAre ==
  /\ Threads \subseteq Nat
  /\ num_of_threads \in Nat /\ num_of_runs \in Nat /\ num_of_runs >= 1
  /\ TableSize \in Nat
  /\ IsFiniteSet(Places) /\ Cardinality(Places) = TableSize
  /\ IsFiniteSet(Slots) /\ Cardinality(Slots) = TableSize
  <1>1. /\ num_of_threads \in Nat /\ num_of_runs \in Nat /\ num_of_threads >= 1 /\ num_of_runs >= 1
        /\ TableSize = num_of_threads * num_of_runs
    BY TestAssumption
  <1>2. IsFiniteSet(Threads) /\ Cardinality(Threads) = num_of_threads
    BY <1>1, FS_Interval DEF Threads
  <1>3. IsFiniteSet(1..num_of_runs) /\ Cardinality(1..num_of_runs) = num_of_runs
    BY <1>1, FS_Interval
  <1>4. IsFiniteSet(Places) /\ Cardinality(Places) = TableSize
    BY <1>1, <1>2, <1>3, FS_Product DEF Places
  <1>5. TableSize \in Nat
    BY ChecksAssumption
  <1>6. IsFiniteSet(Slots) /\ Cardinality(Slots) = TableSize
    BY <1>5, FS_Interval DEF Slots
  <1> QED
    BY <1>1, <1>4, <1>5, <1>6 DEF Threads

LEMMA LogIs ==
  ASSUME NumbersOK, NEW t \in Threads
  PROVE  /\ Len(log[t]) \in Nat /\ DOMAIN log[t] = 1..Len(log[t])
         /\ Len(log[t]) <= num_of_runs
         /\ pc[t] # "done" => Len(log[t]) < num_of_runs
  <1>1. PICK S : log[t] \in Seq(S)
    BY DEF NumbersOK, LogsOK
  <1> QED
    BY <1>1 DEF NumbersOK, LogsOK

\* Every number in use has a place, and a place has one number.
LEMMA UsedHasPlace ==
  ASSUME NumbersOK, NEW n \in Used
  PROVE  \E p \in Places : Holds(p, n) /\ (p[2] \in DOMAIN log[p[1]] \/ pc[p[1]] \in InCall)
  <1>1. CASE Logged(n)
    <2>1. PICK t \in Threads, j \in 1..num_of_runs :
            j \in DOMAIN log[t] /\ n = log[t][j].sequence_number
      BY <1>1 DEF Logged
    <2>2. <<t, j>> \in Places /\ Holds(<<t, j>>, n)
      BY <2>1 DEF Places, Holds
    <2> QED
      BY <2>1, <2>2
  <1>2. CASE Pending(n)
    <2>1. PICK t \in Threads : pc[t] \in InCall /\ n = number[t]
      BY <1>2 DEF Pending
    <2>2. Len(log[t]) + 1 \in 1..num_of_runs
      BY <2>1, LogIs, ThreadsAre DEF InCall
    <2>3. <<t, Len(log[t]) + 1>> \in Places /\ Holds(<<t, Len(log[t]) + 1>>, n)
      BY <2>1, <2>2 DEF Places, Holds
    <2> QED
      BY <2>1, <2>3
  <1> QED
    BY <1>1, <1>2, UsedIs

LEMMA PlaceHoldsOne ==
  ASSUME NumbersOK, NEW p \in Places, NEW m, NEW n, Holds(p, m), Holds(p, n)
  PROVE  m = n
  <1>1. p[1] \in Threads
    BY DEF Places
  <1>2. Len(log[p[1]]) \in Nat /\ DOMAIN log[p[1]] = 1..Len(log[p[1]])
    BY <1>1, LogIs
  <1> QED
    BY <1>2 DEF Holds

\* While a thread has not begun its last call, there is a number left for it.
LEMMA RoomLeft ==
  ASSUME NumbersInv, NEW t \in Threads, pc[t] = "load"
  PROVE  sequence_no < TableSize
  <1> SUFFICES ASSUME ~(sequence_no < TableSize) PROVE FALSE
    OBVIOUS
  <1> DEFINE q == <<t, Len(log[t]) + 1>>
             Rest == Places \ {q}
             f == [n \in Slots |-> CHOOSE p \in Rest : Holds(p, n)]
  <1>0. NumbersOK
    BY DEF NumbersInv
  <1>1. q \in Places
    <2>1. Len(log[t]) + 1 \in 1..num_of_runs
      BY <1>0, LogIs, ThreadsAre
    <2> QED
      BY <2>1 DEF Places
  <1>2. TableSize > 0
    <2>1. Places # {}
      BY <1>1
    <2> QED
      BY <2>1, ThreadsAre, FS_EmptySet
  <1>3. Slots \subseteq Used
    <2>1. sequence_no \in Nat /\ sequence_no - 1 \in Used
      BY <1>0, <1>2, ThreadsAre DEF NumbersInv, NumbersOK, CounterFollows
    <2>2. 0..(sequence_no - 1) \subseteq Used
      BY <2>1 DEF NumbersInv, GapsAtEnd
    <2> QED
      BY <2>1, <2>2, ThreadsAre DEF Slots
  <1>4. ASSUME NEW n \in Slots PROVE f[n] \in Rest /\ Holds(f[n], n)
    <2>1. PICK p \in Places : Holds(p, n) /\ (p[2] \in DOMAIN log[p[1]] \/ pc[p[1]] \in InCall)
      BY <1>0, <1>3, <1>4, UsedHasPlace
    <2>2. p # q
      <3>1. Len(log[t]) + 1 \notin DOMAIN log[t]
        BY <1>0, LogIs
      <3> QED
        BY <2>1, <3>1 DEF InCall
    <2>3. \E p1 \in Rest : Holds(p1, n)
      BY <2>1, <2>2
    <2> HIDE DEF Rest
    <2> QED
      BY <1>4, <2>3
  <1>5. IsFiniteSet(Rest) /\ Cardinality(Rest) < Cardinality(Slots)
    <2> HIDE DEF q
    <2>1. IsFiniteSet(Rest) /\ Cardinality(Rest) = Cardinality(Places) - 1
      BY <1>1, ThreadsAre, FS_RemoveElement
    <2> QED
      BY <2>1, ThreadsAre
  <1>6. PICK m \in Slots, n \in Slots : m # n /\ f[m] = f[n]
    <2>1. f \in [Slots -> Rest]
      BY <1>4
    <2> HIDE DEF f, Rest
    <2> QED
      BY <1>5, <2>1, ThreadsAre, FS_PigeonHole
  <1> HIDE DEF f
  <1> QED
    BY <1>0, <1>4, <1>6, PlaceHoldsOne
-----------------------------------------------------------------------------
\* What the server answers a call with.
Answers(r) == IF r.fname = "kvset" THEN {Succeeded} ELSE {Lookup(v) : v \in Strings}

\* A thread and the server agree on the call between them.
CallOK(t) ==
  /\ phase[t] = "idle" <=> pc[t] # "wait"
  /\ phase[t] # "idle" => req[t] \in Workload
  /\ phase[t] = "done" => reply[t].result \in Answers(req[t])

\* main touches the table and the loops only once the threads are done.
MainOK ==
  /\ check = "join" => i = 0 /\ last_updated_value = Empty /\ last_operation = "none"
  /\ check # "join" => ChecksInv /\ \A t \in Threads : pc[t] = "done"

TypesInv == NumbersInv /\ TypeOK /\ MainOK /\ \A t \in Threads : CallOK(t)

LEMMA SameData ==
  /\ Store!Requests = Requests /\ Store!Replies = Replies /\ Store!Strings = Strings
  /\ Store!NoRequest = NoRequest /\ Store!NoReply = NoReply
  /\ \A x : Store!Reply(x) = Reply(x)
  /\ \A r, m : Store!Answer(r, m) = Answer(r, m)
  /\ \A r, m : Store!Effect(r, m) = Effect(r, m)
  BY DEF Store!Requests, Requests, Store!Replies, Replies, Store!Result, Result,
         Store!ErrorCode, ErrorCode, Store!Strings, Strings, Store!NoRequest, NoRequest,
         Store!NoReply, NoReply, Store!DefaultResult, DefaultResult, Store!Reply, Reply,
         Store!Answer, Answer, Store!Effect, Effect, Store!Lookup, Lookup,
         Store!Succeeded, Succeeded

\* What the workload asks of the server, and what it gets.
LEMMA CallsTyped ==
  ASSUME NEW r \in Workload, NEW m \in [Keys -> Strings]
  PROVE  /\ r \in Store!Issued /\ r.fname \in {"kvset", "kvget"}
         /\ r.key \in Keys /\ r.value \in Strings
         /\ r.fname = "kvset" => r.value \in Values
         /\ r.fname = "kvget" => r.value = Empty
         /\ Effect(r, m) = IF r.fname = "kvset" THEN [m EXCEPT ![r.key] = r.value] ELSE m
         /\ Effect(r, m) \in [Keys -> Strings]
         /\ Answer(r, m) \in Answers(r)
         /\ Reply(Answer(r, m)) \in Replies
         /\ Reply(Answer(r, m)).result = Answer(r, m)
  <1>1. /\ r \in Requests /\ r.fname \in {"kvset", "kvget"}
        /\ r.fname = "kvset" => r.value \in Values
    BY TestAssumption
  <1>2. r.key \in Keys /\ r.value \in Strings /\ (r.fname = "kvget" => r.value = Empty)
    BY <1>1 DEF Requests, Strings
  <1>3. r \in Store!Issued
    BY <1>1, SameData DEF Store!Issued
  <1>4. /\ Effect(r, m) = IF r.fname = "kvset" THEN [m EXCEPT ![r.key] = r.value] ELSE m
        /\ Effect(r, m) \in [Keys -> Strings]
    BY <1>1, <1>2 DEF Effect
  <1>5. Answer(r, m) \in Answers(r)
    BY <1>1, <1>2 DEF Answer, Answers
  <1>6. Answer(r, m) \in Result
    BY <1>1, <1>2 DEF Answer, Lookup, Succeeded, Result, ErrorCode, Strings
  <1>7. Reply(Answer(r, m)) \in Replies /\ Reply(Answer(r, m)).result = Answer(r, m)
    BY <1>6 DEF Reply, Replies
  <1> QED
    BY <1>1, <1>2, <1>3, <1>4, <1>5, <1>7

\* The event a thread logs.
Event(t) == [operation |-> IF req[t].fname = "kvset" THEN "set" ELSE "get",
             key |-> req[t].key, value |-> req[t].value, response |-> reply[t].result]

LEMMA EventTyped ==
  ASSUME NEW t \in Threads, CallOK(t), phase[t] = "done", content \in [Keys -> Strings]
  PROVE  Event(t) \in Events
  <1>1. req[t] \in Workload /\ reply[t].result \in Answers(req[t])
    BY DEF CallOK
  <1>2. CASE req[t].fname = "kvset"
    BY <1>1, <1>2, CallsTyped DEF Event, Events, Answers
  <1>3. CASE req[t].fname # "kvset"
    BY <1>1, <1>3, CallsTyped DEF Event, Events, Answers
  <1> QED
    BY <1>2, <1>3

LEMMA UsedInTable ==
  ASSUME TypesInv
  PROVE  Used \subseteq Slots
  <1>1. ASSUME NEW n, Logged(n) PROVE n \in Slots
    <2>1. PICK t \in Threads, j \in 1..num_of_runs :
            j \in DOMAIN log[t] /\ n = log[t][j].sequence_number
      BY <1>1 DEF Logged
    <2>2. log[t] \in Seq(LogEntries)
      BY DEF TypesInv, TypeOK
    <2>3. log[t][j] \in LogEntries
      BY <2>1, <2>2
    <2> QED
      BY <2>1, <2>3 DEF LogEntries
  <1>2. ASSUME NEW n, Pending(n) PROVE n \in Slots
    BY <1>2 DEF Pending, TypesInv, TypeOK
  <1> QED
    BY <1>1, <1>2, UsedIs
-----------------------------------------------------------------------------
LEMMA InitTypes == ASSUME Init PROVE TypesInv
  <1> USE DEF Init
  <1>1. Store!TypeOK
    BY TestAssumption, SameData DEF Store!TypeOK, Strings
  <1>2. TableSize \in Nat /\ TableSize # 0
    <2>1. <<0, 1>> \in Places
      BY TestAssumption DEF Places, Threads
    <2> QED
      BY <2>1, ThreadsAre, FS_EmptySet
  <1>3. ChecksTypeOK
    BY <1>2, ChecksAssumption DEF ChecksTypeOK, Tables, Checks, ExitCodes, Strings
  <1>4. \A t \in Threads : log[t] \in Seq(LogEntries) /\ Len(log[t]) <= num_of_runs
    BY ThreadsAre
  <1>5. TypeOK
    <2>1. {overlapped, stocked} \subseteq BOOLEAN
      OBVIOUS
    <2>2. 0 \in Slots /\ sequence_no \in 0..TableSize
      BY <1>2 DEF Slots
    <2>3. number \in [Threads -> Slots]
      BY <2>2
    <2> QED
      BY <1>1, <1>3, <1>4, <2>1, <2>2, <2>3 DEF TypeOK
  <1>6. MainOK /\ \A t \in Threads : CallOK(t)
    BY DEF MainOK, CallOK
  <1> QED
    BY <1>5, <1>6, InitNumbers DEF TypesInv

\* The threads are still at work.
LEMMA ThreadsFirst ==
  ASSUME TypesInv, NEW t \in Threads, Thread(t) \/ Perform(t)
  PROVE  check = "join" /\ pc[t] # "done"
  <1>1. pc[t] # "done"
    BY DEF Thread, Connect, ConnectFails, Load, Send, Collect, CallThrows, EndProcess, At,
           Perform, Store!Perform, TypesInv, CallOK
  <1> QED
    BY <1>1 DEF TypesInv, MainOK

\* A thread that ends the process leaves the rest as it is.
LEMMA EndProcessTypes ==
  ASSUME TypesInv, NEW t \in Threads, ConnectFails(t) \/ CallThrows(t)
  PROVE  TypesInv'
  <1>1. /\ check = "join" /\ exitCode' \in {"exit2", "SIGSEGV", "SIGABRT"}
        /\ UNCHANGED <<storeVars, threadVars, sortedBigTable, check, i, last_updated_value, last_operation>>
    BY ThreadsFirst DEF Thread, ConnectFails, CallThrows, EndProcess
  <1>2. NumbersInv'
    BY <1>1, NumbersStay DEF TypesInv
  <1>3. TypeOK'
    BY <1>1 DEF TypesInv, TypeOK, Store!TypeOK, ChecksTypeOK, ExitCodes, storeVars, threadVars
  <1>4. MainOK' /\ \A u \in Threads : CallOK(u)'
    BY <1>1 DEF TypesInv, MainOK, CallOK, storeVars, threadVars
  <1> QED
    BY <1>2, <1>3, <1>4 DEF TypesInv

LEMMA ConnectTypes ==
  ASSUME TypesInv, NEW t \in Threads, Connect(t)
  PROVE  TypesInv'
  <1>1. /\ pc[t] = "connect" /\ pc' = [pc EXCEPT ![t] = "load"] /\ check = "join"
        /\ UNCHANGED <<storeVars, sequence_no, number, log, overlapped, stocked, checkVars>>
    BY ThreadsFirst DEF Thread, Connect, At
  <1>2. NumbersInv'
    BY ConnectNumbers DEF TypesInv
  <1>3. TypeOK'
    BY <1>1 DEF TypesInv, TypeOK, Store!TypeOK, ChecksTypeOK, storeVars, checkVars
  <1>4. MainOK' /\ \A u \in Threads : CallOK(u)'
    BY <1>1 DEF TypesInv, TypeOK, MainOK, CallOK, storeVars, checkVars
  <1> QED
    BY <1>2, <1>3, <1>4 DEF TypesInv

LEMMA LoadTypes ==
  ASSUME TypesInv, NEW t \in Threads, Load(t)
  PROVE  TypesInv'
  <1>1. /\ pc[t] = "load" /\ pc' = [pc EXCEPT ![t] = "send"] /\ check = "join"
        /\ number' = [number EXCEPT ![t] = sequence_no]
        /\ overlapped' = (overlapped \/ \E u \in Threads \ {t} : pc[u] \in InCall)
        /\ UNCHANGED <<storeVars, sequence_no, log, stocked, checkVars>>
    BY ThreadsFirst DEF Thread, Load, At, InCall
  <1>2. NumbersInv'
    BY LoadNumbers DEF TypesInv
  <1>3. sequence_no \in Slots
    BY <1>1, RoomLeft, SlotsAre DEF TypesInv, TypeOK
  <1>4. overlapped' \in BOOLEAN
    BY <1>1 DEF TypesInv, TypeOK
  <1>5. TypeOK'
    BY <1>1, <1>3, <1>4 DEF TypesInv, TypeOK, Store!TypeOK, ChecksTypeOK, storeVars, checkVars
  <1>6. MainOK' /\ \A u \in Threads : CallOK(u)'
    BY <1>1 DEF TypesInv, TypeOK, MainOK, CallOK, storeVars, checkVars
  <1> QED
    BY <1>2, <1>5, <1>6 DEF TypesInv

LEMMA SendTypes ==
  ASSUME TypesInv, NEW t \in Threads, Send(t)
  PROVE  TypesInv'
  <1>1. PICK r \in Workload :
          /\ phase[t] = "idle" /\ phase' = [phase EXCEPT ![t] = "invoked"]
          /\ req' = [req EXCEPT ![t] = r]
          /\ UNCHANGED <<content, reply>>
    BY DEF Send, Store!Invoke
  <1>2. /\ pc[t] = "send" /\ pc' = [pc EXCEPT ![t] = "wait"] /\ check = "join"
        /\ sequence_no' = number[t] + 1
        /\ UNCHANGED <<number, log, overlapped, stocked, checkVars>>
    BY ThreadsFirst DEF Thread, Send, At
  <1>3. NumbersInv'
    BY SendNumbers DEF TypesInv
  <1>4. Store!TypeOK'
    <2>1. r \in Store!Issued
      BY TestAssumption, SameData DEF Store!Issued
    <2> QED
      BY <1>1, <2>1 DEF TypesInv, TypeOK, Store!TypeOK
  <1>5. sequence_no' \in 0..TableSize
    <2>1. number[t] \in Slots
      BY DEF TypesInv, TypeOK
    <2> QED
      BY <1>2, <2>1, ThreadsAre DEF Slots
  <1>6. TypeOK'
    BY <1>2, <1>4, <1>5 DEF TypesInv, TypeOK, ChecksTypeOK, checkVars
  <1>7. MainOK' /\ \A u \in Threads : CallOK(u)'
    BY <1>1, <1>2 DEF TypesInv, TypeOK, Store!TypeOK, MainOK, CallOK, checkVars
  <1> QED
    BY <1>3, <1>6, <1>7 DEF TypesInv

LEMMA PerformTypes ==
  ASSUME TypesInv, NEW t \in Threads, Perform(t)
  PROVE  TypesInv'
  <1> DEFINE r == req[t]
  <1>1. /\ phase[t] = "invoked" /\ phase' = [phase EXCEPT ![t] = "done"]
        /\ content' = Effect(r, content)
        /\ reply' = [reply EXCEPT ![t] = Reply(Answer(r, content))]
        /\ UNCHANGED <<req, threadVars, checkVars>>
    BY SameData DEF Perform, Store!Perform
  <1>2. r \in Workload /\ content \in [Keys -> Strings] /\ pc[t] = "wait"
    BY <1>1, SameData DEF TypesInv, TypeOK, Store!TypeOK, CallOK
  <1>3. /\ Reply(Answer(r, content)) \in Replies /\ Effect(r, content) \in [Keys -> Strings]
        /\ Reply(Answer(r, content)).result \in Answers(r)
    BY <1>2, CallsTyped
  <1> HIDE DEF r
  <1>4. NumbersInv'
    BY <1>1, NumbersStay DEF TypesInv
  <1>5. Store!TypeOK'
    BY <1>1, <1>3, SameData DEF TypesInv, TypeOK, Store!TypeOK
  <1>6. TypeOK'
    BY <1>1, <1>5 DEF TypesInv, TypeOK, ChecksTypeOK, threadVars, checkVars
  <1>7. reply'[t] = Reply(Answer(r, content))
    BY <1>1 DEF TypesInv, TypeOK, Store!TypeOK
  <1>8. CallOK(t)'
    BY <1>1, <1>2, <1>3, <1>7 DEF TypesInv, TypeOK, Store!TypeOK, CallOK, threadVars, r
  <1>9. \A u \in Threads \ {t} : CallOK(u)'
    BY <1>1 DEF TypesInv, TypeOK, Store!TypeOK, CallOK, threadVars
  <1>10. MainOK'
    BY <1>1, ThreadsFirst DEF TypesInv, MainOK, checkVars
  <1> QED
    BY <1>4, <1>6, <1>8, <1>9, <1>10 DEF TypesInv

LEMMA CollectTypes ==
  ASSUME TypesInv, NEW t \in Threads, Collect(t)
  PROVE  TypesInv'
  <1> DEFINE entry == [sequence_number |-> number[t], event |-> Event(t)]
  <1>1. /\ pc[t] = "wait" /\ pc' = [pc EXCEPT ![t] = IF Len(log[t]) + 1 = num_of_runs THEN "done" ELSE "load"]
        /\ phase[t] = "done" /\ phase' = [phase EXCEPT ![t] = "idle"]
        /\ req' = [req EXCEPT ![t] = NoRequest] /\ reply' = [reply EXCEPT ![t] = NoReply]
        /\ log' = [log EXCEPT ![t] = Append(@, entry)]
        /\ check = "join"
        /\ UNCHANGED <<content, sequence_no, number, overlapped, stocked, checkVars>>
    BY ThreadsFirst, SameData DEF Thread, Collect, At, Event, Store!Return
  <1>2. entry \in LogEntries
    <2>1. number[t] \in Slots
      BY DEF TypesInv, TypeOK
    <2>2. Event(t) \in Events
      BY <1>1, EventTyped, SameData DEF TypesInv, TypeOK, Store!TypeOK
    <2> QED
      BY <2>1, <2>2 DEF LogEntries
  <1> HIDE DEF entry
  <1>3. NumbersInv'
    BY CollectNumbers DEF TypesInv
  <1>4. Store!TypeOK'
    BY <1>1, SameData DEF TypesInv, TypeOK, Store!TypeOK
  <1>5. \A u \in Threads : log'[u] \in Seq(LogEntries) /\ Len(log'[u]) <= num_of_runs
    <2>1. log'[t] = Append(log[t], entry) /\ \A u \in Threads \ {t} : log'[u] = log[u]
      BY <1>1 DEF TypesInv, NumbersInv, NumbersOK, LogsOK
    <2>2. log'[t] \in Seq(LogEntries)
      <3>1. log[t] \in Seq(LogEntries)
        BY DEF TypesInv, TypeOK
      <3> QED
        BY <1>2, <2>1, <3>1
    <2>3. \A u \in Threads : Len(log'[u]) <= num_of_runs
      BY <1>3 DEF NumbersInv, NumbersOK, LogsOK
    <2> QED
      BY <2>1, <2>2, <2>3 DEF TypesInv, TypeOK
  <1>6. pc' \in [Threads -> {"connect", "load", "send", "wait", "done"}]
    BY <1>1 DEF TypesInv, TypeOK
  <1>7. TypeOK'
    BY <1>1, <1>4, <1>5, <1>6 DEF TypesInv, TypeOK, ChecksTypeOK, checkVars
  <1>8. MainOK' /\ \A u \in Threads : CallOK(u)'
    BY <1>1 DEF TypesInv, TypeOK, Store!TypeOK, MainOK, CallOK, checkVars
  <1> QED
    BY <1>3, <1>7, <1>8 DEF TypesInv
-----------------------------------------------------------------------------
\* The entry that is copied last is one of those with the number.
LEMMA Highest ==
  ASSUME NEW T, T \subseteq Nat, T # {}, NEW b \in Nat, \A x \in T : x <= b
  PROVE  \E x \in T : \A y \in T : y <= x
  <1> DEFINE below == {k \in Nat : b - k \in T}
             less == OpToRel(<, Nat)
  <1>1. \A x \in T : x \in Nat /\ b - x \in Nat /\ b - (b - x) = x
    OBVIOUS
  <1>2. below \subseteq Nat /\ below # {} /\ \A x \in T : b - x \in below
    BY <1>1
  <1>3. IsWellFoundedOn(less, Nat)
    BY NatLessThanWellFounded
  <1>4. PICK k \in below : \A n \in below : ~(<<n, k>> \in less)
    <2> HIDE DEF below, less
    <2> QED
      BY <1>2, <1>3, WFMin
  <1>5. \A n \in below : ~(n < k)
    BY <1>2, <1>4 DEF OpToRel
  <1>6. k \in Nat /\ b - k \in T
    BY <1>4
  <1>7. ASSUME NEW y \in T PROVE y <= b - k
    <2>1. ~(b - y < k) /\ y \in Nat
      BY <1>1, <1>2, <1>5
    <2> QED
      BY <1>6, <2>1
  <1> QED
    BY <1>6, <1>7

LEMMA LastCopiedIsEntry ==
  ASSUME NEW n, EntriesAt(n) # {}
  PROVE  LastCopied(n) \in EntriesAt(n)
  <1> DEFINE T == {w[1] : w \in EntriesAt(n)}
  <1>1. EntriesAt(n) \subseteq Places /\ num_of_threads \in Nat /\ num_of_runs \in Nat
    BY ThreadsAre DEF EntriesAt, Places
  <1>2. \A w \in EntriesAt(n) : w[1] \in Nat /\ w[1] <= num_of_threads /\ w[2] \in Nat /\ w[2] <= num_of_runs
    BY <1>1, ThreadsAre DEF Places, Threads
  <1>3. PICK t \in T : \A u \in T : u <= t
    <2>1. T \subseteq Nat /\ T # {} /\ \A x \in T : x <= num_of_threads
      BY <1>2
    <2> HIDE DEF T
    <2> QED
      BY <1>1, <2>1, Highest
  <1> DEFINE J == {w[2] : w \in {x \in EntriesAt(n) : x[1] = t}}
  <1>4. PICK j \in J : \A k \in J : k <= j
    <2>1. J \subseteq Nat /\ J # {} /\ \A x \in J : x <= num_of_runs
      BY <1>2
    <2> HIDE DEF J
    <2> QED
      BY <1>1, <2>1, Highest
  <1>5. PICK w \in EntriesAt(n) : w[1] = t /\ w[2] = j
    OBVIOUS
  <1>6. \A x \in EntriesAt(n) : x[1] < w[1] \/ (x[1] = w[1] /\ x[2] <= w[2])
    <2> SUFFICES ASSUME NEW x \in EntriesAt(n), ~(x[1] < w[1])
                 PROVE  x[1] = w[1] /\ x[2] <= w[2]
      OBVIOUS
    <2>1. x[1] \in T
      OBVIOUS
    <2>2. x[1] <= t
      BY <1>3, <2>1
    <2>3. x[1] = t
      BY <1>2, <1>5, <2>2
    <2>4. x[2] \in J
      BY <2>3
    <2> QED
      BY <1>4, <1>5, <2>3, <2>4
  <1> HIDE DEF T, J
  <1> QED
    BY <1>6 DEF LastCopied

LEMMA InitChecksNext == (sortedBigTable \in Tables /\ ChecksInit => ChecksInv)'
  BY InitChecks, PTL

LEMMA SortTypes ==
  ASSUME TypesInv, Sort
  PROVE  TypesInv'
  <1>1. /\ check = "join" /\ check' = "print" /\ exitCode = "running"
        /\ \A t \in Threads : pc[t] = "done"
        /\ UNCHANGED <<storeVars, threadVars, i, last_updated_value, last_operation, exitCode>>
    BY DEF Sort
  <1>2. sortedBigTable' \in Tables
    <2>1. ASSUME NEW n \in Slots, EntriesAt(n) # {}
          PROVE  log[LastCopied(n)[1]][LastCopied(n)[2]].event \in Events
      <3> DEFINE w == LastCopied(n)
      <3>1. w \in EntriesAt(n)
        BY <2>1, LastCopiedIsEntry
      <3> HIDE DEF w
      <3>2. w[1] \in Threads /\ w[2] \in DOMAIN log[w[1]]
        BY <3>1 DEF EntriesAt
      <3>3. log[w[1]] \in Seq(LogEntries)
        BY <3>2 DEF TypesInv, TypeOK
      <3>4. log[w[1]][w[2]] \in LogEntries
        BY <3>2, <3>3
      <3> QED
        BY <3>4 DEF LogEntries, w
    <2> QED
      BY <2>1 DEF Sort, Tables
  <1>3. ChecksInv'
    <2>1. ChecksInit'
      BY <1>1 DEF ChecksInit, TypesInv, MainOK
    <2> QED
      BY <1>2, <2>1, InitChecksNext
  <1>4. NumbersInv'
    BY <1>1, NumbersStay DEF TypesInv
  <1>5. TypeOK'
    BY <1>1, <1>3 DEF ChecksInv, TypesInv, TypeOK, Store!TypeOK, storeVars, threadVars
  <1>6. MainOK' /\ \A t \in Threads : CallOK(t)'
    BY <1>1, <1>3 DEF TypesInv, MainOK, CallOK, storeVars, threadVars
  <1> QED
    BY <1>4, <1>5, <1>6 DEF TypesInv

LEMMA RunChecksTypes ==
  ASSUME TypesInv, RunChecks
  PROVE  TypesInv' /\ check # "join" /\ check' # "join"
  <1>1. ChecksNext /\ UNCHANGED <<storeVars, threadVars>>
    BY DEF RunChecks
  <1>2. check # "join" /\ check' # "join"
    BY <1>1 DEF ChecksNext, PrintEvent, CheckNotFound, CheckStale, CheckUnset, Iteration, EnterLoop,
                Finish
  <1>3. ChecksInv'
    BY <1>1, <1>2, ChecksStep DEF TypesInv, MainOK
  <1>4. NumbersInv'
    BY <1>1, NumbersStay DEF TypesInv
  <1>5. TypeOK'
    BY <1>1, <1>3 DEF ChecksInv, TypesInv, TypeOK, Store!TypeOK, storeVars, threadVars
  <1>6. MainOK' /\ \A t \in Threads : CallOK(t)'
    BY <1>1, <1>2, <1>3 DEF TypesInv, MainOK, CallOK, storeVars, threadVars
  <1> QED
    BY <1>2, <1>4, <1>5, <1>6 DEF TypesInv

LEMMA TypesStay == ASSUME TypesInv, UNCHANGED vars PROVE TypesInv'
  <1>1. UNCHANGED <<storeVars, threadVars, checkVars>>
    BY DEF vars
  <1>2. NumbersInv'
    BY <1>1, NumbersStay DEF TypesInv
  <1>3. ChecksInv => ChecksInv'
    BY <1>1, ChecksStep
  <1>4. TypeOK' /\ MainOK' /\ \A t \in Threads : CallOK(t)'
    BY <1>1, <1>3 DEF TypesInv, TypeOK, Store!TypeOK, ChecksTypeOK, MainOK, CallOK,
                      storeVars, threadVars, checkVars
  <1> QED
    BY <1>2, <1>4 DEF TypesInv

LEMMA TypesInvariance == Spec => []TypesInv
  <1>1. TypesInv /\ [Next]_vars => TypesInv'
    BY EndProcessTypes, ConnectTypes, LoadTypes, SendTypes, PerformTypes, CollectTypes,
       SortTypes, RunChecksTypes, TypesStay DEF Next, Thread, Main
  <1> QED
    BY <1>1, InitTypes, PTL DEF Spec

\* The types: above all, the numbers the threads load stay within the table,
\* however their increments interleave.
THEOREM TestTyped == Spec => []TypeOK
  <1>1. TypesInv => TypeOK
    BY DEF TypesInv
  <1> QED
    BY <1>1, TypesInvariance, PTL
-----------------------------------------------------------------------------
(***************************************************************************)
(* The verdict.  While no two calls have overlapped, the numbers tell the  *)
(* calls apart and put them in the order the server executed them, so the  *)
(* table is the history of the server.                                     *)
(***************************************************************************)
\* The places of the calls that were logged, and what was logged there.
Entries == {p \in Places : p[2] \in DOMAIN log[p[1]]}

Num(p) == log[p[1]][p[2]].sequence_number

Ev(p) == log[p[1]][p[2]].event

SetsKey(p) == IsSet(Ev(p), key_2)

\* v is what key_2 held before number n, by the logs of calls in turn.
HeldBefore(v, n) ==
  \/ v = Empty /\ \A p \in Entries : Num(p) < n => ~SetsKey(p)
  \/ \E p \in Entries :
       /\ Num(p) < n /\ SetsKey(p) /\ Ev(p).value = v
       /\ \A q \in Entries : Num(p) < Num(q) /\ Num(q) < n => ~SetsKey(q)

\* One call at a time, numbered as they come.
InTurn ==
  /\ \A t, u \in Threads : pc[t] \in InCall /\ pc[u] \in InCall => t = u
  /\ \A p, q \in Entries : Num(p) = Num(q) => p = q
  /\ \A p \in Entries : Num(p) < sequence_no
  /\ \A t \in Threads : pc[t] = "send" => number[t] = sequence_no
  /\ \A t \in Threads : pc[t] = "wait" =>
       number[t] = sequence_no - 1 /\ \A p \in Entries : Num(p) < number[t]

\* What the server holds for key_2 once it has executed the call of t.
HeldAfter(t) ==
  IF req[t].fname = "kvset" /\ req[t].key = key_2
    THEN content[key_2] = req[t].value
    ELSE /\ HeldBefore(content[key_2], number[t])
         /\ req[t].key = key_2 => reply[t].result = Lookup(content[key_2])

\* The logs are the history of key_2, up to what the server holds.
History ==
  /\ \A p \in Entries : IsGet(Ev(p), key_2) => HeldBefore(Ev(p).response.value, Num(p))
  /\ \A t \in Threads : phase[t] = "done" => HeldAfter(t)
  /\ (\A t \in Threads : phase[t] # "done") => HeldBefore(content[key_2], sequence_no)

\* What main makes of it.
VerdictOK ==
  /\ check # "join" /\ ~overlapped => \A n \in Slots : sortedBigTable[n] # Unfilled
  /\ check # "join" /\ ~overlapped /\ ~stocked => Legal(key_2)
  /\ check = "join" =>
       \/ exitCode \in {"running", "exit2", "SIGABRT"}
       \/ exitCode = "SIGSEGV" /\ \E t \in Threads : pc[t] = "connect"

LogsFull == \A t \in Threads : pc[t] = "done" => Len(log[t]) = num_of_runs

AlarmInv ==
  /\ TypesInv
  /\ LogsFull
  /\ ~overlapped => InTurn
  /\ ~overlapped /\ ~stocked => History
  /\ VerdictOK
-----------------------------------------------------------------------------
LEMMA EntriesAre ==
  ASSUME TypesInv, NEW p \in Entries
  PROVE  Num(p) \in Nat /\ Num(p) \in Slots /\ Ev(p) \in Events
  <1>1. p[1] \in Threads /\ p[2] \in DOMAIN log[p[1]]
    BY DEF Entries, Places
  <1>2. log[p[1]] \in Seq(LogEntries)
    BY <1>1 DEF TypesInv, TypeOK
  <1>3. log[p[1]][p[2]] \in LogEntries
    BY <1>1, <1>2
  <1> QED
    BY <1>3, ThreadsAre DEF LogEntries, Num, Ev, Slots

\* Numbers no entry has make no difference.
LEMMA HeldAlike ==
  ASSUME NEW v, NEW m, NEW n, HeldBefore(v, m),
         \A p \in Entries : Num(p) < m <=> Num(p) < n
  PROVE  HeldBefore(v, n)
  BY DEF HeldBefore

LEMMA LogsStay ==
  ASSUME UNCHANGED log
  PROVE  /\ Entries' = Entries
         /\ \A p : Num(p)' = Num(p) /\ Ev(p)' = Ev(p) /\ SetsKey(p)' = SetsKey(p)
         /\ \A v, n : HeldBefore(v, n)' = HeldBefore(v, n)
  BY DEF Entries, Num, Ev, SetsKey, HeldBefore

\* A call that is logged: the new entry is the last.
LEMMA LogGrows ==
  ASSUME AlarmInv, ~overlapped, NEW t \in Threads, Collect(t)
  PROVE  \E q : /\ Entries' = Entries \cup {q} /\ q \notin Entries
                /\ Num(q)' = number[t] /\ Ev(q)' = Event(t)
                /\ \A p \in Entries : /\ Num(p)' = Num(p) /\ Ev(p)' = Ev(p)
                                      /\ SetsKey(p)' = SetsKey(p) /\ Num(p) < number[t]
  <1> DEFINE len == Len(log[t])
             entry == [sequence_number |-> number[t], event |-> Event(t)]
  <1>0. TypesInv /\ NumbersOK /\ InTurn
    BY DEF AlarmInv, TypesInv, NumbersInv
  <1>1. pc[t] = "wait" /\ log' = [log EXCEPT ![t] = Append(@, entry)]
    BY DEF Collect, At, Event
  <1>q. PICK q : q = <<t, len + 1>>
    OBVIOUS
  <1>2. log[t] \in Seq(LogEntries) /\ len \in Nat /\ len + 1 <= num_of_runs /\ DOMAIN log[t] = 1..len
    BY <1>0, <1>1, LogIs, ThreadsAre DEF TypesInv, TypeOK
  <1> HIDE DEF entry
  <1>3. /\ DOMAIN log'[t] = 1..(len + 1)
        /\ log'[t][len + 1] = entry
        /\ \A j \in 1..len : log'[t][j] = log[t][j]
        /\ \A u \in Threads \ {t} : log'[u] = log[u]
    <2>1. log'[t] = Append(log[t], entry) /\ \A u \in Threads \ {t} : log'[u] = log[u]
      BY <1>0, <1>1 DEF NumbersOK, LogsOK
    <2> QED
      BY <1>2, <2>1
  <1>4. q \in Places /\ q \notin Entries
    BY <1>q, <1>2, ThreadsAre DEF Places, Entries
  <1>5. ASSUME NEW p \in Places
        PROVE  /\ p[2] \in DOMAIN log'[p[1]] <=> p \in Entries \/ p = q
               /\ p \in Entries => log'[p[1]][p[2]] = log[p[1]][p[2]]
    <2>1. p = <<p[1], p[2]>> /\ p[1] \in Threads /\ p[2] \in Nat
      BY ThreadsAre DEF Places
    <2>2. CASE p[1] = t
      <3>1. p[2] \in DOMAIN log'[t] <=> p[2] \in DOMAIN log[t] \/ p[2] = len + 1
        BY <1>2, <1>3, <2>1
      <3>2. p = q <=> p[2] = len + 1
        BY <1>q, <2>1, <2>2
      <3>3. p \in Entries <=> p[2] \in DOMAIN log[t]
        BY <2>2 DEF Entries
      <3>4. p[2] \in DOMAIN log[t] => log'[t][p[2]] = log[t][p[2]]
        BY <1>2, <1>3
      <3> QED
        BY <2>2, <3>1, <3>2, <3>3, <3>4
    <2>3. CASE p[1] # t
      BY <1>q, <1>3, <2>1, <2>3 DEF Entries
    <2> QED
      BY <2>2, <2>3
  <1>6. Entries' = Entries \cup {q}
    BY <1>4, <1>5 DEF Entries
  <1>7. Num(q)' = number[t] /\ Ev(q)' = Event(t)
    BY <1>q, <1>3 DEF Num, Ev, entry
  <1>8. ASSUME NEW p \in Entries
        PROVE  Num(p)' = Num(p) /\ Ev(p)' = Ev(p) /\ SetsKey(p)' = SetsKey(p) /\ Num(p) < number[t]
    <2>1. p \in Places
      BY DEF Entries
    <2>2. Num(p)' = Num(p) /\ Ev(p)' = Ev(p)
      BY <1>5, <2>1 DEF Num, Ev
    <2> QED
      BY <1>0, <1>1, <2>2 DEF InTurn, SetsKey
  <1> QED
    BY <1>4, <1>6, <1>7, <1>8

\* What the logs say is not changed by a call that comes after them.
LEMMA HeldStill ==
  ASSUME NEW N \in Nat, NEW q, NEW v, NEW n \in Nat, HeldBefore(v, n), n <= N,
         Entries' = Entries \cup {q}, Num(q)' = N,
         \A p \in Entries : /\ Num(p) \in Nat /\ Num(p)' = Num(p) /\ Ev(p)' = Ev(p)
                            /\ SetsKey(p)' = SetsKey(p)
  PROVE  HeldBefore(v, n)'
  <1>1. ~(Num(q)' < n)
    OBVIOUS
  <1>2. CASE v = Empty /\ \A p \in Entries : Num(p) < n => ~SetsKey(p)
    BY <1>1, <1>2 DEF HeldBefore
  <1>3. ASSUME NEW p \in Entries, Num(p) < n, SetsKey(p), Ev(p).value = v,
               \A x \in Entries : Num(p) < Num(x) /\ Num(x) < n => ~SetsKey(x)
        PROVE  HeldBefore(v, n)'
    BY <1>1, <1>3 DEF HeldBefore
  <1> QED
    BY <1>2, <1>3 DEF HeldBefore

\* What key_2 holds after the last call.
LEMMA HeldNow ==
  ASSUME NEW N \in Nat, NEW q, NEW v,
         Entries' = Entries \cup {q}, Num(q)' = N,
         \A p \in Entries : /\ Num(p) \in Nat /\ Num(p)' = Num(p) /\ Ev(p)' = Ev(p)
                            /\ SetsKey(p)' = SetsKey(p) /\ Num(p) < N,
         IF SetsKey(q)' THEN Ev(q)'.value = v ELSE HeldBefore(v, N)
  PROVE  HeldBefore(v, N + 1)'
  <1>1. CASE SetsKey(q)'
    <2>1. \A x \in Entries' : ~(Num(q)' < Num(x)')
      OBVIOUS
    <2>2. q \in Entries' /\ Num(q)' < N + 1 /\ Ev(q)'.value = v
      BY <1>1
    <2> QED
      BY <1>1, <2>1, <2>2 DEF HeldBefore
  <1>2. CASE ~SetsKey(q)'
    <2>1. HeldBefore(v, N)
      BY <1>2
    <2>2. \A p \in Entries : Num(p) < N + 1 <=> Num(p) < N
      OBVIOUS
    <2>3. CASE v = Empty /\ \A p \in Entries : Num(p) < N => ~SetsKey(p)
      BY <1>2, <2>3 DEF HeldBefore
    <2>4. ASSUME NEW p \in Entries, Num(p) < N, SetsKey(p), Ev(p).value = v,
                 \A x \in Entries : Num(p) < Num(x) /\ Num(x) < N => ~SetsKey(x)
          PROVE  HeldBefore(v, N + 1)'
      BY <1>2, <2>2, <2>4 DEF HeldBefore
    <2> QED
      BY <2>1, <2>3, <2>4 DEF HeldBefore
  <1> QED
    BY <1>1, <1>2
-----------------------------------------------------------------------------
LEMMA InitAlarm == ASSUME Init PROVE AlarmInv
  <1> USE DEF Init
  <1>1. TypesInv
    BY InitTypes
  <1>2. Entries = {}
    BY DEF Entries, Places
  <1>3. LogsFull /\ InTurn
    BY <1>2 DEF LogsFull, InTurn, InCall
  <1>4. ~stocked => History
    BY <1>2 DEF History, HeldBefore
  <1>5. VerdictOK
    BY DEF VerdictOK
  <1> QED
    BY <1>1, <1>3, <1>4, <1>5 DEF AlarmInv

\* While main waits, the verdict is still open.
LEMMA VerdictOpen ==
  ASSUME AlarmInv, UNCHANGED check, check = "join",
         \/ UNCHANGED exitCode /\ exitCode = "running"
         \/ exitCode' \in {"exit2", "SIGABRT"}
         \/ exitCode' = "SIGSEGV" /\ \E t \in Threads : pc'[t] = "connect"
  PROVE  VerdictOK'
  BY DEF VerdictOK

LEMMA EndProcessAlarm ==
  ASSUME AlarmInv, NEW t \in Threads, ConnectFails(t) \/ CallThrows(t)
  PROVE  AlarmInv'
  <1>1. /\ check = "join" /\ UNCHANGED <<storeVars, threadVars, check>>
        /\ \/ exitCode' \in {"exit2", "SIGABRT"}
           \/ exitCode' = "SIGSEGV" /\ pc[t] = "connect"
    BY ThreadsFirst DEF AlarmInv, Thread, ConnectFails, CallThrows, EndProcess
  <1>2. TypesInv'
    BY EndProcessTypes DEF AlarmInv
  <1>3. VerdictOK'
    BY <1>1, VerdictOpen DEF threadVars
  <1>4. LogsFull' /\ (~overlapped' => InTurn')
    BY <1>1, LogsStay DEF AlarmInv, LogsFull, InTurn, threadVars
  <1>5. ~overlapped' /\ ~stocked' => History'
    BY <1>1, LogsStay DEF AlarmInv, History, HeldAfter, threadVars, storeVars
  <1> QED
    BY <1>2, <1>3, <1>4, <1>5 DEF AlarmInv

LEMMA ConnectAlarm ==
  ASSUME AlarmInv, NEW t \in Threads, Connect(t)
  PROVE  AlarmInv'
  <1>1. /\ pc[t] = "connect" /\ pc' = [pc EXCEPT ![t] = "load"]
        /\ check = "join" /\ exitCode = "running"
        /\ UNCHANGED <<storeVars, sequence_no, number, log, overlapped, stocked, checkVars>>
    BY ThreadsFirst DEF AlarmInv, Thread, Connect, At
  <1>2. TypesInv'
    BY ConnectTypes DEF AlarmInv
  <1>3. VerdictOK'
    BY <1>1, VerdictOpen DEF checkVars
  <1>4. \A u \in Threads : pc'[u] = IF u = t THEN "load" ELSE pc[u]
    BY <1>1 DEF AlarmInv, TypesInv, TypeOK
  <1>5. LogsFull'
    BY <1>1, <1>4 DEF AlarmInv, LogsFull
  <1>6. ~overlapped' => InTurn'
    BY <1>1, <1>4, LogsStay DEF AlarmInv, InTurn, InCall
  <1>7. ~overlapped' /\ ~stocked' => History'
    BY <1>1, LogsStay DEF AlarmInv, History, HeldAfter, storeVars
  <1> QED
    BY <1>2, <1>3, <1>5, <1>6, <1>7 DEF AlarmInv

LEMMA LoadAlarm ==
  ASSUME AlarmInv, NEW t \in Threads, Load(t)
  PROVE  AlarmInv'
  <1>1. /\ pc[t] = "load" /\ pc' = [pc EXCEPT ![t] = "send"]
        /\ check = "join" /\ exitCode = "running"
        /\ number' = [number EXCEPT ![t] = sequence_no]
        /\ overlapped' = (overlapped \/ \E u \in Threads \ {t} : pc[u] \in InCall)
        /\ UNCHANGED <<storeVars, sequence_no, log, stocked, checkVars>>
    BY ThreadsFirst DEF AlarmInv, Thread, Load, At, InCall
  <1>2. TypesInv'
    BY LoadTypes DEF AlarmInv
  <1>3. VerdictOK'
    BY <1>1, VerdictOpen DEF checkVars
  <1>4. \A u \in Threads : /\ pc'[u] = IF u = t THEN "send" ELSE pc[u]
                           /\ number'[u] = IF u = t THEN sequence_no ELSE number[u]
    BY <1>1 DEF AlarmInv, TypesInv, TypeOK
  <1>5. LogsFull'
    BY <1>1, <1>4 DEF AlarmInv, LogsFull
  <1>6. ~overlapped' => ~overlapped /\ \A u \in Threads \ {t} : pc[u] \notin InCall
    BY <1>1
  <1>7. ASSUME ~overlapped' PROVE InTurn'
    BY <1>1, <1>4, <1>6, <1>7, LogsStay DEF AlarmInv, InTurn, InCall
  <1>8. ASSUME ~overlapped', ~stocked' PROVE History'
    <2>1. phase[t] # "done" /\ History
      BY <1>1, <1>6, <1>8 DEF AlarmInv, TypesInv, CallOK
    <2>2. ASSUME NEW u \in Threads, phase'[u] = "done" PROVE HeldAfter(u)'
      BY <1>1, <1>4, <2>1, <2>2, LogsStay DEF History, HeldAfter, storeVars
    <2> QED
      BY <1>1, <2>1, <2>2, LogsStay DEF History, storeVars
  <1> QED
    BY <1>2, <1>3, <1>5, <1>7, <1>8 DEF AlarmInv

LEMMA SendAlarm ==
  ASSUME AlarmInv, NEW t \in Threads, Send(t)
  PROVE  AlarmInv'
  <1>1. /\ pc[t] = "send" /\ pc' = [pc EXCEPT ![t] = "wait"]
        /\ check = "join" /\ exitCode = "running"
        /\ phase' = [phase EXCEPT ![t] = "invoked"]
        /\ sequence_no' = number[t] + 1
        /\ \A u \in Threads \ {t} : req'[u] = req[u]
        /\ UNCHANGED <<content, reply, number, log, overlapped, stocked, checkVars>>
    BY ThreadsFirst DEF AlarmInv, TypesInv, TypeOK, Store!TypeOK, Thread, Send, At, Store!Invoke
  <1>2. TypesInv'
    BY SendTypes DEF AlarmInv
  <1>3. VerdictOK'
    BY <1>1, VerdictOpen DEF checkVars
  <1>4. \A u \in Threads : /\ pc'[u] = IF u = t THEN "wait" ELSE pc[u]
                           /\ phase'[u] = IF u = t THEN "invoked" ELSE phase[u]
    BY <1>1 DEF AlarmInv, TypesInv, TypeOK, Store!TypeOK
  <1>5. LogsFull'
    BY <1>1, <1>4 DEF AlarmInv, LogsFull
  <1>6. sequence_no \in Nat /\ \A p \in Entries : Num(p) \in Nat
    BY EntriesAre DEF AlarmInv, TypesInv, NumbersInv, NumbersOK
  <1>7. ASSUME ~overlapped' PROVE InTurn' /\ sequence_no' = sequence_no + 1
    <2>1. InTurn /\ sequence_no' = sequence_no + 1
      BY <1>1, <1>7 DEF AlarmInv, InTurn
    <2> QED
      BY <1>1, <1>4, <1>6, <2>1, LogsStay DEF InTurn, InCall
  <1>8. ASSUME ~overlapped', ~stocked' PROVE History'
    <2>1. History /\ InTurn /\ sequence_no' = sequence_no + 1
      BY <1>1, <1>7, <1>8 DEF AlarmInv
    <2>2. \A u \in Threads : phase[u] # "done" /\ phase'[u] # "done"
      BY <1>1, <1>4, <2>1 DEF InTurn, InCall, AlarmInv, TypesInv, CallOK
    <2>3. HeldBefore(content[key_2], sequence_no)
      BY <2>1, <2>2 DEF History
    <2>4. \A p \in Entries : Num(p) < sequence_no <=> Num(p) < sequence_no + 1
      BY <1>6, <2>1 DEF InTurn
    <2>5. HeldBefore(content[key_2], sequence_no + 1)
      BY <2>3, <2>4, HeldAlike
    <2> QED
      BY <1>1, <2>1, <2>2, <2>5, LogsStay DEF History
  <1> QED
    BY <1>2, <1>3, <1>5, <1>7, <1>8 DEF AlarmInv

LEMMA PerformAlarm ==
  ASSUME AlarmInv, NEW t \in Threads, Perform(t)
  PROVE  AlarmInv'
  <1> DEFINE r == req[t]
  <1>1. /\ phase[t] = "invoked" /\ phase' = [phase EXCEPT ![t] = "done"]
        /\ content' = Effect(r, content)
        /\ reply' = [reply EXCEPT ![t] = Reply(Answer(r, content))]
        /\ exitCode = "running"
        /\ UNCHANGED <<req, threadVars, checkVars>>
    BY SameData DEF Perform, Store!Perform
  <1>2. r \in Workload /\ content \in [Keys -> Strings] /\ pc[t] = "wait" /\ check = "join"
    BY <1>1, ThreadsFirst, SameData DEF AlarmInv, TypesInv, TypeOK, Store!TypeOK, CallOK
  <1>3. TypesInv'
    BY PerformTypes DEF AlarmInv
  <1>4. VerdictOK'
    BY <1>1, <1>2, VerdictOpen DEF checkVars
  <1>5. LogsFull' /\ (~overlapped' => InTurn')
    BY <1>1, LogsStay DEF AlarmInv, LogsFull, InTurn, threadVars
  <1>6. ASSUME ~overlapped', ~stocked' PROVE History'
    <2>1. History /\ InTurn
      BY <1>1, <1>6 DEF AlarmInv, threadVars
    <2>2. \A u \in Threads \ {t} : phase[u] # "done" /\ phase'[u] # "done"
      BY <1>1, <1>2, <2>1 DEF InTurn, InCall, AlarmInv, TypesInv, TypeOK, Store!TypeOK, CallOK
    <2>3. /\ phase'[t] = "done"
          /\ reply'[t].result = Answer(r, content)
          /\ content' = IF r.fname = "kvset" THEN [content EXCEPT ![r.key] = r.value] ELSE content
          /\ r.fname \in {"kvset", "kvget"} /\ r.key \in Keys
      <3>1. Reply(Answer(r, content)).result = Answer(r, content)
        BY <1>2, CallsTyped
      <3> QED
        BY <1>1, <1>2, <3>1, CallsTyped DEF AlarmInv, TypesInv, TypeOK, Store!TypeOK
    <2>4. HeldBefore(content[key_2], number[t])
      <3>1. HeldBefore(content[key_2], sequence_no)
        BY <1>1, <2>1, <2>2 DEF History
      <3>2. \A p \in Entries : Num(p) < sequence_no <=> Num(p) < number[t]
        BY <1>2, <2>1 DEF InTurn
      <3> QED
        BY <3>1, <3>2, HeldAlike
    <2>5. HeldAfter(t)'
      <3>1. CASE r.fname = "kvset" /\ r.key = key_2
        <4>1. content'[key_2] = r.value
          BY <1>2, <2>3, <3>1
        <4> QED
          BY <1>1, <3>1, <4>1 DEF HeldAfter
      <3>2. CASE ~(r.fname = "kvset" /\ r.key = key_2)
        <4>1. content'[key_2] = content[key_2]
          BY <1>2, <2>3, <3>2
        <4>2. HeldBefore(content[key_2], number[t])'
          BY <1>1, <2>4, <4>1, LogsStay DEF threadVars
        <4>3. r.key = key_2 => reply'[t].result = Lookup(content'[key_2])
          BY <2>3, <3>2, <4>1 DEF Answer
        <4> QED
          BY <1>1, <3>2, <4>2, <4>3 DEF HeldAfter, threadVars
      <3> QED
        BY <3>1, <3>2
    <2> QED
      BY <1>1, <2>1, <2>2, <2>3, <2>5, LogsStay DEF History, threadVars
  <1> QED
    BY <1>3, <1>4, <1>5, <1>6 DEF AlarmInv

LEMMA CollectAlarm ==
  ASSUME AlarmInv, NEW t \in Threads, Collect(t)
  PROVE  AlarmInv'
  <1>1. /\ pc[t] = "wait" /\ pc' = [pc EXCEPT ![t] = IF Len(log[t]) + 1 = num_of_runs THEN "done" ELSE "load"]
        /\ phase[t] = "done" /\ phase' = [phase EXCEPT ![t] = "idle"]
        /\ log' = [log EXCEPT ![t] = Append(@, [sequence_number |-> number[t], event |-> Event(t)])]
        /\ check = "join" /\ exitCode = "running"
        /\ UNCHANGED <<content, sequence_no, number, overlapped, stocked, checkVars>>
    BY ThreadsFirst DEF AlarmInv, Thread, Collect, At, Event, Store!Return
  <1>2. TypesInv'
    BY CollectTypes DEF AlarmInv
  <1>3. VerdictOK'
    BY <1>1, VerdictOpen DEF checkVars
  <1>4. \A u \in Threads :
          /\ pc'[u] = IF u = t THEN IF Len(log[t]) + 1 = num_of_runs THEN "done" ELSE "load" ELSE pc[u]
          /\ phase'[u] = IF u = t THEN "idle" ELSE phase[u]
    BY <1>1 DEF AlarmInv, TypesInv, TypeOK, Store!TypeOK
  <1>5. LogsFull'
    <2>1. log'[t] = Append(log[t], [sequence_number |-> number[t], event |-> Event(t)])
      BY <1>1 DEF AlarmInv, TypesInv, NumbersInv, NumbersOK, LogsOK
    <2>2. PICK S : log[t] \in Seq(S)
      BY DEF AlarmInv, TypesInv, NumbersInv, NumbersOK, LogsOK
    <2>3. Len(log'[t]) = Len(log[t]) + 1
      BY <2>1, <2>2
    <2>4. \A u \in Threads \ {t} : log'[u] = log[u]
      BY <1>1 DEF AlarmInv, TypesInv, NumbersInv, NumbersOK, LogsOK
    <2> QED
      BY <1>4, <2>3, <2>4 DEF AlarmInv, LogsFull
  <1>6. ASSUME ~overlapped' PROVE InTurn' /\ (~stocked' => History')
    <2>0. ~overlapped /\ InTurn /\ (~stocked' => History)
      BY <1>1, <1>6 DEF AlarmInv
    <2>1. PICK N \in Nat : N = number[t] /\ sequence_no = N + 1
      BY <1>1, <2>0 DEF InTurn, AlarmInv, TypesInv, NumbersInv, NumbersOK
    <2>2. PICK q : /\ Entries' = Entries \cup {q} /\ q \notin Entries
                   /\ Num(q)' = N /\ Ev(q)' = Event(t)
                   /\ \A p \in Entries : /\ Num(p)' = Num(p) /\ Ev(p)' = Ev(p)
                                         /\ SetsKey(p)' = SetsKey(p) /\ Num(p) < N
      BY <2>0, <2>1, LogGrows
    <2>3. \A p \in Entries : Num(p) \in Nat /\ Num(p) # N
      BY <2>1, <2>2, EntriesAre DEF AlarmInv
    <2>4. \A u \in Threads : pc'[u] \notin InCall
      BY <1>1, <1>4, <2>0 DEF InTurn, InCall
    <2>5. InTurn'
      <3>1. \A p, x \in Entries' : Num(p)' = Num(x)' => p = x
        BY <2>0, <2>2, <2>3 DEF InTurn
      <3>2. \A p \in Entries' : Num(p)' < sequence_no'
        BY <1>1, <2>1, <2>2, <2>3
      <3> QED
        BY <2>4, <3>1, <3>2 DEF InTurn, InCall
    <2>6. ASSUME ~stocked' PROVE History'
      <3>0. History /\ HeldAfter(t)
        BY <1>1, <2>0, <2>6 DEF History
      <3>h. PICK held : held = content[key_2]
        OBVIOUS
      <3>1. /\ SetsKey(q)' <=> req[t].fname = "kvset" /\ req[t].key = key_2
            /\ IsGet(Ev(q)', key_2) <=> req[t].fname # "kvset" /\ req[t].key = key_2
            /\ Ev(q)'.value = req[t].value /\ Ev(q)'.response = reply[t].result
        <4>1. Event(t) \in Events
          BY <1>1, EventTyped, SameData DEF AlarmInv, TypesInv, TypeOK, Store!TypeOK
        <4>2. Event(t) # Unfilled
          BY <4>1, UnfilledAssumption
        <4> QED
          BY <2>2, <4>2 DEF SetsKey, IsSet, IsGet, Event
      <3>2. IF SetsKey(q)' THEN Ev(q)'.value = held ELSE HeldBefore(held, N)
        BY <2>1, <3>0, <3>h, <3>1 DEF HeldAfter
      <3>3. HeldBefore(held, N + 1)'
        BY <2>2, <2>3, <3>2, HeldNow
      <3>4. ASSUME NEW p \in Entries', IsGet(Ev(p)', key_2)
            PROVE  HeldBefore(Ev(p).response.value, Num(p))'
        <4>1. CASE p \in Entries
          <5>1. HeldBefore(Ev(p).response.value, Num(p))
            BY <2>2, <3>0, <3>4, <4>1 DEF History
          <5> QED
            BY <2>1, <2>2, <2>3, <4>1, <5>1, HeldStill
        <4>2. CASE p = q
          <5>1. HeldBefore(held, N) /\ Ev(q)'.response.value = held
            BY <2>1, <3>0, <3>h, <3>1, <3>4, <4>2 DEF HeldAfter, Lookup
          <5> QED
            BY <2>1, <2>2, <2>3, <4>2, <5>1, HeldStill
        <4> QED
          BY <2>2, <4>1, <4>2
      <3>5. \A u \in Threads : phase'[u] # "done"
        BY <1>2, <2>4 DEF TypesInv, CallOK, InCall
      <3> QED
        BY <1>1, <2>1, <3>h, <3>3, <3>4, <3>5 DEF History
    <2> QED
      BY <2>5, <2>6
  <1> QED
    BY <1>2, <1>3, <1>5, <1>6 DEF AlarmInv

\* Once every call is logged, the calls in turn fill the table.
LEMMA TableIsLogs ==
  ASSUME TypesInv, LogsFull, InTurn, \A t \in Threads : pc[t] = "done"
  PROVE  /\ \A n \in Slots : LastCopied(n) \in Entries /\ Num(LastCopied(n)) = n
                             /\ EntriesAt(n) # {}
         /\ \A p \in Entries : Num(p) \in Slots /\ LastCopied(Num(p)) = p
  <1> DEFINE f == [p \in Places |-> Num(p)]
  <1>1. Entries = Places
    <2>1. ASSUME NEW p \in Places PROVE p[2] \in DOMAIN log[p[1]]
      <3>1. p[1] \in Threads /\ p[2] \in 1..num_of_runs
        BY DEF Places
      <3>2. Len(log[p[1]]) = num_of_runs /\ DOMAIN log[p[1]] = 1..Len(log[p[1]])
        BY <3>1, LogIs DEF TypesInv, NumbersInv, LogsFull
      <3> QED
        BY <3>1, <3>2
    <2> QED
      BY <2>1 DEF Entries
  <1>2. f \in Surjection(Places, Slots)
    <2>1. f \in [Places -> Slots]
      BY <1>1, EntriesAre
    <2>2. \A p, q \in Places : f[p] = f[q] => p = q
      BY <1>1 DEF InTurn
    <2> HIDE DEF f
    <2>3. f \in Injection(Places, Slots)
      BY <2>1, <2>2 DEF Injection, IsInjective
    <2> QED
      BY <2>3, ThreadsAre, FS_Injection
  <1>3. ASSUME NEW n \in Slots PROVE \E p \in Entries : Num(p) = n
    <2>1. \E p \in Places : f[p] = n
      <3> HIDE DEF f
      <3> QED
        BY <1>2 DEF Surjection
    <2> QED
      BY <1>1, <2>1
  <1>4. ASSUME NEW n PROVE EntriesAt(n) = {p \in Entries : Num(p) = n}
    BY DEF EntriesAt, Entries, Places, Num
  <1>5. ASSUME NEW n \in Slots
        PROVE  LastCopied(n) \in Entries /\ Num(LastCopied(n)) = n /\ EntriesAt(n) # {}
    <2>1. EntriesAt(n) # {}
      BY <1>3, <1>4
    <2>2. LastCopied(n) \in EntriesAt(n)
      BY <2>1, LastCopiedIsEntry
    <2> QED
      BY <1>4, <2>1, <2>2
  <1>6. ASSUME NEW p \in Entries PROVE Num(p) \in Slots /\ LastCopied(Num(p)) = p
    <2>1. Num(p) \in Slots
      BY EntriesAre
    <2> QED
      BY <1>5, <2>1 DEF InTurn
  <1> QED
    BY <1>5, <1>6

LEMMA SortAlarm ==
  ASSUME AlarmInv, Sort
  PROVE  AlarmInv'
  <1>1. /\ check = "join" /\ check' = "print" /\ exitCode = "running"
        /\ \A t \in Threads : pc[t] = "done"
        /\ sortedBigTable' = [n \in Slots |-> IF EntriesAt(n) = {} THEN Unfilled ELSE Ev(LastCopied(n))]
        /\ UNCHANGED <<storeVars, threadVars, i, last_updated_value, last_operation, exitCode>>
    BY DEF Sort, Ev
  <1>2. TypesInv'
    BY SortTypes DEF AlarmInv
  <1>3. LogsFull' /\ (~overlapped' => InTurn')
    BY <1>1, LogsStay DEF AlarmInv, LogsFull, InTurn, threadVars
  <1>4. ~overlapped' /\ ~stocked' => History'
    BY <1>1, LogsStay DEF AlarmInv, History, HeldAfter, threadVars, storeVars
  <1>5. ASSUME ~overlapped
        PROVE  /\ \A n \in Slots : sortedBigTable'[n] # Unfilled
               /\ ~stocked => Legal(key_2)'
    <2>1. /\ \A n \in Slots : LastCopied(n) \in Entries /\ Num(LastCopied(n)) = n
                              /\ EntriesAt(n) # {}
          /\ \A p \in Entries : Num(p) \in Slots /\ LastCopied(Num(p)) = p
      BY <1>1, <1>5, TableIsLogs DEF AlarmInv
    <2>2. \A n \in Slots : sortedBigTable'[n] = Ev(LastCopied(n))
      BY <1>1, <2>1
    <2>3. \A n \in Slots : sortedBigTable'[n] \in Events /\ sortedBigTable'[n] # Unfilled
      BY <2>1, <2>2, EntriesAre, UnfilledAssumption DEF AlarmInv
    <2>4. \A p \in Entries : sortedBigTable'[Num(p)] = Ev(p)
      BY <2>1, <2>2
    <2>5. ASSUME ~stocked, NEW n \in Slots, IsGet(sortedBigTable'[n], key_2)
          PROVE  IF \E j \in Slots : j < n /\ IsSet(sortedBigTable'[j], key_2)
                   THEN \E j \in Slots :
                          /\ LastSet(key_2, j, n)'
                          /\ sortedBigTable'[n].response.value = sortedBigTable'[j].value
                   ELSE NotFound(sortedBigTable'[n])
      <3> DEFINE e == sortedBigTable'[n]
                 v == e.response.value
      <3>1. HeldBefore(v, n)
        <4>1. History
          BY <1>5, <2>5 DEF AlarmInv
        <4> QED
          BY <2>1, <2>2, <2>5, <4>1 DEF History
      <3>2. CASE v = Empty /\ \A p \in Entries : Num(p) < n => ~SetsKey(p)
        <4>1. \A j \in Slots : j < n => ~IsSet(sortedBigTable'[j], key_2)
          BY <2>1, <2>2, <3>2 DEF SetsKey
        <4>2. e.operation = "get" /\ e # Unfilled /\ e \in Events
          BY <2>3, <2>5 DEF IsGet
        <4>3. e.response.error = "kKeyNotFound"
          BY <3>2, <4>2 DEF Events, Lookup
        <4> QED
          BY <4>1, <4>2, <4>3 DEF NotFound
      <3>3. ASSUME NEW p \in Entries, Num(p) < n, SetsKey(p), Ev(p).value = v,
                   \A q \in Entries : Num(p) < Num(q) /\ Num(q) < n => ~SetsKey(q)
            PROVE  \E j \in Slots : j < n /\ IsSet(sortedBigTable'[j], key_2)
                                    /\ LastSet(key_2, j, n)' /\ v = sortedBigTable'[j].value
        <4>1. PICK j \in Slots : j = Num(p)
          BY <2>1
        <4>2. IsSet(sortedBigTable'[j], key_2) /\ v = sortedBigTable'[j].value
          BY <2>4, <3>3, <4>1 DEF SetsKey
        <4>3. \A m \in Slots : j < m /\ m < n => ~IsSet(sortedBigTable'[m], key_2)
          BY <2>1, <2>2, <3>3, <4>1 DEF SetsKey
        <4> QED
          BY <3>3, <4>1, <4>2, <4>3 DEF LastSet
      <3> QED
        BY <3>1, <3>2, <3>3 DEF HeldBefore
    <2>6. ~stocked => Legal(key_2)'
      BY <2>5 DEF Legal, ReadsLastSet
    <2> QED
      BY <2>3, <2>6
  <1>6. VerdictOK'
    BY <1>1, <1>5 DEF VerdictOK, threadVars
  <1> QED
    BY <1>2, <1>3, <1>4, <1>6 DEF AlarmInv

LEMMA RunChecksAlarm ==
  ASSUME AlarmInv, RunChecks
  PROVE  AlarmInv'
  <1>1. check # "join" /\ check' # "join" /\ TypesInv' /\ UNCHANGED <<storeVars, threadVars>>
    BY RunChecksTypes DEF AlarmInv, RunChecks
  <1>2. UNCHANGED sortedBigTable
    BY DEF RunChecks, ChecksNext, PrintEvent, CheckNotFound, CheckStale, CheckUnset, Iteration,
           EnterLoop, Finish
  <1>3. LogsFull' /\ (~overlapped' => InTurn')
    BY <1>1, LogsStay DEF AlarmInv, LogsFull, InTurn, threadVars
  <1>4. ~overlapped' /\ ~stocked' => History'
    BY <1>1, LogsStay DEF AlarmInv, History, HeldAfter, threadVars, storeVars
  <1>5. VerdictOK'
    BY <1>1, <1>2, TableStays DEF AlarmInv, VerdictOK, threadVars
  <1> QED
    BY <1>1, <1>3, <1>4, <1>5 DEF AlarmInv

LEMMA AlarmStays == ASSUME AlarmInv, UNCHANGED vars PROVE AlarmInv'
  <1>1. UNCHANGED <<storeVars, threadVars, checkVars>>
    BY DEF vars
  <1>2. TypesInv'
    BY TypesStay DEF AlarmInv
  <1>3. LogsFull' /\ (~overlapped' => InTurn')
    BY <1>1, LogsStay DEF AlarmInv, LogsFull, InTurn, threadVars
  <1>4. ~overlapped' /\ ~stocked' => History'
    BY <1>1, LogsStay DEF AlarmInv, History, HeldAfter, threadVars, storeVars
  <1>5. VerdictOK'
    BY <1>1, TableStays DEF AlarmInv, VerdictOK, threadVars, checkVars
  <1> QED
    BY <1>2, <1>3, <1>4, <1>5 DEF AlarmInv

\* The inductive invariant: what the threads have logged, what the server holds
\* for key_2, and what main makes of it.
THEOREM TestInvariant == Spec => []AlarmInv
  <1>1. AlarmInv /\ [Next]_vars => AlarmInv'
    BY EndProcessAlarm, ConnectAlarm, LoadAlarm, SendAlarm, PerformAlarm, CollectAlarm,
       SortAlarm, RunChecksAlarm, AlarmStays DEF Next, Thread, Main
  <1> QED
    BY <1>1, InitAlarm, PTL DEF Spec

\* The test raises no alarm on a correct server that was empty unless two of
\* its calls overlapped, and crashes only then or when a thread cannot connect.
THEOREM AlarmsHaveCauses == Spec => []AlarmNeedsCause
  <1>1. ASSUME AlarmInv PROVE AlarmNeedsCause
    <2>1. CASE check = "join"
      BY <1>1, <2>1 DEF AlarmInv, VerdictOK, AlarmNeedsCause
    <2>2. CASE check # "join"
      <3>1. /\ exitCode = "exit1" => ~Legal(key_2)
            /\ exitCode = "SIGSEGV" => ~AllPrinted
        BY <1>1, <2>2 DEF AlarmInv, TypesInv, MainOK, ChecksInv, Exits
      <3>2. ~AllPrinted => \E n \in Slots : sortedBigTable[n] = Unfilled
        BY DEF AllPrinted
      <3> QED
        BY <1>1, <2>2, <3>1, <3>2 DEF AlarmInv, VerdictOK, AlarmNeedsCause
    <2> QED
      BY <2>1, <2>2
  <1> QED
    BY <1>1, TestInvariant, PTL
=============================================================================
