------------------------- MODULE ConsistencyChecks --------------------------
(***************************************************************************)
(* The second half of main in consistency_test.cpp: the loops over         *)
(* sortedBigTable that print the events and decide the exit code.  The     *)
(* table holds one event per sequence number, or Unfilled where no event   *)
(* had that number (a default-constructed events: no operation and no      *)
(* parameters).  One step is one iteration of a loop.                      *)
(***************************************************************************)
EXTENDS KVStoreTypes, Integers

CONSTANTS TableSize,  \* num_of_threads * num_of_runs
          Margin,     \* the last entries that are not printed: 19
          Unfilled,   \* an entry of the table no event was stored in
          key_2,      \* the key the checks look at, "[xzy]"
          value_1,    \* "[123]"
          value_2     \* "[789]"

ASSUME ChecksAssumption ==
  /\ TableSize \in Nat
  /\ Margin \in Nat
  /\ key_2 \in Keys
  /\ value_1 \in Values
  /\ value_2 \in Values

VARIABLES sortedBigTable,
          check,               \* the loop main is in
          i,                   \* its index
          last_updated_value,
          last_operation,      \* "none" stands for the empty string it starts with
          exitCode             \* how the process ended, or "running"

checkVars == <<sortedBigTable, check, i, last_updated_value, last_operation, exitCode>>

Slots == 0..(TableSize - 1)

\* struct events, less the thread id and the number, which are only printed.
Events ==
  [operation : {"set"}, key : Keys, value : Values, response : {Succeeded}]
    \cup [operation : {"get"}, key : Keys, value : {Empty}, response : {Lookup(v) : v \in Strings}]

Tables == [Slots -> Events \cup {Unfilled}]

ASSUME UnfilledAssumption == Unfilled \notin Events

\* main waits for the threads in "join"; the others are its loops.
Checks == {"join", "print", "notfound", "stale", "unset"}

ExitCodes == {"running", "exit0", "exit1", "exit2", "SIGABRT", "SIGSEGV"}

ChecksTypeOK ==
  /\ sortedBigTable \in Tables
  /\ check \in Checks
  /\ i \in 0..TableSize
  /\ last_updated_value \in Strings
  /\ last_operation \in {"none", "set"}
  /\ exitCode \in ExitCodes

\* The state in which main enters the first loop.
ChecksInit ==
  /\ check = "print"
  /\ i = 0
  /\ last_updated_value = Empty
  /\ last_operation = "none"
  /\ exitCode = "running"
-----------------------------------------------------------------------------
IsSet(e, k) == e # Unfilled /\ e.operation = "set" /\ e.key = k

IsGet(e, k) == e # Unfilled /\ e.operation = "get" /\ e.key = k

NotFound(e) == e # Unfilled /\ e.operation = "get" /\ e.response.error = "kKeyNotFound"

Exit(code) == exitCode' = code /\ UNCHANGED i

\* Slips the properties are there to catch; no specification contains them.
\* The while loop without its i++.
AdvanceForgotten == i' = i /\ UNCHANGED exitCode

Advance == i' = i + 1 /\ UNCHANGED exitCode

\* An iteration of the loop named l, which runs while i < n.
Iteration(l, n) ==
  /\ exitCode = "running"
  /\ check = l
  /\ i < n
  /\ UNCHANGED <<sortedBigTable, check>>

\* More slips: the key of a set is not looked at; the last operation is kept
\* whatever it is; a set of another value forgets that of value_2.
CheckStaleAnyKey ==
  LET e == sortedBigTable[i] IN
  /\ Iteration("stale", TableSize)
  /\ last_updated_value' = IF \E k \in Keys : IsSet(e, k) THEN e.value ELSE last_updated_value
  /\ IF IsGet(e, key_2) /\ e.response.value # last_updated_value' THEN Exit("exit1") ELSE Advance
  /\ UNCHANGED last_operation

CheckUnsetAnyOperation ==
  LET e == sortedBigTable[i] IN
  /\ Iteration("unset", TableSize)
  /\ last_operation' = IF e # Unfilled THEN e.operation ELSE last_operation
  /\ IF IsGet(e, key_2) /\ e.response.value = value_2 /\ last_operation' # "set"
       THEN Exit("exit1")
       ELSE Advance
  /\ UNCHANGED last_updated_value

CheckUnsetForgets ==
  LET e == sortedBigTable[i] IN
  /\ Iteration("unset", TableSize)
  /\ last_operation' = IF IsSet(e, key_2) /\ e.value = value_2 THEN "set" ELSE "none"
  /\ IF IsGet(e, key_2) /\ e.response.value = value_2 /\ last_operation' # "set"
       THEN Exit("exit1")
       ELSE Advance
  /\ UNCHANGED last_updated_value

\* parameters[0] of an Unfilled entry dereferences a null pointer.
PrintEvent ==
  /\ Iteration("print", TableSize - Margin)
  /\ IF sortedBigTable[i] = Unfilled THEN Exit("SIGSEGV") ELSE Advance
  /\ UNCHANGED <<last_updated_value, last_operation>>

CheckNotFound ==
  /\ Iteration("notfound", TableSize)
  /\ IF NotFound(sortedBigTable[i]) THEN Exit("exit2") ELSE Advance
  /\ UNCHANGED <<last_updated_value, last_operation>>

\* "someone fetched xyz and didnt get what i set"
CheckStale ==
  LET e == sortedBigTable[i] IN
  /\ Iteration("stale", TableSize)
  /\ last_updated_value' = IF IsSet(e, key_2) THEN e.value ELSE last_updated_value
  /\ IF IsGet(e, key_2) /\ e.response.value # last_updated_value' THEN Exit("exit1") ELSE Advance
  /\ UNCHANGED last_operation

\* A get of value_2 with no set of value_2 before it.
CheckUnset ==
  LET e == sortedBigTable[i] IN
  /\ Iteration("unset", TableSize)
  /\ last_operation' = IF IsSet(e, key_2) /\ e.value = value_2 THEN "set" ELSE last_operation
  /\ IF IsGet(e, key_2) /\ e.response.value = value_2 /\ last_operation' # "set"
       THEN Exit("exit1")
       ELSE Advance
  /\ UNCHANGED last_updated_value

\* The loop l, which runs while i < n, is over, and m is the next one.
EnterLoop(l, n, m) ==
  /\ exitCode = "running"
  /\ check = l
  /\ i >= n
  /\ check' = m
  /\ i' = 0
  /\ last_updated_value' = IF m = "unset" THEN value_1 ELSE last_updated_value
  /\ UNCHANGED <<sortedBigTable, last_operation, exitCode>>

Finish ==
  /\ exitCode = "running"
  /\ check = "unset"
  /\ i = TableSize
  /\ Exit("exit0")
  /\ UNCHANGED <<sortedBigTable, check, last_updated_value, last_operation>>

ChecksNext ==
  \/ PrintEvent
  \/ EnterLoop("print", TableSize - Margin, "notfound")
  \/ CheckNotFound
  \/ EnterLoop("notfound", TableSize, "stale")
  \/ CheckStale
  \/ EnterLoop("stale", TableSize, "unset")
  \/ CheckUnset
  \/ Finish

\* The loops on their own, on any table whose unfilled entries are its last.
AnyTable ==
  /\ sortedBigTable \in Tables
  /\ \A m, n \in Slots : m < n /\ sortedBigTable[m] = Unfilled => sortedBigTable[n] = Unfilled
  /\ ChecksInit

ChecksSpec == AnyTable /\ [][ChecksNext]_checkVars
-----------------------------------------------------------------------------
(***************************************************************************)
(* What the verdict means.                                                 *)
(***************************************************************************)
\* Slot j holds the last set of k before slot n.
LastSet(k, j, n) ==
  /\ j < n
  /\ IsSet(sortedBigTable[j], k)
  /\ \A m \in Slots : j < m /\ m < n => ~IsSet(sortedBigTable[m], k)

\* The event at slot n, if it reads k, read what was set last before it, on a
\* map that was empty at first: the table is a legal history of k up to n.
ReadsLastSet(k, n) ==
  IsGet(sortedBigTable[n], k) =>
    IF \E j \in Slots : j < n /\ IsSet(sortedBigTable[j], k)
      THEN \E j \in Slots :
             LastSet(k, j, n) /\ sortedBigTable[n].response.value = sortedBigTable[j].value
      ELSE NotFound(sortedBigTable[n])

Legal(k) == \A n \in Slots : ReadsLastSet(k, n)

AllFound == \A n \in Slots : ~NotFound(sortedBigTable[n])

AllPrinted == \A n \in Slots : n < TableSize - Margin => sortedBigTable[n] # Unfilled

\* The verdict is exact on key_2: the program ends with 0 just when no get
\* found its key missing and the table is a legal history of key_2, with 1
\* just when only the latter fails, and it crashes in the loops just when an
\* entry that is printed was never filled.
VerdictExact ==
  /\ exitCode = "exit0" => AllFound /\ Legal(key_2)
  /\ exitCode = "exit1" => AllFound /\ ~Legal(key_2)
  /\ exitCode = "exit2" => ~AllFound
  /\ exitCode \in {"exit0", "exit1", "exit2"} => AllPrinted
  /\ exitCode = "SIGSEGV" => ~AllPrinted

\* The third loop never finds anything: the second one rejects every table
\* the third would reject.
ThirdCheckSilent == check = "unset" => exitCode \in {"running", "exit0"}
=============================================================================
