---------------------- MODULE ConsistencyChecksProofs -----------------------
(***************************************************************************)
(* Proofs about ConsistencyChecks, for tables of any size over any keys    *)
(* and values.                                                             *)
(***************************************************************************)
EXTENDS ConsistencyChecks, TLAPS

SetBefore(k, n) == \E j \in Slots : j < n /\ IsSet(sortedBigTable[j], k)

\* In the second loop last_updated_value is what the last set of key_2 before
\* the index wrote, and "" when there was none.
LastSetWrote(u, n) ==
  \/ u = Empty /\ ~SetBefore(key_2, n)
  \/ \E j \in Slots : LastSet(key_2, j, n) /\ sortedBigTable[j].value = u

\* Every loop has established what it looks for up to its index, and the loops
\* before it have for the whole table.
Progress ==
  /\ check = "print" =>
       \A n \in Slots : n < i /\ n < TableSize - Margin => sortedBigTable[n] # Unfilled
  /\ check \in {"notfound", "stale", "unset"} => AllPrinted
  /\ check = "notfound" => \A n \in Slots : n < i => ~NotFound(sortedBigTable[n])
  /\ check \in {"stale", "unset"} => AllFound
  /\ check \in {"print", "notfound"} => last_updated_value = Empty
  /\ check = "stale" /\ exitCode = "running" => LastSetWrote(last_updated_value, i)
  /\ check = "stale" => \A n \in Slots : n < i => ReadsLastSet(key_2, n)
  /\ check = "unset" => Legal(key_2)
  /\ check = "unset" =>
       \A m \in Slots : m < i /\ IsSet(sortedBigTable[m], key_2) /\ sortedBigTable[m].value = value_2
                          => last_operation = "set"

\* Each exit code belongs to one loop.
Exits ==
  /\ exitCode = "exit0" => check = "unset"
  /\ exitCode = "exit1" => check = "stale" /\ ~Legal(key_2)
  /\ exitCode = "exit2" => check = "notfound" /\ ~AllFound
  /\ exitCode = "SIGSEGV" => check = "print" /\ ~AllPrinted
  /\ exitCode # "SIGABRT"

ChecksInv == ChecksTypeOK /\ Progress /\ Exits
-----------------------------------------------------------------------------
LEMMA SlotsAre ==
  /\ Slots \subseteq Int
  /\ \A n \in 0..TableSize : n < TableSize => n \in Slots
  /\ \A n \in Slots : 0 <= n /\ n < TableSize
  BY ChecksAssumption DEF Slots

\* No step of the loops changes the table, nor what is said of it alone.
LEMMA TableStays ==
  ASSUME UNCHANGED sortedBigTable
  PROVE  /\ AllFound' = AllFound
         /\ AllPrinted' = AllPrinted
         /\ Legal(key_2)' = Legal(key_2)
         /\ \A n : ReadsLastSet(key_2, n)' = ReadsLastSet(key_2, n)
         /\ \A u, n : LastSetWrote(u, n)' = LastSetWrote(u, n)
  BY DEF AllFound, AllPrinted, Legal, ReadsLastSet, LastSetWrote, LastSet, SetBefore

\* One iteration of the second loop: the value kept is that of the last set
\* before the next index.
LEMMA UpdateStep ==
  ASSUME NEW n \in Slots, NEW u, LastSetWrote(u, n)
  PROVE  LastSetWrote(IF IsSet(sortedBigTable[n], key_2) THEN sortedBigTable[n].value ELSE u, n + 1)
  <1> USE SlotsAre
  <1>1. CASE IsSet(sortedBigTable[n], key_2)
    <2>1. LastSet(key_2, n, n + 1)
      BY <1>1 DEF LastSet
    <2> QED
      BY <1>1, <2>1 DEF LastSetWrote
  <1>2. CASE ~IsSet(sortedBigTable[n], key_2)
    <2>1. \A j \in Slots : LastSet(key_2, j, n) => LastSet(key_2, j, n + 1)
      BY <1>2 DEF LastSet
    <2>2. ~SetBefore(key_2, n) => ~SetBefore(key_2, n + 1)
      BY <1>2 DEF SetBefore
    <2> QED
      BY <1>2, <2>1, <2>2 DEF LastSetWrote
  <1> QED
    BY <1>1, <1>2

\* A get of key_2 is legal just when it read the value the second loop keeps.
LEMMA ReadStep ==
  ASSUME sortedBigTable \in Tables, NEW n \in Slots, NEW u, LastSetWrote(u, n),
         IsGet(sortedBigTable[n], key_2), ~NotFound(sortedBigTable[n])
  PROVE  ReadsLastSet(key_2, n) <=> sortedBigTable[n].response.value = u
  <1> USE SlotsAre
  <1> DEFINE e == sortedBigTable[n]
  <1>1. e \in Events /\ e.operation = "get" /\ e.response.value # Empty
    BY DEF IsGet, NotFound, Tables, Events, Lookup
  <1>2. CASE u = Empty /\ ~SetBefore(key_2, n)
    BY <1>1, <1>2 DEF ReadsLastSet, SetBefore
  <1>3. ASSUME NEW j \in Slots, LastSet(key_2, j, n), sortedBigTable[j].value = u
        PROVE  ReadsLastSet(key_2, n) <=> e.response.value = u
    <2>1. \A m \in Slots : LastSet(key_2, m, n) => m = j
      BY <1>3 DEF LastSet
    <2>2. SetBefore(key_2, n)
      BY <1>3 DEF LastSet, SetBefore
    <2> QED
      BY <1>3, <2>1, <2>2 DEF ReadsLastSet, SetBefore
  <1> QED
    BY <1>2, <1>3 DEF LastSetWrote

\* value_2 is read legally only after a set of value_2.
LEMMA LegalReadWasSet ==
  ASSUME Legal(key_2), AllFound, NEW n \in Slots, IsGet(sortedBigTable[n], key_2)
  PROVE  \E m \in Slots : m < n /\ IsSet(sortedBigTable[m], key_2)
                         /\ sortedBigTable[m].value = sortedBigTable[n].response.value
  BY DEF Legal, AllFound, ReadsLastSet, LastSet
-----------------------------------------------------------------------------
LEMMA InitChecks ==
  ASSUME sortedBigTable \in Tables, ChecksInit
  PROVE  ChecksInv
  <1>1. ChecksTypeOK
    BY ChecksAssumption DEF ChecksInit, ChecksTypeOK, Checks, ExitCodes, Strings
  <1>2. Progress /\ Exits
    BY SlotsAre DEF ChecksInit, Progress, Exits
  <1> QED
    BY <1>1, <1>2 DEF ChecksInv

LEMMA PrintEventStep ==
  ASSUME ChecksInv, PrintEvent
  PROVE  ChecksInv'
  <1> USE DEF ChecksInv, ChecksTypeOK, PrintEvent, Iteration, Advance, Exit
  <1>1. ChecksTypeOK'
    BY ChecksAssumption DEF ExitCodes
  <1>2. Progress'
    BY SlotsAre, TableStays DEF Progress
  <1>3. Exits'
    BY SlotsAre, ChecksAssumption, TableStays DEF Exits, AllPrinted
  <1> QED
    BY <1>1, <1>2, <1>3

LEMMA CheckNotFoundStep ==
  ASSUME ChecksInv, CheckNotFound
  PROVE  ChecksInv'
  <1> USE DEF ChecksInv, ChecksTypeOK, CheckNotFound, Iteration, Advance, Exit
  <1>1. ChecksTypeOK'
    BY ChecksAssumption DEF ExitCodes
  <1>2. Progress'
    BY SlotsAre, TableStays DEF Progress
  <1>3. Exits'
    BY SlotsAre, TableStays DEF Exits, AllFound
  <1> QED
    BY <1>1, <1>2, <1>3

LEMMA CheckStaleStep ==
  ASSUME ChecksInv, CheckStale
  PROVE  ChecksInv'
  <1> USE DEF ChecksInv, ChecksTypeOK, CheckStale, Iteration
  <1> DEFINE e == sortedBigTable[i]
  <1>1. i \in Slots /\ e \in Events \cup {Unfilled}
    BY SlotsAre DEF Tables
  <1>2. ChecksTypeOK'
    <2>1. last_updated_value' \in Strings
      BY <1>1 DEF IsSet, Events, Strings
    <2> QED
      BY <2>1, ChecksAssumption DEF Advance, Exit, ExitCodes
  <1>3. ~NotFound(e)
    BY <1>1 DEF Progress, AllFound
  <1>4. LastSetWrote(last_updated_value, i) /\ LastSetWrote(last_updated_value', i + 1)
    BY <1>1, UpdateStep DEF Progress
  <1>5. IsGet(e, key_2) => last_updated_value' = last_updated_value
    BY DEF IsGet, IsSet
  <1>6. CASE IsGet(e, key_2) /\ e.response.value # last_updated_value'
    <2>1. ~ReadsLastSet(key_2, i)
      BY <1>1, <1>3, <1>4, <1>5, <1>6, ReadStep
    <2>2. Progress'
      BY <1>6, TableStays DEF Progress, Exit
    <2>3. Exits'
      BY <1>1, <1>6, <2>1, TableStays DEF Exits, Exit, Legal
    <2> QED
      BY <1>2, <2>2, <2>3
  <1>7. CASE ~(IsGet(e, key_2) /\ e.response.value # last_updated_value')
    <2>1. ReadsLastSet(key_2, i)
      <3>1. CASE IsGet(e, key_2)
        BY <1>1, <1>3, <1>4, <1>5, <1>7, <3>1, ReadStep
      <3>2. CASE ~IsGet(e, key_2)
        BY <3>2 DEF ReadsLastSet
      <3> QED
        BY <3>1, <3>2
    <2>2. \A n \in Slots : n < i + 1 => ReadsLastSet(key_2, n)
      BY <2>1, SlotsAre DEF Progress
    <2>3. Progress'
      BY <1>4, <1>7, <2>2, TableStays DEF Progress, Advance
    <2>4. Exits'
      BY <1>7, TableStays DEF Exits, Advance
    <2> QED
      BY <1>2, <2>3, <2>4
  <1> QED
    BY <1>6, <1>7

LEMMA CheckUnsetStep ==
  ASSUME ChecksInv, CheckUnset
  PROVE  ChecksInv' /\ exitCode' = "running"
  <1> USE DEF ChecksInv, ChecksTypeOK, CheckUnset, Iteration
  <1> DEFINE e == sortedBigTable[i]
  <1>1. i \in Slots
    BY SlotsAre
  <1>2. IsGet(e, key_2) /\ e.response.value = value_2 => last_operation' = "set"
    <2> SUFFICES ASSUME IsGet(e, key_2), e.response.value = value_2
                 PROVE  last_operation' = "set"
      OBVIOUS
    <2>1. \E m \in Slots : m < i /\ IsSet(sortedBigTable[m], key_2)
                          /\ sortedBigTable[m].value = value_2
      BY <1>1, LegalReadWasSet DEF Progress
    <2> QED
      BY <2>1 DEF Progress
  <1>3. Advance
    BY <1>2
  <1>4. ChecksTypeOK'
    BY <1>3, ChecksAssumption DEF Advance
  <1>5. Progress'
    BY <1>3, SlotsAre, TableStays DEF Progress, Advance
  <1>6. Exits'
    BY <1>3, TableStays DEF Exits, Advance
  <1> QED
    BY <1>3, <1>4, <1>5, <1>6 DEF Advance

LEMMA EnterLoopStep ==
  ASSUME ChecksInv,
         \/ EnterLoop("print", TableSize - Margin, "notfound")
         \/ EnterLoop("notfound", TableSize, "stale")
         \/ EnterLoop("stale", TableSize, "unset")
  PROVE  ChecksInv'
  <1> USE DEF ChecksInv, ChecksTypeOK, EnterLoop
  <1>1. ChecksTypeOK'
    BY ChecksAssumption DEF Checks, Strings
  <1>2. Exits'
    BY TableStays DEF Exits
  <1>3. CASE EnterLoop("print", TableSize - Margin, "notfound")
    <2>1. AllPrinted
      BY <1>3, SlotsAre, ChecksAssumption DEF Progress, AllPrinted
    <2> QED
      BY <1>1, <1>2, <1>3, <2>1, SlotsAre, TableStays DEF Progress
  <1>4. CASE EnterLoop("notfound", TableSize, "stale")
    <2>1. AllFound
      BY <1>4, SlotsAre, ChecksAssumption DEF Progress, AllFound
    <2>2. LastSetWrote(Empty, 0)
      BY SlotsAre DEF LastSetWrote, SetBefore
    <2> QED
      BY <1>1, <1>2, <1>4, <2>1, <2>2, SlotsAre, TableStays DEF Progress
  <1>5. CASE EnterLoop("stale", TableSize, "unset")
    <2>1. Legal(key_2)
      BY <1>5, SlotsAre, ChecksAssumption DEF Progress, Legal
    <2> QED
      BY <1>1, <1>2, <1>5, <2>1, SlotsAre, TableStays DEF Progress
  <1> QED
    BY <1>3, <1>4, <1>5

LEMMA FinishStep ==
  ASSUME ChecksInv, Finish
  PROVE  ChecksInv'
  BY TableStays DEF ChecksInv, ChecksTypeOK, Finish, Exit, ExitCodes, Progress, Exits

LEMMA ChecksStep ==
  ASSUME ChecksInv, [ChecksNext]_checkVars
  PROVE  ChecksInv'
  <1>1. CASE UNCHANGED checkVars
    <2>1. ChecksTypeOK'
      BY <1>1 DEF checkVars, ChecksInv, ChecksTypeOK
    <2>2. Progress' /\ Exits'
      BY <1>1, TableStays DEF checkVars, ChecksInv, Progress, Exits
    <2> QED
      BY <2>1, <2>2 DEF ChecksInv
  <1> QED
    BY <1>1, PrintEventStep, CheckNotFoundStep, CheckStaleStep, CheckUnsetStep, EnterLoopStep,
       FinishStep DEF ChecksNext

LEMMA ChecksInvariance == ChecksSpec => []ChecksInv
  BY InitChecks, ChecksStep, PTL DEF ChecksSpec, AnyTable

\* The loops stay within the table, whatever it holds.
THEOREM ChecksTypes == ChecksSpec => []ChecksTypeOK
  BY ChecksInvariance, PTL DEF ChecksInv

\* The exit code of the test means what it should, of key_2, for tables of
\* any size.
THEOREM ExactVerdict == ChecksSpec => []VerdictExact
  <1>1. ChecksInv => VerdictExact
    BY DEF ChecksInv, Progress, Exits, VerdictExact
  <1> QED
    BY <1>1, ChecksInvariance, PTL

\* The third loop is redundant: a table the second loop accepts has a set of
\* value_2 before every get that reads it.
THEOREM SilentThirdCheck == ChecksSpec => []ThirdCheckSilent
  <1>1. ChecksInv => ThirdCheckSilent
    BY DEF ChecksInv, ChecksTypeOK, ExitCodes, Exits, ThirdCheckSilent
  <1> QED
    BY <1>1, ChecksInvariance, PTL
=============================================================================
