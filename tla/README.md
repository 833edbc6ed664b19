# A specification of the key-value store

TLA+ modules, TLC runs and TLAPS proofs about the programs of this repository:
two servers built on Apache Thrift (`kvserver`, `kvserver_consistent`), three
command line clients and a consistency test. All definitions are translated
from the source; Thrift itself, `std::map`, `std::mutex` and TCP are modelled
from how the source uses them.

## The system

| Component | State it keeps | Operations | Talks to |
|---|---|---|---|
| `kvstore.thrift` | - | `kvset`, `kvget`, `kvdelete`, each returning a `Result` | everything |
| `kvserver.cpp` | `shared_kvstore`, one `std::map` | the three handlers, no lock; one thread per connection (`TThreadedServer`) | the processor calls the handlers |
| `kvserver_consistent.cpp` | the same map and the mutex `lck` | the same; `kvset` and `kvget` hold `lck`, `kvdelete` does not | the same |
| `gen-cpp/KVStore.*` | a stream per connection | `KVStoreClient`: send a call, read the next message; `KVStoreProcessor`: read a call, run the handler, write the answer | TCP between them |
| `gen-cpp/KVStore.*` | `sync_`: the next id, a monitor per call, the pending header | `KVStoreConcurrentClient`: the same calls for threads that share a connection | its threads; nothing in the repository uses it |
| `gen-cpp/KVStore.cpp`, `kvstore_types.cpp` | - | `read` and `write` of the structures on the wire | the stub and the processor |
| `kvclient.cpp` | its command | at most one `-set`, one `-get`, one `-del`, in that order, then exit | one connection |
| `kvclient_1.cpp`, `kvclient_2.cpp` | the line read | the same three per line, for as long as there are lines | one connection |
| `consistency_test.cpp` | the counter `sequence_no`, a log per thread, the table sorted by number | five threads of 500 random calls; then main joins, sorts, prints and checks the table | five connections |

What is hard in it: threads of the server that meet in the map (a data race is
undefined behaviour) and on `lck`; handlers in which an allocation fails at
any of several places; the counter of the test, incremented by all threads
without a lock, from which it nevertheless rebuilds an order of events; the
stream of a connection, on which nothing but order ties an answer to its call;
connections that break, and clients that go away, between any two steps;
threads that share a connection and read each other's answers.

What makes each part correct:

* **server**: no two threads conflict in the map; every call takes effect at
  one instant, and a call that failed not at all (linearizability); a thread
  that takes the mutex gives it back; waiting calls are answered.
* **service**: what the comments of `kvstore.thrift` say of each call.
* **test**: it ends; its exit code says whether the table is a legal history;
  it blames a server only for what the server did.
* **clients and stub**: the answer a call returns is the answer to that call,
  which ran exactly once; a call that throws ran at most once; calls end, and
  so do the server's threads; a program calls what its user wrote.
* **concurrent client**: all of that for every thread, whichever of them reads
  the answer; no header is lost between them, and no thread sleeps for ever.

## The modules

| Module | Models | Uses |
|---|---|---|
| `KVStoreTypes` | the data of `kvstore.thrift`; the sequential meaning of a call (`Effect`, `Answer`, `FailureAnswers`) | |
| `KVStore` | abstract specification: an atomic map. `Invoke`, then `Perform` or `Fail` at one instant, then `Return` | `KVStoreTypes` |
| `KVCalls` | abstract specification of the clients' side: at most once. `KVStore`, with calls that throw and calls that take effect late | `KVStore` |
| `KVServer` | both servers: threads, handlers step by step, mutex, races | `KVStoreTypes`; implements `KVStore` |
| `KVContract` | `KVStore` with the pairs the clients created, and the comments of `kvstore.thrift` as action properties | `KVStore` |
| `ConsistencyChecks` | the loops of the test's `main` over its sorted table | `KVStoreTypes` |
| `ConsistencyTest` | the test's threads, counter and logs, joined to those loops, against the atomic store | `ConsistencyChecks`, instance of `KVStore` |
| `KVRpc` | `KVStoreClient`, the structures on the wire, the stream, `KVStoreProcessor`, connections that break | `KVStoreTypes` |
| `KVClients` | `kvclient` and `kvclient_1`/`kvclient_2`, and how they parse their lines, on top of `KVRpc` | `KVRpc`; implements `KVCalls` |
| `KVConcurrentClient` | `KVStoreConcurrentClient`: threads that share one connection, on top of `KVRpc` | `KVRpc`; implements `KVCalls` |
| `MC...` | values of the constants for TLC | |
| `KVServerProofs`, `ConsistencyChecksProofs`, `ConsistencyTestProofs`, `KVClientsProofs`, `KVConcurrentClientProofs` | inductive invariants, the safety properties that follow, and for the server its refinement | the module they are named after |
| `KVClientsRefinement`, `KVConcurrentClientRefinement` | proofs that these modules implement `KVCalls` | the proofs of that module |
| `KVRpcProofs` | lemmas on the wire, the types and the streams of `KVRpc` | `KVRpc` |

`PROJECT.json` maps every definition to the lines it stands for. Definitions
under a comment "Slips the properties are there to catch" belong to no
specification: each replaces one definition by what a plausible mistake would
have made of it, and the property paired with it in `PROJECT.json` must fail.

### KVServer

`LockedOps` says which handlers lock, so that both programs are instances:
`kvserver_locks` is `{}` and `kvserver_consistent_locks` is `kvset` and
`kvget`. The thread of a connection goes `idle`, `called`, `find`, `use`,
`unlock`, `reply`, `idle`. The split between `find` (the walk of the tree by
`operator[]` or `erase`) and `use` (the copy into or out of the string found)
is where another thread can get in between two dependent accesses; the guard
`lck = NoConn` of `Enter` is `lck.lock()`. `operator[]` inserts an empty node
for a missing key, in `kvget` too, so `store[k]` tells `Absent` from `Empty`;
the clients cannot.

*Failures.* An allocation may fail where the code allocates: inserting the
node (`SubscriptFails`), copying a non-empty string (`CopyFails`), and copying
the error text inside `catch (...)` (`CatchFails`). The last leaves `kvset`
before its `lck.unlock()`; the processor turns the exception into a
`T_EXCEPTION` and the mutex stays locked for ever.

*Undefined behaviour.* `DataRace` holds when two threads are at conflicting
accesses: two walks of which one inserts or erases, an erase and a use of one
node, two uses of which one writes. `Dangling` holds when a node was freed
under a reference. Then, and as long as the map is `corrupted` by it, `Undefined`
is open to every thread at the map: the process crashes; or the map becomes anything
and the thread gives any answer, throws into its `catch (...)`, or never comes back
from a tree with a cycle (`lost`), with `lck` if its handler had it.

### ConsistencyChecks and ConsistencyTest

`sequence_no++` is two steps, `Load` and the store in `Send`, as five threads
that share a plain `int` may interleave them. `Sort` is the copy into
`sortedBigTable` by number: where numbers are equal the last copy wins, and a
number nobody has leaves the entry `Unfilled`. `PrintEvent` dereferences
`parameters[0]`, which crashes on an unfilled entry; the other loops skip such
entries because their operation is empty. The 19 entries the printing loop
leaves out are the constant `Margin`. A thread that cannot connect calls
`exit(2)`, which destroys `bigTable` and the other globals while the rest of the
threads run on: they may crash before the process ends. The server is an instance
of `KVStore`, so whatever the test gets wrong is its own doing; `InitialContents`
is what it may hold when the test starts, and `stocked` a history of that.

### KVRpc and KVClients

A message has a method name, a sequence id, for an answer a type, and a
structure: a record of the fields that were written. `ReadStruct` is what all the
generated `read` functions do: fields that are known are stored, the others
skipped, and members whose field did not come keep what they had. That matters
for `_return`, the `Result` a program passes to call after call without clearing
it (`res`). `errortext` is left out of `Result`, as is the `TApplicationException`
in an exception, because nothing but printing depends on them.

`Break` loses what is in flight in either direction, or lets it arrive, and what
is sent before the client has noticed is lost too. An answer written to a connection
that has broken may go nowhere without an error, or throw and end the thread. `Process`
is atomic, since the interleaving of handlers is `KVServer`'s subject, with the races
of `kvdelete`; but a `kvset` that throws leaves `lckStuck`, and a thread whose call
needs `lck` then takes `Block` and is `Blocked` for good. `served` is a history of what the handlers answered since the client last sent a call with that id.

`KVClients` starts from lines of words. `kvclient` looks for each option and
takes the words behind it; `kvclient_1` and `kvclient_2` take the second and third
word whatever the option is, and `-del` only as the first. `Parse` is that, and a
word beyond the end of the line is `Missing`: `ReadBeyond` reads past the end of the
vector, which crashes or yields anything. All three programs write 0 for the
sequence id and never compare the one that comes back.

`KVCalls` says what a program can count on then. A call that returns took effect
once between `Begin` and `Deliver`, and its caller's `Result` holds what the handler
answered; a call that throws took effect once, or not at all, or is in `late` and
may do so after its program has ended.

### KVConcurrentClient

Threads `t` take a sequence id (`GenerateSeqId`, which adds a monitor to the map),
send, construct the receive sentry (`Lock`) and loop: take the pending header or
read one, read the rest if the id is theirs (`Receive`), or else leave the header
pending, notify the thread it is for (`HandOver`) and sleep (`CheckWork`, `Sleep`).
The read mutex is held except while asleep; `Leave` is the destructor of the
sentry, which wakes the most recent of the other calls, or everybody when the
client has gone bad. `TConcurrentClientSyncInfo` and its sentries belong to Thrift
0.9.3 and are modelled from how `KVStore.cpp` uses them. The check of `waitForWork`
and the release of the mutex are separate steps because a failed send marks the
client bad without that mutex. A send is one step: the write mutex
keeps two sends apart and nothing else happens under it.

## The runs

| Run | Instance | Checks |
|---|---|---|
| `KVServerSafe` | `kvserver_consistent`, 3 connections, 2 keys, 2 values and "", `kvset`/`kvget`, 1 failing allocation | `RaceFree`, `Linearizable`, no deadlock |
| `KVServerLive` | `kvserver_consistent`, 3 connections, 1 key, 1 value, all calls, 2 failing allocations, fair | `TypeOK`, `LockingSuffices`, `StuckHasCause`, `LockReleased`, `ServerProgress` |
| `KVServerUnlocked` | `kvserver`, 2 connections, `kvset`/`kvget` | `Linearizable` is **violated** |
| `KVServerDelete` | `kvserver_consistent`, 2 connections, all calls | `RaceFree` is **violated** |
| `KVContractGet` | atomic store, values with "" | `GetContract` is **violated** |
| `KVContractDelete` | atomic store | `DeleteContract` is **violated** |
| `ConsistencyChecks` | every table of 4 entries over 2 keys and 2 values, gaps at its end | `ChecksTypeOK`, `VerdictExact`, `ThirdCheckSilent` |
| `ConsistencyTest` | 2 threads of 2 calls, margin 1, a server that is empty or holds a pair of `key_2`, fair | `TypeOK`, `GapsAtEnd`, `FreshNumbersGrow`, `AlarmNeedsCause`, `Termination` |
| `ConsistencyTestAlarm` | the same, empty server | `NoFalseAlarm` is **violated** |
| `KVClients` | one `kvclient`, one `kvclient_1`, one key, one value and "", 4 lines, failing allocations, fair | `TypeOK`, `InSync`, `NoEmptyFile`, `CallsAsAsked`, `AtMostOnce`, `CallsEnd`, `ThreadsEnd` |
| `KVClientsLine` | one `kvclient_1`, the same lines, no failures | `EveryOptionPerformed` is **violated** |
| `KVConcurrentClient` | 3 threads on one connection, 3 calls: one thread sets, two get; fair | `TypeOK`, `HeaderKept`, `SleepersWatched`, `AtMostOnce`, `CallsEnd` |

What they show:

* With the mutex and without deletes the server is the atomic map its clients
  expect, through failures between the insertion of a node and the copy into
  it. `Linearizable` is the abstract specification `KVStore!Spec` under the
  mapping `AbstractContent` (an empty node is no node) and `AbstractPhase` (a
  call takes effect when its answer is made).
* `kvdelete`, which takes no lock, races with the other handlers. What the
  mutex does guarantee then is `LockingSuffices`: every race has an unlocked
  handler in it.
* What can leave the mutex locked for ever is `StuckHasCause`: two allocations that
  fail in one `kvset`; or, once `kvdelete` has raced with a handler, a thread that
  is lost in the damaged map with the mutex, or a `kvset` that throws there and needs
  only one failure more. Until then every holder lets go of it (`LockReleased`), and
  waiting calls lead to answers (`ServerProgress`).
* The loops of the test are right about the table they are given, and the third
  loop can find nothing the second has not. The table itself can be wrong: a
  number is taken before its call, so overlapping calls can be listed in an
  order they did not take effect in, and the test fails a server that is
  atomic. That needs two threads whose calls overlap, or a server that was not
  empty: a second run of the test is judged by the pairs the first one left
  (`AlarmNeedsCause`).
* However the increments of the counter collide, the numbers nobody got are
  the last ones (`GapsAtEnd`), which is what makes a fixed margin at the end of
  the table a sensible, if insufficient, precaution; and a number no call has had
  exceeds every number given before (`FreshNumbersGrow`). A stale store can take the
  counter back, so a call can be listed before an earlier, finished one, but only
  under a number somebody has had already.
* Without looking at sequence ids the stub still never returns the answer to
  another call, because a program stops using its connection at the first call
  that throws (`InSync`). Calls are at most once (`AtMostOnce`, a refinement of
  `KVCalls!CallsSpec`), and the `Result` that is reused holds only what the last
  answer brought: that rests on `Result::write` writing every member, set or not.
* What a user asks for is a line of up to three options in any order, each with its
  arguments (`UserCommands`), and a program should make those calls and no others.
  `kvclient` does, and `kvclient_1` and `kvclient_2` do for a line of one option
  (`CallsAsAsked`). For a line of several they do not, although their comments say "Find
  and perform ... if available" as `kvclient`'s do (`EveryOptionPerformed`): they
  read the second and third word for every option, and see `-del` only in front.
* A call of a client ends, by an answer or an exception, and so does the server's thread
  once the client is gone (`CallsEnd`, `ThreadsEnd`), unless a `kvset` has thrown with
  the mutex and the thread is blocked at it. No client has a timeout.
* Threads that share a `KVStoreConcurrentClient` get the answers to their own calls
  (`AtMostOnce`, with the thread in the place of the client), because a header that
  was read is pending or in the hands of the thread it is for (`HeaderKept`).
  None sleeps for ever (`CallsEnd`), not even when a send fails, leaves its monitor
  behind and marks the client bad just before another thread goes to sleep: some
  thread that still has to pass through the read mutex wakes it.

The violated properties are the `findings` of `PROJECT.json`, each with the
line of documentation it contradicts.

### Bounds

A race needs two threads; the third connection adds one that waits at
the mutex behind another one. A second key and value tell "the wrong key" and
"the wrong value" from the right ones, and `SetValues` includes "" wherever it
matters, since `kvget` treats it apart. `MaxFaults` bounds the allocations that
fail: 1 reaches every `catch`, and 2 the one that throws again without a race; with
2, a run that checks for deadlock would meet the leaked mutex, so `KVServerSafe` has 1.
`KVServerLive` has one key and one value because its properties do not look at
values. Four events are the fewest for which a set, a duplicate number, a gap
beyond the margin and a read fall in one table; the real constants (5 threads,
500 calls, margin 19) only add more of the same, and the theorems on the loops
hold for all of them. The four lines of `KVClients` are an empty one, one of one
option, one of two options against the order of the calls, and one that ends too
early; the file in them has the name of a value, which `kvclient_1` then stores. Three
threads of `KVConcurrentClient` are the fewest in which one reads, one is about to
sleep and a third is the one that has to wake it; ids are not reused within the
run, and three calls let one thread call twice. Symmetry is used in `KVServerSafe` alone, which checks no
liveness.

### Fairness

* `KVServer`: weak fairness of each thread from the call of its handler on: the
  operating system runs every thread that can run. It is weak, so a
  thread at `lck.lock()` may be overtaken for ever (`std::mutex` promises no
  order) and `ServerProgress` says only that some call is answered. A thread that is
  `lost` has no step to be fair to. Nothing forces clients to connect or to call.
* `ConsistencyTest`: weak fairness of each thread, of the server's execution of
  a call and of main.
* `KVClients`: weak fairness of the server's threads, and of a client that can
  read an answer or notice the broken connection. A server's thread that is `blocked`
  has no step. Nothing forces a client to start, to read a line or to end.
* `KVConcurrentClient`: weak fairness of every thread inside a call and of the
  server's. A thread at the read mutex can be overtaken, but only by one of
  the calls the bound leaves. Nothing forces a thread to call, or the connection to break.

`CHECK_DEADLOCK FALSE` stands where the process ends (the test, the clients), the
calls run out (`KVConcurrentClient`) or the server
may crash, or stall with the mutex locked for ever (`KVServerLive`).

## The proofs

`tlapm` checks every step; nothing is assumed beyond the named `ASSUME`s on the
constants, which TLC evaluates in the runs.

**`KVServerProofs`**: for any sets of connections, keys and values, any
`LockedOps` and any number of failures.

* `Invariance`: `IndInv` is inductive. `TypeOK` alone is not: to type an
  answer one must know that a thread inside a handler has a request
  (`HasRequest`), and to know where a thread may be which handler it runs
  (`RightPlace`). `HoldsLock`, that a handler which locks holds the mutex from
  `find` to `unlock`, is what excludes a second one; it needs `RightPlace` to
  know that only a locking handler unlocks.
* `TypeCorrect` and `RacesNeedUnlocked` (`LockingSuffices`) follow from it.
* `StuckNeedsCause` (`StuckHasCause`) uses one more invariant,
  `HolderInside`: the holder of the mutex is inside a locking handler and not lost, or
  one of the causes has happened.
* `RaceFreedom` and `Refinement` assume `OneAtATime`: every call the clients make
  has a handler that locks (`KVServerSafe`), or there is one connection, and then
  no handler needs to (`kvserver` with one client; no run). Either way two threads inside a handler are
  one and the same (`OneInTheMap`). `SafeInv` adds that no reference
  is dangling and no answer is made early. Under it `Undefined` is never
  enabled, so every step of the server is a step of `KVStore` or leaves its
  variables alone: `Assign`, `Copy` and `Erase` are `Perform`, `Catch` and
  `CatchFails` are `Fail`, `Receive` is `Invoke`, the ends of a call `Return`.

**`ConsistencyChecksProofs`**: for tables of any size, any margin, keys and
values.

* `ExactVerdict` and `SilentThirdCheck` from `ChecksInv`: each loop has
  established what it looks for up to its index, and the earlier loops for the
  whole table. The heart is `LastSetWrote` (in the second loop
  `last_updated_value` is what the last set before the index wrote),
  `UpdateStep` and `ReadStep` (a get is legal just when it read that value).

* `ChecksTypes` (`ChecksTypeOK`): the loops stay within the table.

**`KVRpcProofs`** holds what the proofs of both clients need of `KVRpc`: a
structure that is written in full is read back whatever was in its place
(`AnswerArrives`, `CallArrives`); every step keeps the types; and no id is in two
places of a stream (`OnePlace`), while a message only moves on from the calls to
the server's thread and from there to the replies.

**`KVClientsProofs`**: for any number of clients and any lines of any length.

* `ClientsInvariant` (`ClientsInv`): where each program's call is. A program that
  waits has it nowhere (it was lost), on its way, executed by a thread that is
  about to write, or answered, in one place only; one that is ready has nothing in
  the stream, and one that has ended at most one call. `InSync` alone is not
  inductive, as it says nothing of the method names of the calls on their way, nor
  that a connection which opens is empty; nor is `NoEmptyFile`, for which one must
  know that an answer in the stream that reports success to a get has a value
  (`Made`). Each step moves the call on by one place or loses it.
* `ClientsTyped` (`TypeOK`), `FilesHoldValues` (`NoEmptyFile`), `StreamsInSync`
  (`InSync`) follow.
* `ProgramsCallAsAsked` (`CallsAsAsked`), about `Parse` and the lines of any
  `UserCommands`: an option is found where its phrase begins and nowhere before
  (`OptionPlace`, from the words of the phrases in front of it), so the calls are
  those the phrases mean, in the order of the code (`LinePerforms`); and a line is
  parsed only as it is taken (`LinesTaken`).

**`KVClientsRefinement`**: `ProgramsCallAtMostOnce` (`AtMostOnce`), that `KVClients`
implements `KVCalls`. `Send` is `Begin`, `Process` is `Execute`, or `ExecuteLate` when its
program has ended; `Answered` is `Deliver`, `Throws` is `Throw`, `ReadLine` takes a new
`Result` (`Renew`), and nobody sees the other steps; a call whose thread takes `Block`
is lost, as by a break. `Deliver` needs that the answer the
program reads is the one the handler made (`AnswerBack`) and that it overwrites
all that was in the `Result`.

**`KVConcurrentClientProofs`**: for any number of threads, any workload and any
number of calls.

* `ClientInvariant` (`ClientInv`). Whatever happens: exactly the thread inside holds
  the read mutex (`Mutex`), no two threads have the same id (`Ids`), no message is in
  two places (`Placed`), and the header in the hands of a thread is that of the next
  message (`Reading`). As long as the client is in order, also: the monitors are those
  of the calls that have an id, every message is for a thread that has sent its call
  (`Answerable`), there is one header at most (`Pending`), and the thread a pending
  header is for is awake, while somebody holds the mutex, or `wakeupSomeone_` is set, or a
  header is pending, whenever a thread sleeps (`Wakeful`). Neither `HeaderKept` nor
  `SleepersWatched` is inductive: the first needs that the id a header has is that of
  a thread which is still in its call, the second needs `Wakeful` at the moment the
  reader leaves, and that the most recent monitor is that of a thread which sleeps
  or has yet to come for the mutex.
* `ClientTyped` (`TypeOK`) counts the threads that are about to take an id against the
  bound. `ClientKeepsHeader` (`HeaderKept`) and `ClientWatchesSleepers`
  (`SleepersWatched`) follow from the invariant.

**`KVConcurrentClientRefinement`**: `ThreadsCallAtMostOnce` (`AtMostOnce`), that
`KVConcurrentClient` implements `KVCalls` with a thread in the place of a client. It needs
`MessagesTrue` (`TruthInv`) beside `ClientInv`: a message on its way to the server is the
call of the thread with its id and has not been executed; one on its way back is
the answer the handler made to it; and the client is marked bad only once the
connection has broken. The last is why `Break`, which may lose several calls at
once, never loses one that `KVCalls` still counts as late. A thread that throws keeps its
id, so that a call which outlives it still has an owner (`ExecuteLate`).

**`ConsistencyTestProofs`**: for any number of threads and calls, any workload.

* `NoHoles` (`GapsAtEnd`) and `NumbersGrow` (`FreshNumbersGrow`) from
  `NumbersInv`. `GapsAtEnd` alone is not inductive, for the next number given
  out is the counter: `CounterFollows` says that the counter, even after a lost
  update, is the successor of a number in use. A step of a thread other than
  `Load` moves a number from a call to a log and leaves the set in use alone
  (`CollectNumbers` is the lemma that takes the work).
* `TestTyped` (`TypeOK`) from `TypesInv`. That no number exceeds the table is a matter
  of counting: numbers in use have no gap below them, each of them has a place
  among the calls the threads make, no place holds two, and a thread that is about to
  load a number has a place left (`RoomLeft`, by the pigeonhole principle).
* `AlarmsHaveCauses` (`AlarmNeedsCause`) from `TestInvariant` (`AlarmInv`). As long as no two
  calls have overlapped, they come one at a time and are numbered in that order
  (`InTurn`); if the server was empty too, then the logs, read in the order of their
  numbers, are the history of `key_2` up to what the server holds (`History`). `Sort`
  turns them into a table without holes that is legal (`TableIsLogs`), and
  `ExactVerdict` says that the loops do not fail such a table.

Every inductive invariant has also been checked by TLC on the instance of its
component's run before it was proved. One conjunct is beyond it, that a log is a
sequence over some set (`\E S : log[t] \in Seq(S)` in `LogsOK`), and was left out
there; `TypeOK` of `ConsistencyTest`, which its run checks, implies it.

Only model-checked:

* the liveness properties (`ServerProgress`, `LockReleased`, `Termination`, `CallsEnd`,
  `ThreadsEnd`): liveness under fairness is out of the prover's reach;
* the runs that expect a violation, where the trace TLC finds is the result;
* that the bounds of the runs reach the interesting cases, which is what the
  mutants are for.

Every safety property of a passing run is also a theorem. `RaceFree` and
`Linearizable` are theorems under `OneAtATime`, which the constants of
`KVServerSafe` meet; without it they can fail, as
`KVServerUnlocked` and `KVServerDelete` show.

## Not modelled

* `KVStoreMultiface` and `KVStoreNull`: generated classes that no program is built
  from. What they do depends on the handlers they are given, and no code gives them
  any. The server skeleton and the constants are never built either.
* Thrift's encoding of fields and messages as bytes.
* Two branches of the stub that no program here can reach: the dispatch of a method
  name the processor does not know, and an answer that names another method or has
  no `success` (`InSync` shows that the first cannot arrive; the processor sets
  `success` in every reply).
* `TThreadedServer`, the transports and TCP, beyond what `KVRpc` and
  `KVServer` say of a connection.
* In `KVConcurrentClient`: sequence ids that wrap around after 2^32 calls, and
  wakeups without a notification, against which `waitForWork` loops.
* Parsing of `-server host:port`, the removal of quotes, printing, and the file
  names of `-get` (a client has one file).
* Weak memory: a data race on the counter of the test is taken to be a lost
  update, what a build does with a plain `int`; a data race on the map can do
  anything.
* That the test never looks at `key_1`: it is the shape of its loops, and
  `VerdictExact` is stated of `key_2` for that reason.

## Plan

In the order of importance:

1. (done) the store, the two servers, their refinement and its proof;
2. (done) the contract of `kvstore.thrift`;
3. (done) the test: its loops, proved for all tables; its threads and counter;
4. (done) the clients over the stub and the processor;
5. (done) what clients can count on (`KVCalls`), the structures on the wire,
   command lines, and threads that share a connection (`KVConcurrentClient`);
6. (done) the test against a server that is not empty; `InSync` for any number of
   clients;
7. (done) proofs of every safety property the passing runs check, for all values
   of the constants, the three refinements among them;
8. `GetContract` proved for values without "";
9. the test composed with `KVServer` in place of the atomic store.
