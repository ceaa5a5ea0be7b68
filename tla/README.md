# A TLA+ model of the High-Performance Database System

Specifications, model-checking runs and machine-checked proofs for the database in
`src/`. The repository is a collection of components in C++ and Go, most of them
self-contained programs with their own `main`; they share names (transactions, pages,
locks, logs) rather than code. The project follows that shape: one module per
component, a composition where one class really calls another.

## The system

| Group | Parts | Concurrency and failure in the code |
|---|---|---|
| `transactions/` | transaction manager, two-phase locking, timestamp ordering, isolation levels, write-ahead log, checkpointing, log replay | a thread per transaction, mutexes, condition variables; restart from a log |
| `storage/` | buffer manager, data and log file managers, row and column stores, compression | shared page pool, flusher thread |
| `caching/` | LRU, LFU, write-back, write-through, distributed cache | mutexes; goroutines, leader election |
| `distributed_systems/` | Paxos, Raft, master-slave and multi-master replication, sharding, query fan-out | messages, time-outs, nested locks |
| `indexing/` | B-tree, hash, trie, inverted index, R-tree | none: algorithms on data |
| `query_processor/` | parsers, planner, optimizer, executor, joins | none: algorithms on data |
| `networking/` | round-robin dispatcher, consistent hashing, RPC | thread pool, condition variable |
| `security/`, `management_tools/` | authentication, roles, encryption, collectors | concurrent handlers |

`PROJECT.json` lists every part with its status, and the hazards of the code at the
line where each one bites.

## What is modelled

### `RequestQueue`: the dispatcher of `round_robin.cpp`

`main` adds `N` requests, stops the queue and joins the threads of the pool; a thread
takes a request, asks `LoadBalancer` for the next server and has it process the
request. Each critical section is one action. `addRequest` and `stop` are two actions
each, because the code notifies after it has released the mutex. The condition variable
is the set `asleep`: `notify_one` takes out any one sleeper and does nothing when there
is none, `notify_all` empties the set, `SpuriousWakeup` takes anyone out at any time.
`chosen` and `processed` count what the servers did and are read by no action.

### `LockManager`, `TwoPhaseLocking`: the two classes of `two_phase_locking.cpp`

`LockManager` has the lock table (a resource's requests in order of arrival) and the
sleepers in `acquireLock`. A critical section of its mutex is an action:
`acquireLock` up to its return or its sleep, `wake` when a notified sleeper re-evaluates
its predicate, `releaseLock`. It is also the abstract specification (`LockSpec`) of what
any client may do to the table that releases only what it has asked for, as
`releaseLocks` does.

`TwoPhaseLocking` extends it with `TransactionManager` and the transaction threads.
`acquireLock` of that class is two actions, `CallLockManager` and `Record`, because it
calls the lock manager before it takes its own mutex. `releaseLocks` holds that mutex
over a loop, one action per turn; the code erases the `txn_locks` entry after the loop
and the model an element per turn, which nobody can tell apart because the entry is
only read under the mutex. `commitTransaction` and `rollbackTransaction` call
`releaseLocks`, which locks the same `std::mutex` again: this is undefined for a
non-recursive mutex, and on the platforms the code builds for the thread blocks for
ever, so both are the step to `hung` with the mutex taken. A client ends its transaction
with any of the three public operations. `detectDeadlock` changes nothing and is a
predicate.

`Record` scans the lock table without the lock manager's mutex. Releases are excluded
(they happen under the manager's own mutex), so what can race with the scan is an
append, which is either missed (the order in which it comes later), seen, or, in
between, seen before its `granted` flag is set: `Racing` is the set of such requests,
any subset of which the scan may take for waiting ones. An append may also move the
vector under the scan; what a read of freed memory then returns is not modelled. As
written, `LockRequest` holds a `std::condition_variable` and cannot be an element of a
`std::vector`; the model gives each request a condition variable of its own, which is
what the code says it wants.

### `BufferManager`: the page pool of `buffer_manager.cpp`

The state is the page table, the eviction list and the `dirty` and `data` members of the
pages in the pool. `fetch_page` is a hit or a miss, the miss with the whole eviction
loop. The clients do what `test_buffer_manager` does, from several threads: fetch, write
through the pointer (`WriteData`, outside the mutex), `mark_dirty`. Pages are not pinned,
so a thread may hold the object of a page that has been evicted: it is then in
`detached`, and its writes go nowhere. A page's data is the number of the last write to
it; a write of the source sets one byte, so that a concurrent write-back sees the old
page or the new one.

`DiskStorage` only prints. Of `write_page` the model keeps what it was given (`written`);
`read_page` leaves the new, blank buffer as it is, so that a page that was evicted comes
back as 0, whatever was written. What the pool can promise is therefore about the calls it
makes: a reported write is given to `write_page` before its page is dropped, and a page is
clean only when nothing on it is still to be written. That a fetch does not load what was
written is the run `fetch_loads_page`.

`Lists` holds the two list operations the modules share, without recursion.

### The programs that keep a log

`WriteAheadLog` is `write_ahead_log.cpp`: a thread per transaction writes begin, updates
and commit through `WriteLog`, which closes the file each time; `main` then reads,
replays and removes the log. `WalCrash` kills the process anywhere, `WalMain` starts it
again on the file that is left, with the same transaction ids. Whenever the file is opened
this may fail: `WriteLog` then drops the record (`walDropped`) and the transaction goes on,
and `ReadLogs` returns no records, after which the log is removed unread (`walRemoved`).

`Checkpointing` is `checkpointing.cpp`. The log is a stream that is never flushed by
hand: `Drain` passes on any number of lines, `Crash` leaves any part of the buffer in the
file, the last line perhaps cut off. The next process appends to a cut-off line, and
recovery then reads the two as one (`Add`). Of a line the model keeps the id behind
"Transaction " and which of the words recovery searches for are in it, since an operation
is free text that may hold them too. `recover` is the whole loop over the file; a decision
without an id makes `stoi` throw and ends the process. The methods of a transaction look at
no state; that a client does nothing more to a transaction it has ended, as in
`simulate_transactions`, is in `CkNext`.

`LogReplay` is `log_replay.cpp`: any file of entries, or none that opens, replayed one
record per step. Among the entries are unknown types, ones the stream cannot read, and ones
with a field too few, which take theirs from the entry behind them.

`LogFileManager` is `log_file_manager.cpp`: client threads, the flusher, `start` and
`stop`. `beginTransaction` is two steps, since it holds `txMutex_` and then waits for
`logMutex_`; ending a transaction and `checkpoint` lock `logMutex_` twice and stay there.

### Concurrency control

`TimestampOrdering` is `timestamp_ordering.cpp`, `Transactions` is `transactions.cpp`.
Their methods run under one mutex and are one step; the call that aborts with the mutex
held sets `toHung` or `tmHung`, after which nothing happens. The history of the operations
that succeeded is kept for the properties. `IsolationLevels` is `isolation_levels.cpp`;
its `Database` vector may be used from one thread only, so that calls are interleaved and
not concurrent. A transaction writes its serial number, which tells whose value it is.

### Replication

`MasterSlave` is `master_slave.cpp`. A write is stored and then pushed, in two critical
sections; a slave's loop is four steps (the flag, `empty`, `pop`, the write to its store),
because another slave may take the message between `empty` and `pop`. There is one queue
for all slaves, so that a message goes to one of them: that it gets there, in order, is
`MessagesKept`, and that the others never have it is the run `slaves_have_data`. `MultiMaster` is
`multi_master.cpp`: `writeData` keeps its mutex while it calls `replicateData` at the
peers one after the other, each of which waits for the peer's mutex.

### Caches

`LruCache`, `LfuCache`, `WriteBackCache` and `WriteThroughCache` model the files of
`caching/` of those names. `Cache` is the abstract specification, a bounded map: a put
sets its key and costs at most one other key its place, only when the map is full; nothing
else changes. `MCStructures` checks that all four implement it, with the map each of them
stands for as the refinement mapping.

### Indexes, sharding, joins

`BTree` has the insertion of `b_tree_index.cpp` and the removal of `node.cpp` as functions
on trees, under the names of the source. The two files have the same insertion. node.cpp is
written for a class `BTree` it does not contain, so that what happens to an empty root is
external (`ShrinkRoot`). Slots of the key arrays past the last key are left out: `search`
of node.cpp line 214 compares one of them before it looks whether it is in use; the
search that is modelled is the one of `b_tree_index.cpp`, which looks first.

`HashIndex` has buckets as maps and `resize` as one step. The vector of mutexes keeps its
size when the index grows; an operation on a bucket beyond it locks memory that is no
mutex and goes on, or the process is lost. `Trie` names a node by the characters on the way
to it. `ConsistentHashing` has the ring and the round-robin list of the load balancer,
`RangeSharding` the shards in the order they were added. `Joins` has the three joins as
functions of two tables, and the tables that `mergeJoin` sorts in place.

## Runs

| Run | Instance | What it shows |
|---|---|---|
| `two_phase_locking` | 3 transactions, 2 resources, one of them locked in both modes | the lock table's promises, agreement of the two classes, who can be stuck |
| `transactions` | 2 transactions, 2 items, 3 timestamps, 4 levels; 2 starts of each process, logs of 3 to 4 records, 1 dropped | order by timestamp, repeatable reads, no uncommitted value seen, no lock left; what a log and its recovery keep through kills, restarts and a file that does not open; the flusher stops |
| `distribution` | 4 requests, 3 threads, 3 servers; 3 slaves, 2 writers, 3 writes; 3 masters, 2 keys, 3 writes in 3 seconds | exactly-once and in-order dispatch, no lost wake-up, fair turns, shutdown; no message lost or out of order, agreement of the masters, both make progress |
| `structures` | 3 pages, room for 2, 2 threads, 2 writes; the rest see below | the pool drops no reported write; the caches implement `Cache`; indexes, ring, shards and joins are exact |
| `exclusive_means_alone` | as `two_phase_locking` | an exclusive lock that is shared |
| `deadlock_reported` | the same | a deadlock `detectDeadlock` does not see |
| `locks_released` | 1 transaction, 1 resource | a commit that never returns |
| `committed_survives` | `Checkpointing`, 2 transactions, 2 starts | a committed transaction that recovery does not restore |
| `commits_durable` | `WriteAheadLog`, 1 transaction | a reported commit that is not in the log |
| `fetch_loads_page` | `BufferManager`, as in `structures` | a page fetched again without what was written |
| `slaves_have_data` | `MasterSlave`, 3 slaves, 1 writer | replication at rest, and a slave without the master's data |
| `remove_removes` | B-tree of up to 10 keys, minimum degree 2 | a removal after which a key cannot be removed |

Bounds. `two_phase_locking`: three transactions give two holders and a waiter, or a holder
and two waiters; two resources give a cycle; `MaxRequests` bounds the requests of a
transaction on a resource and lets one transaction ask twice, which is a lock upgrade.
`transactions`: two transactions and two items give every conflict, and a transaction may
end and begin again with another timestamp; two transactions may have one id. Two starts
let the second process meet what the first one left; two transactions interleave their
records; one of them has an operation, whose text holds one of the words recovery looks for;
`MaxDropped` bounds the records the write-ahead log drops to one, while any recovery may
find the log unreadable. `distribution`: one more request than threads and than servers, so
that the queue holds several requests, every thread can sleep and the server index wraps;
three slaves, of which two can see the same message; three masters, so that a circle of two
leaves one outside. `structures`: one page more than the capacity forces evictions and
reloads; two threads give one that holds what the other's fetch evicts; `MaxWrites` bounds
the writes to objects in the pool to two, which may be to one page, from one thread or two;
pages and threads are symmetric (`PoolSymmetry`), and the run has no liveness property.
Further, caches with room for two of three keys, so that evictions happen with and
without a choice; a B-tree of minimum degree 2 with up to ten keys, which has three levels,
the first height at which the way to a predecessor passes an inner node; four keys in one
to three buckets; words of up to three characters over two letters; three nodes, two of
which share a point on the ring; overlapping ranges; tables of up to three rows with
repeated ids. A run that is about several programs explores each of them on its own: the
variable `part` says which one, and they share no state. The trees of the run `structures`
stop once they have lost their order (`Beyond`); `remove_removes` goes on with them.

Fairness. `distribution` is weakly fair to the dispatcher's `main` and to each of its
threads, that is, to the scheduler and to `join` (a spurious wake-up is never promised), to
each slave's loop and to each `replicateData` call. For the latter weak fairness is enough:
the number of writes is bounded, so that a mutex for which a call waits is in the end free
for good or held by a writer that waits itself. No client has to write and nobody has to stop
the slaves. `two_phase_locking` is weakly fair to threads inside a call and to the end of
every transaction, as `transaction1` and `transaction2` end; nobody has to begin one or to
ask for another lock. `transactions` is weakly fair to the flusher's loop, which waits for a
timer and for a mutex that is held only briefly, or for ever. The buffer manager has no
liveness property: its callers owe it nothing. Deadlock is not checked: the programs end,
deadlock, or lock a mutex of their own twice. For the dispatcher `PoolTerminates` says that
it does not.

`BlockedOnlyByDeadlock` says what is left of progress in `two_phase_locking.cpp`: a
sleeper goes on unless it is in a deadlock or a commit or rollback has hung.
`WriteReturns` does the same for `multi_master.cpp`, where writers that wait for each other
in a circle are the only ones that do not return, and `FlusherStops` for the log file
manager. Several properties name exceptions: `RecoverKeepsDecisions` (ids that an earlier
process has used, operations with the word "aborted" in them), `CommitsReachRecovery` and
`CommitsAreComplete` (a log that did not open), `QuietNodesAgree` (two
writes in one second), `UpdatesSurvive` (the write that put a block into the cache),
`OnlyItsKeysMove` (nodes with a point in common), `RemoveIsExact` (order only up to two
levels), `JoinsAgree` (repeated ids). Each exception is what the code does, and each
property says that nothing else goes wrong.

The eight violation runs are findings: exclusive locks granted beside shared ones, the
wait-for graph filled too late, commits that hang, recovery that restores nothing after a
restart, commits reported although the log did not open, pages fetched without what was
written, slaves that share one queue and with it the data, and a B-tree removal that takes
the wrong predecessor. Two more findings follow from the text of the code and are in the
models as steps: a miss of the write-through cache that hangs, and READ_COMMITTED writes
that others see at once.

Beside some helpers a module defines variants of them. They are not used by any
action: putting one in the helper's place breaks the property it was written for, which
shows that the property notices that slip.

## Proofs

All theorems are for every value of the constants under the named assumptions of the
modules (sets without the special values, a positive capacity, at least one request,
server and thread).

- `RequestQueueProofs`. The invariants of the run hold in every instance. The inductive
  invariant adds where each thread and `main` are: who has a request in hand, that a
  thread returns only after the stop with the queue empty, that `stopped` is set exactly
  in the last phases of `main`, and, for the balance, that the servers before
  `currentIndex` are one ahead of the others.
- `ListProofs`. What `Keep`, `Remove`, a push to the front and a prefix do to the
  elements, the length and the distinctness of a list, from the rank of a position in a
  set of positions.
- `LockManagerProofs`. `LockInv` holds for any such client: each resource with requests has a
  granted one, a sleeper is notified exactly when granted, exclusive-only resources have
  one holder. The strengthening (`AwakeInv`) says that only sleepers are notified and
  that a transaction not asleep on a resource is granted it if it has any request there:
  that is why a release that grants the first waiting request grants it to a sleeper,
  and why one that finds none waiting leaves a holder. `WriterOrder` proves the action property
  `WriterNotOvertaken` from it.
- `TwoPhaseLockingProofs`. `ImplementsLockManager`: `Spec => LockSpec`, every step of
  the transaction manager is a step of the lock manager or leaves it alone; the lock
  manager's theorems follow for the composed system. `TmInv` adds that a recorded call
  is for a real resource, and gives `LocksRecorded` and `EdgesAreLive`.
- `BufferManagerProofs`. `ReportsWritten` and `CleanWritten` are the two promises about
  data. The inductive invariant has both, since an eviction may drop a clean page only
  because what was reported on it has been written, and adds that writes are numbered
  upwards and that a pointer leads into the pool unless its page was evicted.
- `WriteAheadLogProofs`. `CommitsNotLost`: a reported commit is in the log until a
  recovery has gone over it, for any number of transactions, updates, kills, restarts and
  dropped records, except where the file did not open. The inductive invariant adds that
  during a replay the vector, if the file could be read, has the records of the file in
  their order, and that the commits before the current position have been replayed: that is
  what makes the removal of a file that was read safe.
- `TimestampOrderingProofs`. `ConflictsOrdered`: conflicting operations were carried out in
  timestamp order (those of equal timestamps in any). The inductive invariant (`StampsBound`) says that an item's two
  timestamps bound those of the operations on it in the history, which an operation's
  check compares its own with.
- `LruCacheProofs`. `LruImplementsCache`: the LRU cache implements `Cache`. The invariant
  says that list and table have the same keys, each once and at most `Capacity` of them;
  that is why the key at the back of the list is one the table has, and why the cache is
  full exactly when the abstract map is.

Only model-checked: the liveness properties `PoolTerminates`, `BlockedOnlyByDeadlock`,
`FlusherStops`, `MessageApplied` and `WriteReturns` (fairness is beyond the prover); what
the recursive functions of `BTree` and `Joins` compute (induction over data is too); the
properties of the other modules that are not listed above.

## Not modelled

- `paxos.go`. `NewPaxosSystem` does not give the proposers any acceptors, and every
  `Propose` ends without a majority: nothing is sent, and a model with acceptors would be
  one of another program.
- `raft.go`. `sendRPC` is a stub that leaves the reply empty, and the only sender to
  `timeoutCh` is started by a message on `heartbeatCh`, to which nothing sends: no election
  begins.
- `distributed_cache.go`, `distributed_query_processor.go`, `hash_sharding.cpp`. Nodes
  that forward changes without order, answer or retry; a fan-out to simulated nodes; a
  placement that moves no data when the nodes change. None of them keeps or promises
  anything over time that could be stated beyond single calls.
- The destructor of `MasterNode`, which stops and deletes the slaves one by one.
- Resizing the hash index, or changing the ring, while other threads use it: both are
  data races that no caller in the repository starts.
- `data_file_manager.cpp`, the row and column stores, the inverted index, roles: maps and
  vectors without behaviour over time, around file and console I/O.
- Parsers, planner and optimizer, the R-tree: text, trees of plan nodes and floating-point
  arithmetic. `query_executor.cpp` calls a storage engine that is not in the repository.
- Encryption, compression, RPC, authentication, monitoring: wrappers of external
  libraries. Configuration, scripts, generated bindings: nothing that runs over time.
- Where values, contents or messages do not matter to a property they are left out; the
  comment at the head of each module says what its state abstracts from.
