# A TLA+ model of bitaloslog

bitaloslog is a log engine: a *plain DB* (an LSM-like store with a write-ahead
log, memtables and one array table) for small metadata and a *sequential DB*
(memtables flushed into super tables indexed by a B+ tree, the *bitree*) for
the log entries.  `open.go` opens both, `db.go` routes calls to them.

## 1. Inventory

| Component | State | Operations | Interacts with |
|---|---|---|---|
| Commit pipeline (`commit.go`) | ring of batch pointers, packed head/tail, semaphore, mutex, `logSeqNum`, `visibleSeqNum` | `Commit` = prepare, apply, publish | plain DB (`env.write`, `env.apply`), log writer (`Done` on the batch) |
| Plain DB (`plain_db.go`, `plain_flush.go`, `open.go`) | queue of memtables and large batches, log queue, array table, `switching`, `flushing` | set, delete, flush, get, iterate, close, open with replay | commit pipeline (caller), log writer, recycler, metadata, deletion limiter |
| Metadata (`manifest.go`) | mapped file: first unflushed log, next file number, last sequence number, array table | `apply`, `getNextFileNum`, `mark…` | plain DB, under `mu` except in `runFlush` |
| Log recycler (`log_recycler.go`) | list of obsolete logs, largest seen | add, peek, pop | flush adds, log switch takes |
| Memtable, skiplist (`mem_table.go`, `internal/arenaskl`) | arena, writer references, reservation | prepare, apply, get, iterate | plain and sequential DB |
| Read states (`read_state.go`, `flushable.go`) | reference counts of tables | ref, unref, release | readers, flush |
| Log writer (`internal/record/log_writer.go`) | blocks, ring of waiters, flush loop, sync timer | `SyncRecord`, `Close` | plain DB, commit pipeline |
| Record format and reader (`internal/record/record.go`) | a file of blocks and chunks | `Next`, `Read`, the plain writer | recovery, metadata |
| Deletion limiter (`internal/base/deletion_file.go`) | list of files | add, delete at a rate, drain on close | both DBs |
| Array table, table (`array_table.go`, `table.go`) | mapped file with sorted items | set, finish, get, iterate | plain DB |
| Sequential DB (`sequential_db.go`, `sequential_flush.go`, `meta.go`) | queue of memtables, sequence number, `flushing` | set, delete, get, iterate, flush, compact | bitree |
| Bitree (`bitree/`) | map of super tables, current one, bdb index, manifest | write, get, iterate, `CompactTo` | sequential DB, super tables, bdb |
| Super table (`bitree/super_table.go`) | data file, offsets, index | set, get, rebuild | bitree |
| bdb (`bitree/bdb`) | pages, freelist, transactions | begin, commit, rollback, get, cursor | bitree |
| Iterators (`iterator.go`, `merging_iter.go`, `compaction_iter.go`) | heap over tables | first, last, next, prev, seek, bounds | both DBs, read states |

What is hard here: goroutines that publish each other's batches over a lock-free
ring while batch objects are reused; a mutex released in the middle of the log
switch and of the flush; writers that apply to a memtable already replaced;
stalls that only a flush ends; a process killed between any two of the steps
that move data from logs to an array table; file numbers shared without the
mutex.  `PROJECT.json` lists each hazard at its line.

What makes each part correct:

* commit pipeline: what is visible is applied, a commit that returns is visible
  and, if asked for, on disk, no batch is lost or published twice, everybody
  returns;
* plain DB: acknowledged data survive a kill and a close, a reader finds the
  newest write, stalled writers get on, a database opened again reads back what it had;
* log writer: a `Done` comes after the record is on disk, errors reach the
  waiters they belong to, `Close` leaves nobody waiting;
* read states: no table is freed or deleted while a reader uses it;
* sequential DB and bitree: entries are readable from the moment `Set` returns
  through flush and super table switch, `CompactTo` removes only what is below
  its key, a reopened store has what was flushed;
* bdb: a reader's pages are not reused before it ends, a crash leaves one whole
  tree, no page is lost;
* record format: after a crash exactly this log's records are read, a prefix of
  them with all the synced ones;
* iterators: every call lands in its direction on a current key and passes over
  none that was there all along;
* skiplist: writers that link next to each other cut nothing off, readers miss
  nothing that was added before;
* array table: what is set is found, at every size of file and mapping.

## 2. Plan

Done, each with its module and run: the commit pipeline and the abstract order it
implements, with proofs; the plain DB and its recovery; the sequential DB, bitree
and super tables; the log writer and the abstract durable log it implements; the
record format; bdb; iterators; the skiplist; read states and array tables.

Which module uses which: `CommitPipeline` instantiates `CommitOrder`, `LogWriter`
instantiates `DurableLog`, `SeqDB` extends `SuperTable`, `ReadStates` extends
`ArrayTable`; `Ascending`, a set of numbers as a rising sequence, is used by `SeqDB`,
`ReadStates` and `PlainDB`.  `CommitPipelineProofs`, `LogWriterProofs`, `PlainDBProofs`,
`SeqDBProofs`, `ReadStatesProofs` and `SkiplistProofs` extend the module they are about,
`PlainDurableProofs` extends `PlainDBProofs`; all but the first two use `NumberFacts`,
which has the least element of a set of naturals and from it what `Min`, `Max` and
`Ascending` return.  The others stand alone, and what one component assumes of
another is an action there: `SyncDone` of `CommitPipeline` is what `LogWriter` shows, a
log of `PlainDB` that is read as a prefix with all that was synced is what `RecordLog`
shows, the memtable of `PlainDB` as an atomic map is `Skiplist`, the versions of the
index in `SeqDB` are those of `Bdb`.

Proved: the commit pipeline and the order it implements; the log writer and the durable
log it implements; the skiplist; the reference counts of the read states, what readers
find and the layout of array tables; of the plain DB `FlushScheduled`, `ReadLatest`,
`Durable`, `ReopenReads` and `LogsKept`; of the sequential DB `FlushComes` and
`NeededStay`.

Open: `GetFresh` and `FlushedSurvives` of `SeqDB` (section 5).  `Bdb`, `Iterators` and
`RecordLog` use recursive operators over trees, heaps and files and stay with TLC.

## 3. The commit pipeline

`CommitPipeline.tla` has one action per atomic access, mutex or semaphore
operation of `commit.go`; `pc` is the place of a goroutine in `Commit`.  A
writer stands for a goroutine and the `Batch` it commits; the object is reused
for the next commit while other goroutines may still hold a pointer to it, as
with the batch pool.

| Model | Code |
|---|---|
| `head`, `tail`, `slots` | `commitQueue.headTail` (unpacked), `slots` |
| `sem`, `mu` | `commitPipeline.sem` (free places), `mu` |
| `wg`, `applied`, `seq`, `cnt`, `commitErr` | fields of `Batch` |
| `EnqueueCheck` … `EnqueueAdvance` | `enqueue` |
| `DequeueLoad` … `DequeueClear` | `dequeue` |
| `Write`, `WriteError`, `Apply`, `ApplyError` | `env.write`, `env.apply` and their error returns |
| `VisibleLoad`, `VisibleCas`, `Done`, `Return` | `publish`, end of `Commit` |
| `SyncDone` | the log writer's flush loop (external to this module) |
| `memSeqs`, `synced` | history: what reached a memtable, the disk |

Left out: wrap-around of the 32-bit halves (at most 512 positions are in use and
the ring size divides 2^32), empty and invalid batches, which return before they
touch shared state.

### Runs

* `commit_wrap`: two writers, a ring of four slots and five commits, so that
  positions wrap and slots and batches are reused; both sync modes and one
  failing write or apply.  Two-operation batches tell a batch's first number from
  its end.  `CommitReturns` needs fairness: weak fairness of each goroutine inside
  `Commit` and of the flush loop's `Done`, since the Go scheduler runs every runnable
  goroutine and the spin in `enqueue` yields.  Whether a client commits again is not
  assumed.  After a failed commit the batches behind it wait for ever, which is what
  the code does; the property speaks of the others.

Three writers without a WAL, where only visibility after return and its monotonicity
are promised, were checked once and are not among the runs.  Deadlock is not checked:
the bounded number of commits ends the run.

### Proofs

`CommitPipelineProofs.tla`, for any finite set of writers, any number of slots
above one and any batch sizes.  The inductive invariant `IInv` says, beside the
type invariant, who holds the mutex at which label, that positions from `tail`
to `head` hold distinct batches each written by the goroutine whose `pos` it is,
that a cleared-late slot belongs to exactly one dequeuer, that a stale pair of
pointers can only fail its compare-and-swap (`tail` has moved) or still denotes
an applied batch, that each `WaitGroup` counts exactly the parties that still owe
a `Done`, and that everything published is applied.  None of the properties is
inductive without these: for instance `DoneAtMostOnce` needs that two dequeuers
with equal pointers cannot both succeed, and that needs `head` and `tail` never
to take an old value again.  `NextInv` has one lemma per action.  From `IInv`
follow `TypeCorrect`, `SnapshotsComplete`, `NoDoubleDone`, `PublishesApplied`,
`NoBatchLost`, `ReadYourWrites`, `SyncedOnReturn`, `VisibleForward` and
`Refinement` (every step is a step of `CommitOrder` or leaves its variables
alone).  All but `SnapshotsComplete` assume `UseQueue`.  The run checks five of these
properties on its instance and leaves those that follow from them, or are steps on
the way, to the proof.

Only model-checked: `CommitReturns` (liveness is outside the prover) and the
WAL-less mode.

## 4. The plain DB

`PlainDB.tla` has one action per critical section of `plainDB.mu`, or per stretch
between two of them.  A write is one operation on one key and is named by its
sequence number; a table is the newest number it has for each key, so "newer"
and "lost" are comparisons of numbers.  A delete is a write.

| Model | Code |
|---|---|
| `meta` | the mapped meta file |
| `logs`, `ats` | the log and array table files |
| `queue` | `mu.mem.queue`: `refs` is `writerRefs`, `used` the reservation, `log` the `logNum` |
| `logQueue`, `recycler`, `trash` | `mu.log.queue`, `logRecycler`, the deletion limiter's list |
| `Set`, `Prepare`, `SwitchLog`, `SwitchMem`, `Apply`, `Ack` | `commitWrite`, `makeRoomForWrite`, `commitApply`, the end of `Commit` |
| `Flush` | `manualAsyncFlush`, `manualFlush` |
| `FlushStart` … `FlushEnd` | `flush`, `flush1`, `runFlush`, `doDeleteObsoleteFiles` |
| `Close`, `CloseDone` | `DB.Close`, `plainDB.Close` |
| `Open`, `ReplayWAL`, `OpenFails`, `Recovered`, `OpenDone` | `newPlainDB`, `replayWAL`, `scanObsoleteFiles` |
| `Crash`, `CrashInMetaEdit` | a kill; also between the stores of `writeMetaEdit` |

A kill keeps what was stored in mapped files and what the log's flush loop has
handed to the file; of the current log any longer prefix may be there too.
`runFlush` takes its file number without the mutex: its load and its store are
two steps and the store may write either its own successor or that of the value
then in memory.  How many records fit into a memtable on replay is a choice
(`ReplayCaps`), since skiplist towers are random and are counted.

History variables: `floor` (for each key the write that has to survive: returned
with sync, or there at a clean close, or covered by a returned flush), `latest`
(the newest write applied), `lapse` (a replayed array table is not recorded, or a
metadata edit was torn; what that costs is written off when the database is
opened next, so that the other properties keep their meaning), `undone` (the flush's
store of its file number has set `nextFileNum` back, past numbers that log switches
took meanwhile; from then on `Durable`, `ReopenReads` and `LogsKept` promise nothing).

### Runs

* `plain_switch`: two clients, one key, small and large batches, one write per
  memtable so that every write switches, and the default of four memtables, so that two
  log switches fit between the load and the store of the flush's number.  `Durable`,
  `ReadLatest`, `LogsKept`, `FlushScheduled`.  There is no kill in it: `Durable` asks at
  every moment what a process killed there would leave, the unsynced end of the log
  lost.  One key is enough for the order of writes; four writes give up to three
  immutable memtables and a flush of any of them, and a number that is undone.
  With a fifth write, and one client, `Durable` without `~undone` is violated (section
  13).
* `plain_reopen`: one client, two writes per memtable, a manual flush, a clean
  close and a kill (torn metadata edits too), replays that may fail.  `ReopenReads`
  and `ReadLatest` after each of them, and `RoomFound`.  Fairness: weak fairness of every
  client inside a call, of the flush goroutine, of the log's flush loop and of opening.
  Starting calls, closing and kills are not assumed.  Large batches are not in it.
* `plain_unrecorded` (violation): see Findings.

Deadlock is not checked: the bounds on writes, kills and closes end a run.  An `Open` that
fails does so because a log does not fit into one memtable (`Fits`, section 13); its other
error returns are failing files, which are not modelled, so there is no property of it.

### Proofs

`PlainDBProofs.tla` and `PlainDurableProofs.tla`, for any clients, keys, sizes, bounds and
kills, and any number of memtables.  A memtable is named
by the number of its creation (`mem`), so that a batch that is applied late still names
its own.  Three invariants, each on top of the one before:

* `QInv`: `writerRefs` is one for each batch being applied and one for the mutable
  memtable (`RefsInv`), memtables are queued in the order of their creation, the one a
  batch is applied to is still there (`OpInv`), a running flush has taken leading tables
  that nobody writes to (`FlushInv`).  `FlushScheduled` needs all of it: who brings a
  count to zero must be the one to schedule.  Theorem `FlushAlwaysComes`.
* `RInv`: of each key a table has older writes than the tables behind it, the array table
  the oldest (`OrderInv`), which stays so whatever the order in which the batches on their
  way are applied (`PendingInv`); the logs recovery would read are in that order too
  (`LogInv`), and what a flush has built is what it replaces (`InstallInv`).  Array tables
  are numbered upwards although their number is taken without the lock (`NumInv`), so
  none is overwritten or deleted while it is the one in use.  Theorem `ReaderFindsNewest`
  is `ReadLatest`, across flushes, kills and replays.
* `DInv` (`PlainDurableProofs`): what a table holds is in its log, which recovery still reads (`LoggedInv`), and
  what recovery would read is in a table or in a client's hands (`KeptInv`), so that the
  log a flush gives up has nothing that its array table has not.  A write that is about
  to be acknowledged is where its client waits for it (`AckInv`), and what was
  acknowledged is in the array table or on the synced part of a log (`FloorInv`).  Logs
  are numbered in the order of their writes, the current one highest (`FilesInv`,
  `SeriesInv`); what is deleted or recycled is below `meta.min` (`GoneInv`); and a log is
  never behind the array table (`StaleInv`), else a replay of a log whose flush was not
  recorded would bring old values back.  `TakenInv` says that recording a flush never
  fails.

`DInv` needs file numbers that are used once, and the unlocked number of `runFlush` may
set the next one back.  The invariant is therefore `UInv`: `DInv` until a number is undone
(`NotUndone`: a step that undoes none keeps all numbers, `NumbersKept`).  From it
`SyncedSurvives`, `ReopenedReadsBack` and `ReadableLogsStay` are `Durable`, `ReopenReads` and
`LogsKept`, for any number of memtables.  `NumbersStayUpToThree` says when the condition
is void: with `StopWrites <= 3` no number is ever undone.  `FewInv` counts the memtables a
log switch leaves behind, which is one between the load and the store of the number, and
the stall of `makeRoomForWrite` stops the second; one switch does not lower it.  With the
default of four it can happen (`plain_switch` reaches it): three is the exact limit.

Only model-checked: `RoomFound` (liveness).

Not modelled: deletes in large batches (a large batch here holds a set; its lookup does
not find deletes, which `Iterators` has), `PlainDisableWAL`, I/O errors, `Close` with
calls in flight.  Readers
and their references are in `ReadStates`, iterators in `Iterators`; the skiplist is an
atomic map here, an array table a map.

## 5. The sequential DB and its bitree

`SuperTable.tla` defines a super table and what is done to it, as operators on a
value; `SeqDB.tla` is the state machine.  Writes are named by their sequence
number, as in `PlainDB`; keys are numbers in order, as a log's keys are.

| Model | Code |
|---|---|
| `files` | the key and value files with the header (`keyTbl`, `valueTbl`) |
| `meta` | the bitree's manifest: `min` is `minUnCompactFileNum`, `next` the next file number |
| `vers` | the bdb index: its current version, which is on disk, and older ones whose pages are not free yet |
| `pool` | `TxPool.rTx`, the read transaction that readers share |
| `stMap`, `stMutable` | the super tables by number, each with `keyReadable`; the one written to |
| `queue` | `mem.queue`: `refs` is `writerRefs`, `used` the reservation |
| `Set`, `Add` | `Set`, `Delete` up to the unlock with `makeRoomForWrite`; adding the entry and `writerUnref` |
| `Flush`, `FlushStall`, `FlushSwitch` | `manualAsyncFlush`, with the wait for room in `makeRoomForWrite` |
| `FlushStart`, `FlushKeys`, `FlushVals`, `FlushNum`, `FlushEnd` | `flush`, `runFlush`, `flushFinish` with its three writes |
| `RoomTable` … `RoomMap` | the bitree's `makeRoomForWrite`: file, index, pool (two steps), map |
| `Get`, `GetLoad`, `GetTable`, `GetDone` | `sequentialDB.Get`, `findKeyFileNum`, `superTable.get`, giving the transaction back |
| `CompactTo` … `CompactSwap` | `CompactTo`, `deleteBdbKeys`, `TxPool.Update` |
| `Close`, `CloseFlush`, `CloseDone` | `DB.Close`, `sequentialDB.Close`, `Bitree.Close` |
| `Open` | `newSequentialDB`, `OpenBitree`, `openSuperTables` with `openSuperTable` |
| `Crash` | a kill |

A version of the index stands for the pages that only it uses.  Every write
transaction releases pages first: those of all versions without a reader, or only
those older than every reader, since `freePages` can free pages between two
readers only when it knows which transaction allocated them; the model has both.
Released pages name super tables, and those up to `min` are freed.  Records and
values are written whole or not at all: a kill leaves any prefix of the key
records and, independently, of the values while the buffers are being filled, and
any prefix of the values once the key file is synced.  In the code the writer's buffer may
also spill inside a record, and a kill then leaves a torn one, which misaligns what the
next flush appends; that is not modelled, so `FlushedSurvives` says nothing of it.  A delete leaves an empty
value, which reads as "not found".  The table's size is the number of its records
and values (`MaxStSize`), a memtable's the number of its writes (`MemCap`).

`hist` is history: `latest` and `floor` are the newest write of each key that was
added, and that a finished flush or a close left; `cut` the largest key given to
`CompactTo`; `rewritten` the keys that were flushed twice, for which a super table
makes no promise (the bisection finds the older record); `hidden` the keys of older
tables whose bound in the index is taken, or preceded by a smaller one, when the flush
that ends a table ends with a key not above theirs; `misplaced` the keys
flushed behind records a rebuild did not count.  A reader is `stale` when the pool
has gone back to an older version.  The last three are defects of the code (section
13); the properties leave them out so that they say something about the rest.

### Runs

* `seq_crash`: three writes of up to three keys with rewrites and deletes, one
  write per memtable, two memtables, so that the writer stalls; a manual flush, one
  reader, one compaction, one close and one kill, interleaved at every step.  With
  `MaxStSize = 3` every second flush switches super tables, so a run has at most one
  switch and two tables.  `GetFresh`, `FlushedSurvives`, `NeededStay`, `FlushComes`.  Also
  checked once, with the same result: writes of four keys without rewrites, with
  two and with three memtables; and, without readers and compactions, six writes of up to
  five keys, two to a memtable, with three kills.

`FlushComes` is the safety form of "stalled writers get on": nobody waits without
somebody who will start a flush, so no fairness is needed.  Deadlock is not
checked: the bounds end a run, and an `Open` that meets an empty value while
rebuilding does not return (section 13); `FlushedSurvives` excepts the kills that lead
there (`CanOpen`).

### Proofs

`SeqDBProofs.tla`: `FlushAlwaysComes` is `FlushComes` for any keys, writes, memtables and
bounds.  It is not inductive: that the writer which gives up the last reference schedules
a flush, and only for a memtable that is not the mutable one, needs what the counts are
made of (`RefsInv`: the queue's own reference and the writer's), that the writer's
memtable is still in the queue (`WriterInv`), and for that what a running flush may have
taken (`RunInv`).

`NoNeededTableFreed` is `NeededStay`: no table that a key not below the compaction's is
looked up in leaves the map or the disk.  When the pages of an old version of the index are
released, the tables it names up to `meta.min` are freed; so the number of every needed
table has to stay above `meta.min` (`AheadInv`).  `CompactTo` takes that number from the
version the pool had when it read, which may be older than the index, and a switch may
come between its reading and its recording.  Hence `AheadInv` compares the table of a key
with the bounds below the key in every version that is left, and with the number a
compaction has in hand.  `VersInv` and `PinInv` say what versions are and that those in
use are left, `FillInv` that new tables have the highest numbers, `CutInv` that a
compaction deletes only bounds below its key.  It holds for any number of kills.

Only model-checked: `GetFresh` and `FlushedSurvives`.  They speak of what a bisection
finds among records whose order rests on the key the client goes on from after each kill,
and on which records each rebuild has counted; the inductive invariant for that is not
worked out.

Not modelled: several writers at once (nothing in `Set` keeps their keys in order),
I/O errors, two compactions at once, calls in flight at `Close`, a kill inside open,
the size of the index's memory map.

## 6. The log writer

`LogWriter.tla` has one action per stretch between two accesses to shared state.  A
block is a sequence of cells, a cell a piece of a fragment named by its record.

| Model | Code |
|---|---|
| `block`, `free`, `allocated`, `pending` | `w.block`, `w.free`, `flusher.pending` |
| `head`, `tail`, `slots`, `blocked` | `syncQueue` with its `blocked` bit, unpacked |
| `wg`, `waitErr` | a waiter's `WaitGroup` and error |
| `loop`, `timer` | the flush loop's place and locals; the sync timer |
| `SyncRecord`, `EmitFragment`, `QueueBlock`, `SwapBlock`, `Push`, `SignalFlusher`, `Return`, `Synced` | `SyncRecord` up to its waiter's return |
| `Check`, `WaitAdd`, `WaitUnlock`, `Woken` | the loop's condition and `flusherCond.Wait`, its three steps apart |
| `Take`, `Data`, `FlushBlock`, `FlushData`, `SyncFile`, `Pop`, `Done`, `PopEnd`, `Relock` | the rest of `flushLoop`, `flushPending`, `flushBlock`, `syncQueue.pop` |
| `TimerFires`, `TimerSignals` | the function given to `afterFunc` |
| `Close` … `CloseSync` | `LogWriter.Close` |

`DurableLog.tla` says what is promised: cells are appended in one order, the file is a
prefix of them, a prefix of the file is on disk, only what is on disk is
acknowledged.  `ImplementsDurable` is the refinement: the appended cells and the
acknowledged records are history, the file is the file.

* `log_writer`: two goroutines, three records of two cells in blocks of three, so
  that records cross blocks; two blocks, so that a writer waits for one; a ring of two
  slots; the sync interval on (`SetMinSyncInterval`, which the databases do not call); one failing write, which may write a part, or sync; a
  `Close` at any time the contract allows.  `ImplementsDurable`, `CloseSyncsAll`,
  `CallsReturn`.  Fairness: weak fairness of the loop, of the timer's two steps and of
  each goroutine inside `SyncRecord`.
* `log_stuck` (violation): see Findings.

Deadlock is not checked: the records are used up.

### Proofs

`LogWriterProofs.tla`, for any clients, slots, blocks, record sizes and failures.  `IInv`
says who holds the mutex, that records have numbers of their own, that the ring from
`tail` to `head` holds distinct waiting clients and the loop's copies of the two are a
part of it (`RingInv`), that an error stays (`LoopInv`), and, as long as there is none,
that the log splits into the file, the blocks in the loop's hands, those pending and the
current block (`SplitInv`); from that, that what is acknowledged is below `durable`
(`AckInv`).  The split is what makes the refinement go through: the loop works on copies
it took before it unlocked, while writers go on filling the block behind them.  Theorems:

* `Refinement`: every step is one of `DurableLog` or leaves its variables alone;
* `NothingUnsynced`: `CloseSyncsAll`;
* `NoNilWaiter`: `pop` never meets an empty slot and no `WaitGroup` goes below zero;
* `NeverOverflows`: `push` never finds the ring full, provided that fewer goroutines sync
  at once than there are slots (`FewWriters`), which the semaphore of the commit pipeline
  sees to.

Only model-checked: `CallsReturn` (liveness).

## 7. The record format

`RecordLog.tla`: a file is a sequence of cells.  `Chunk`, `Fragments`, `Trailer` are
what `emitFragment`, `Writer` and `Close` write, `NextChunk`, `ReadRecord` and
`ReplayFrom` what `nextChunk`, `singleReader.Read` and the loop in `replayWAL` read.  A
checksum matches when all cells it covers are its chunk's: it is taken to find every
mixture.  `Image` is what a crash leaves: all that was synced, of the rest any prefix,
with any of its blocks not written; the old file's cells show wherever nothing was.

* `record_log`: both formats; blocks of seven cells with headers of two and three
  cells and payloads of 1, 2 and 5, so that chunks end at, one before and a header's
  size before a block's end; a file preallocated with zeroes, fresh or recycled from
  another log, closed or not.  `ReplayReadsLog`, `ClosedEndsCleanly`; the latter leaves out
  legacy logs in longer files, whose chunks have no log number to end them.

## 8. bdb

`Bdb.tla` has the tree in pages, the freelist as a set of spans with its pending
pages, two meta pages, and one write transaction whose nodes are materialised on
their way.  `allocs` knows the transaction of pages taken from the freelist only, as in
`hashmapAllocate`: pages taken at the end of the file have none, and `releaseRange` leaves
them pending.

| Model | Code |
|---|---|
| `file`, `metas` / `disk`, `dmetas` | pages and metas as the process sees them / after a machine crash |
| `spans`, `pending`, `allocs` | `freelist.forwardMap`, `pending`, `allocs` |
| `readers`, `w` | open read transactions; the write transaction with its nodes |
| `BeginRead`, `EndRead`, `BeginWrite` | `beginTx`, `close`, `beginRWTx` with `freePages` |
| `CreateBucket`, `Load`, `Put`, `Delete`, `Rollback`, `Commit` | the bucket's operations |
| `RebalanceNode`, `Rebalanced` | `node.rebalance`, node by node in any order, as over a Go map |
| `SpillNode`, `InlineBucket`, `SpillRoot`, `CommitFreelist` | `spill`, `commitFreelist` |
| `WritePages`, `SyncPages`, `WriteMeta`, `SyncMeta` | `write`, `writeMeta` |
| `CommitFails`, `Crash` | a failing write with its rollback; a crash and `Open` |
| `CursorFirst` … `CursorSeek` | `Cursor` |

* `bdb_tree`: a new file, or one with two free pages behind its root (`UsedFile`, so that
  tree pages come from the freelist and may be released between two readers; with `NoSync`
  only, to keep the run small); a
  tree of two keys (one level), four (two) or fourteen (three), then two more
  write transactions of one change; two readers,
  exchanged by symmetry; pages of three elements.  Every allocation that the hash map
  may choose is taken.  One fault, in trees of up to four keys.  `NoPanic`,
  `SnapshotsStable`, `CommittedWhole`, `PagesAccounted`, `CursorsFind`.  Readers begin and
  end between any two steps that others can see: while a transaction works in memory
  only, their steps commute with it and are left out.  `overlap` is set by a rollback
  whose reload finds nothing but pending pages and, as in the code, keeps them among the
  free ones (section 13); the properties except it by that cause, not by its effect, and
  the constraint stops behind it.

Deadlock is not checked: the transactions are used up.  Not modelled: what the product
never calls (`Batch`, nested buckets, `DeleteBucket`, sequences, `WriteTo`, the array
freelist, `NoFreelistSync`), overflow pages of large values, a failing `fdatasync`
(the product sets `NoSync`), growth of the memory map.

## 9. Iterators

`Iterators.tla`: entries are records `[k, s, d, v]`; a level has a place in the order of
its entries; `mergingIter` is a heap over levels, `Iterator` its state machine.  A call
is one step: the steps inside a level are `Skiplist`'s subject.  `Write`, `Switch`,
`FlushPlain` and the steps of the sequential DB's flush come between any two calls:
`FlushTree` writes all it has taken to the mutable super table, `SwitchIndex` and `MapTable`
switch a full one, first in the index and then in the map, and `DropFlushed` gives up the
memtables.  That the keys of the sequential store grow (`MayWrite`) is an assumption about
the program that writes a log, not a check of the code.  `MFirst` … `MPrev` are
`mergingIter`, `FindNext`, `FindPrev`, `SeekGEOf` … `PrevOf` `Iterator`'s, with the seeks
it leaves out; `MemUp`, `BatchUp`, `ArrayUp`, `TreeUp` and their counterparts the four
kinds of level; `Get` the lookups.

* `iterators`: both stores; two writes after a first table, deletes and large batches
  included, a switch, a flush of any outcome; one iterator with calls in any number, order
  and direction; three keys of which two share a prefix.  Bounds are given to the
  sequential store's iterators only, since the array table's panic with them
  (section 13).  History says which values each key has had since `NewIter`, which keys
  a call passed over and whether it landed right.  `LandsRight`, `NoneSkipped`,
  `GetNewest`.  An iterator opened between `SwitchIndex` and `MapTable` that calls `Last` or
  `SeekLT` there finds nothing in the tree (`Shut`); the first two properties except it by
  name, and TLC finds `NoneSkipped` violated without that.

## 10. The skiplist

`Skiplist.tla`: one action per load or compare-and-swap of `Inserter.Add`: `Prepare`
reserves, `Splice` and `Search` find the place from the cached splice, `NewNode`
allocates, `Load`, `Check`, `Help`, `Link`, `Back` link a level, `Unref` gives the
memtable back.  The reader's `Seek`, `SeekLevel`, `IterNext` go level by level.

* `skiplist`: two writers, exchanged by symmetry, three entries of two user keys in
  batches of one or two, towers of one or two levels, one lookup; the arena holds eight
  units and three entries may need nine, so that `prepare` refuses some batches and
  accepts others only after the reservation has dropped to what is used.  Two writers are enough for every pair of conflicting links;
  two levels for a tower linked in part.  `LevelsSorted`, `ReadersFind`, `PrevMirrors`,
  `RoomSuffices`.

`On(l)`, the nodes of a level, is the least set that has the head and, with a node, its
successor; so a node that was cut off is not in it whatever its own links say.

### Proofs

`SkiplistProofs.tla` proves all four for any number of writers, entries and levels, any
batches and any arena (`NoneCutOff`, `NoneMissed`, `BackwardsToo`, `NeverFull`).  The parts
of `IInv`:

* `LevelInv`: each level is an upward chain of neighbours and a part of the level below,
  with every added entry, and an entry that is being added on just the levels its writer
  has done.  `ChainAdd` is the step: a successful compare-and-swap puts one node behind
  another whose link it already carries, and adds just that node to `On`.
* `SpliceInv`: the neighbours a writer has in hand surround its entry and the splices of
  its levels are nested, also those kept from the entry before.  Without the nesting the
  levels above the first one whose splice still holds could not be trusted, and
  `findSplice` does not look at them.
* `BackInv`, `HelpInv`: a back link on a level only moves forward and only to the true
  predecessor; a writer that links behind `p` has seen the successor's back link at `p`,
  or `p` has lost its successor since.  So a link that lags has a writer that will set it.
* `ReadInv`: a reader stands before its key on all lower levels.
* `RoomInv`: the size and the largest node for every entry without a node are within the
  reservation, which the last writer may only drop when no such entry is left.

## 11. Read states and array tables

`ArrayTable.tla` lays a table out in words: `Alloc` with the growth of file and mapping
(either may fail), `SetItem`, `WriteFinish`, `OpenArrayTable`, `AtGet`.  `ReadStates.tla`
counts references, one atomic operation per step.

| Model | Code |
|---|---|
| `tabs` | `flushableEntry` and array tables: `readerRefs`, obsolete, file |
| `states`, `val` | `readState` objects; `readState.val` |
| `Load`, `CloseReader`, `Drop` | `loadReadState`, `unref`, `readerUnref` |
| `Update`, `UpdateSwap`, `UpdateUnref`, `UpdateEnd` | `updateReadStateLocked` |
| `Write`, `SwitchMem`, `Apply` | a writer with its reference to the memtable |
| `FlushStart`, `FlushBuild`, `FlushInstall`, `FlushRefused`, `FlushEnd` | `flush1`, `runFlush` with its error returns |
| `Close`, `CloseQueue` | `plainDB.Close` |

* `read_states`: two readers, exchanged by symmetry, two loads; three writes of two
  keys, the first of them optional and in an array table of an earlier life; two
  switches; one fault in a flush (file growth, mapping, an item, the metadata), with one
  load then.  The
  sizes are scaled: mappings of 4 and 8 words stand for 2^15 to 2^30 bytes, a step of
  5 for 128 MB, an initial mapping of 6 for 10 MB, a limit of 11 for 2^32, with values
  of 0 to 2 words, so that tables below, at and above each of them are built.
  `UsedIsLive`, `RefsExact`, `NothingLeft`, `ReadsBack`, `PanicsOnlyAtLimit`,
  `InstalledSynced`.  What a refused item costs is history (`damaged`), and so is what
  a failed flush leaves behind (`orphans`).

### Proofs

`ReadStatesProofs.tla`, for any readers, keys, memtables, switches, flushes and faults,
and whatever an array table holds: `RefsAddUp` (`RefsExact`), `NoUseAfterFree`
(`UsedIsLive`), `NoLeak` (`NothingLeft`).  A count is the owner's reference, the read
states in use that list the table and the `readerUnref`s still to come (`CountInv`); a
read state is in use while `readState.val`, the goroutine that replaces it, or a reader
has it (`StateInv`).  For each `readerUnref` to take one away, no loop may meet a table
twice (`DropsInv`, from `PlaceInv`: a table is in one place only); for the memtable of a
writer to be there, a flush must have left it in the queue (`WriterInv`); memory and file
go with the last reference (`LiveInv`, `FileInv`).  `PhaseInv` ties the places of the
mutex's holder, the flush and `Close` to each other.

The second half goes on with what the tables hold, on top of that invariant and for any
scale whose offset limit leaves room for a table without items
(`OffsetLimit > 6`).  First the layout: what `Alloc`, `SetItem` and `WriteFinish` keep, at
every step of file and mapping, and what `AtGet` finds in a finished table.
`SetAll`, the fold of `SetItem` over the merged keys, is a recursive function; what holds
after each of its steps is shown by the least step at which it would not (`LeastNat`).
Then `DataInv`: later memtables have later writes (`OrderInv`), finished tables can be
read and are on disk (`FinishedInv`), the table a flush is about to install has what it
replaces (`MergedInv`), and the queue, the current read state and every reader's find the
newest write, or the reader's at its load (`QueueFinds`, `ValFinds`, `ReaderFinds`).  The
three last differ because a flush installs its table and replaces the read state in
separate steps.  Theorems: `NothingHidden` (`ReadsBack`), `NoPanicBelowLimit`
(`PanicsOnlyAtLimit`), `InstalledOnDisk` (`InstalledSynced`).

`Close` comes with readers still open; calls after it are not modelled.  Large batches
are not in it, as releasing them does nothing.  The sequential DB's twin is the same
code without the array table.  Not modelled: `tableWriter` and the disk-write mode,
which nothing uses.

## 12. Findings

* `plain_unrecorded`: the array table built by `replayWAL` is not recorded in the
  meta file; a second close and open lose what the first open recovered
  (`open.go:191`).
* `log_stuck`: after an error the flush loop drops full blocks without freeing them; a
  writer that needs a block waits for ever, with the commit mutex (`log_writer.go:431`).

## 13. Known defects without a run

Each was shown by TLC once or seen while modelling; the properties except them by name
or by history, so that they say something about the rest.

Commit pipeline and plain DB:

* a failed `Commit` leaves its batch in the ring and frees its semaphore place; the
  ring fills up and `enqueue` panics (`commit.go:50`);
* an apply that fails keeps its writer reference, so its memtable is never flushed
  (`plain_db.go:297`);
* `replayWAL` expects `ErrArenaFull` where `prepare` returns `ErrTableFull`: a log that
  does not fit into one memtable keeps the database from opening (`plain_db.go:615`);
* the flush takes its file number without the mutex; with four memtables two log
  switches between its load and its store are undone, and a later switch creates its
  log over a live one (`plain_flush.go:163`); `undone` in `PlainDB`;
* a key that `at.set` refuses is skipped and its memtable dropped, and the value before
  it is read longer than it is (`plain_flush.go:172`);
* the cleanup of `runFlush` tests `atEntry`, which `return nil, err` has set to nil: the
  mapping and file of a failed flush stay, also when recording it fails
  (`plain_flush.go:134`);
* a threshold of one memtable stalls the first switch for ever (`options.go:116`);
* `Get` and `NewIter` do not look at `closed` (`db.go:120`).

Tables, batches and iterators:

* the array table's offset has 32 bits: at 4 GB every flush panics and is repeated
  (`table.go:242`);
* a finished table whose size is exactly the file's is not synced, and `Msync` never
  runs because `openType` is unset (`table.go:374`, `:388`);
* a lookup of an absent key returns the next entry (`array_table.go:249`); a large
  batch's lookup misses deletes (`batch.go:469`); a flushed delete shows as an empty
  value;
* an array table's iterator with bounds dereferences nil at its end
  (`array_table_iterator.go:76`); a `SeekPrefixGE` out of bounds leaves the iterator
  valid (`iterator.go:301`).

Sequential DB, bitree and bdb:

* `TxPool.Update` begins its transaction before it takes its lock: with `CompactTo` and
  a super table switch at once the older one may stay, and keys flushed since are not
  found (`bitree/bdb.go:231`);
* a kill may leave key records without values, behind which the next flush appends
  while the count goes on from the readable ones, so that such a record is matched with
  the value of another write (`bitree/super_table.go:457`);
* `switchBdbKey` does not look whether the flush's last key already is a bound of the
  index, or is below one (keys written again, as after a kill): the tables behind that bound are hidden, bounds are out of order, and `CompactTo` may
  free a table that is still looked up (`bitree/bdb.go:113`);
* `readKeyFileHeader` repeats a record for ever when it meets an empty value that others
  follow (`bitree/super_table.go:193`), so that `Open` does not return; a record torn by
  the writer's buffer misaligns those behind it (`bitree/super_table.go:360`);
* an overwrite or delete of a key that was flushed before is not seen once it is
  flushed itself (`bitree/super_table.go:292`); two writers may leave a super table
  unsorted (`sequential_db.go:109`); a key a super table refuses is skipped
  (`sequential_flush.go:175`);
* `Last` or `SeekLT` of an iterator opened between the index switch and the map's update
  finds nothing in the bitree (`bitree/bitree_iterator.go:57`); two
  `CompactTo` at once, or versions freed between two readers (`bitree/bdb/db.go:536`),
  leave files that nothing deletes;
* a rollback whose reload is left with no free page, all of those read being pending,
  keeps them, so that pending pages
  are among the free ones (`bitree/bdb/freelist_hmap.go:166`); `overlap` in `Bdb`;
* growing the index's map beyond 256 MB waits for all read transactions, of which the
  pool always holds one (`bitree/bdb/db.go:269`); with `NoSync` a machine crash may
  leave a meta page without its pages.

## 14. Not proved, not modelled

Liveness and `ENABLED` are outside the prover and stay with TLC, and so do the modules
with recursive operators (`Bdb`, `Iterators`, `RecordLog`): the properties of their runs
are shown on the runs' instances only.  What the other modules leave to TLC is said in
their sections.  Not modelled, beside
what each section names: the deletion limiter's rate and batching, the reservation of
sequence numbers in `meta.go`, options, and the utilities under `internal/` (virtual
file system, mapped files, pools, compression, hashing), which are input and output or
hold no state of the product's protocols.
