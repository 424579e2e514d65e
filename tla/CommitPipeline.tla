-------------------------- MODULE CommitPipeline --------------------------
(***************************************************************************)
(* The commit pipeline of the plain DB (commit.go): the lock-free          *)
(* single-producer, multi-consumer commitQueue and commitPipeline.Commit,  *)
(* at the grain of one atomic access, mutex or semaphore operation per     *)
(* step.                                                                   *)
(*                                                                         *)
(* A writer is a goroutine together with the Batch object it commits.  The *)
(* object is reused for the goroutine's next Commit (batch.go, Reset and   *)
(* the batch pool), so another goroutine may still hold a stale pointer to *)
(* it.  A writer whose write or apply failed stops: its object stays in    *)
(* the queue and Commit sets b.db = nil, which keeps it out of the pool.   *)
(*                                                                         *)
(* head and tail are the two 32-bit halves of commitQueue.headTail.  They  *)
(* are naturals here: the number of slots divides 2^32, and at most        *)
(* N <= 512 positions are in use at a time.                                *)
(***************************************************************************)
EXTENDS Integers, FiniteSets

CONSTANTS Writers,      \* committing goroutines, each with its Batch
          N,            \* record.SyncConcurrency: the slots of the queue
          Counts,       \* numbers of operations a batch may hold
          Syncs,        \* the values of syncWAL clients pass
          UseQueue,     \* commitEnv.useQueue: the WAL is enabled
          NULL,         \* the nil pointer
          MaxCommits,   \* bound: calls of Commit
          MaxErrors     \* bound: calls of write and apply that fail

ASSUME NAssumption == N \in Nat /\ N > 1
ASSUME WritersAssumption == IsFiniteSet(Writers) /\ NULL \notin Writers
ASSUME CountsAssumption == Counts \subseteq Nat \ {0}
ASSUME SwitchAssumption == UseQueue \in BOOLEAN /\ Syncs \subseteq BOOLEAN
ASSUME BoundsAssumption == MaxCommits \in Nat /\ MaxErrors \in Nat

VARIABLES
  head, tail, slots,          \* commitQueue
  sem, mu,                    \* commitPipeline: free semaphore slots, mutex holder
  logSeqNum, visibleSeqNum,   \* metadata.atomic
  seq, cnt, applied,          \* Batch: SeqNum, Count, applied
  wg,                         \* Batch: the WaitGroup commit
  sync, commitErr,            \* batches committed with syncWAL, with an error set
  syncQueued,                 \* batches the LogWriter owes a Done
  pc, pos, ptrs, cur, vis,    \* the goroutine and its local variables
  memSeqs,                    \* sequence numbers applied to a memtable
  synced,                     \* batches whose record is on disk
  panicked,                   \* enqueue reached its panic
  commits, errors             \* counted against the bounds

queueVars == <<head, tail, slots>>
pipeVars  == <<sem, mu, logSeqNum, visibleSeqNum>>
batchVars == <<seq, cnt, applied, wg, sync, commitErr, syncQueued>>
localVars == <<pos, ptrs, cur, vis>>
histVars  == <<memSeqs, synced, panicked, commits, errors>>
vars == <<queueVars, pipeVars, batchVars, pc, localVars, histVars>>

Labels == {"idle", "lock", "enqueue", "spin", "store", "advance", "write",
           "apply", "publish", "load", "slot", "applied", "cas",
           "clear", "visload", "viscas", "done", "wait", "failed"}

\* The shape of the state (commit.go): the slots hold batches or nil, applied is
\* a flag, and no sequence number wraps below 0 (commitPipeline.prepare subtracts
\* the count again from what it added).
TypeOK ==
  /\ head \in Nat /\ tail \in Nat
  /\ slots \in [0..(N - 1) -> Writers \cup {NULL}]
  /\ sem \in Int /\ mu \in Writers \cup {NULL}
  /\ logSeqNum \in Nat /\ visibleSeqNum \in Nat
  /\ seq \in [Writers -> Nat] /\ cnt \in [Writers -> Nat]
  /\ applied \in [Writers -> {0, 1}]
  /\ wg \in [Writers -> Int]
  /\ sync \subseteq Writers /\ commitErr \subseteq Writers
  /\ syncQueued \subseteq Writers
  /\ pc \in [Writers -> Labels]
  /\ pos \in [Writers -> Nat]
  /\ ptrs \in [Writers -> Nat \X Nat]
  /\ cur \in [Writers -> Writers \cup {NULL}]
  /\ vis \in [Writers -> Nat]
  /\ memSeqs \subseteq Nat /\ synced \subseteq Writers
  /\ panicked \in BOOLEAN
  /\ commits \in Nat /\ errors \in Nat

\* A fresh store: metadata starts both counters at 1 (manifest.go).
Init ==
  /\ head = 0 /\ tail = 0 /\ slots = [i \in 0..(N - 1) |-> NULL]
  /\ sem = N - 1 /\ mu = NULL
  /\ logSeqNum = 1 /\ visibleSeqNum = 1
  /\ seq = [w \in Writers |-> 0] /\ cnt = [w \in Writers |-> 0]
  /\ applied = [w \in Writers |-> 0] /\ wg = [w \in Writers |-> 0]
  /\ sync = {} /\ commitErr = {} /\ syncQueued = {}
  /\ pc = [w \in Writers |-> "idle"]
  /\ pos = [w \in Writers |-> 0] /\ ptrs = [w \in Writers |-> <<0, 0>>]
  /\ cur = [w \in Writers |-> NULL] /\ vis = [w \in Writers |-> 0]
  /\ memSeqs = {} /\ synced = {} /\ panicked = FALSE
  /\ commits = 0 /\ errors = 0

Slot(i) == i % N

Goto(w, from, to) == pc[w] = from /\ pc' = [pc EXCEPT ![w] = to]

\* The sequence numbers of w's batch.
SeqsOf(w) == seq[w]..(seq[w] + cnt[w] - 1)
EndOf(w) == seq[w] + cnt[w]

-----------------------------------------------------------------------------
(***************************************************************************)
(* prepare: Commit takes a semaphore slot, arms the batch's WaitGroup and, *)
(* under the mutex, enqueues the batch, numbers it and writes it.          *)
(***************************************************************************)
Commit(w) ==
  /\ commits < MaxCommits
  /\ UseQueue => sem > 0
  /\ Goto(w, "idle", "lock")
  /\ \E n \in Counts, s \in Syncs :
       /\ s => UseQueue                 \* Apply refuses a sync without a WAL
       /\ cnt' = [cnt EXCEPT ![w] = n]
       /\ sync' = IF s THEN sync \cup {w} ELSE sync \ {w}
       /\ wg' = [wg EXCEPT ![w] = @ + (IF ~UseQueue THEN 0 ELSE IF s THEN 2 ELSE 1)]
  /\ applied' = [applied EXCEPT ![w] = 0]
  /\ commitErr' = commitErr \ {w}
  /\ synced' = synced \ {w}
  /\ sem' = IF UseQueue THEN sem - 1 ELSE sem
  /\ commits' = commits + 1
  /\ UNCHANGED <<queueVars, mu, logSeqNum, visibleSeqNum, seq, syncQueued,
                 localVars, memSeqs, panicked, errors>>

Lock(w) ==
  /\ mu = NULL
  /\ mu' = w
  /\ Goto(w, "lock", IF UseQueue THEN "enqueue" ELSE "write")
  /\ UNCHANGED <<queueVars, sem, logSeqNum, visibleSeqNum, batchVars, localVars,
                 histVars>>

\* enqueue: load headTail; a full queue panics, with the mutex held.
EnqueueCheck(w) ==
  /\ ~panicked
  /\ IF tail + N = head
       THEN /\ pc[w] = "enqueue" /\ panicked' = TRUE
            /\ UNCHANGED <<pc, pos>>
       ELSE /\ Goto(w, "enqueue", "spin") /\ pos' = [pos EXCEPT ![w] = head]
            /\ UNCHANGED panicked
  /\ UNCHANGED <<queueVars, pipeVars, batchVars, ptrs, cur, vis, memSeqs,
                 synced, commits, errors>>

\* enqueue: spin until the consumer that took the slot's last batch clears it.
EnqueueSpin(w) ==
  /\ slots[Slot(pos[w])] = NULL
  /\ Goto(w, "spin", "store")
  /\ UNCHANGED <<queueVars, pipeVars, batchVars, localVars, histVars>>

EnqueueStore(w) ==
  /\ Goto(w, "store", "advance")
  /\ slots' = [slots EXCEPT ![Slot(pos[w])] = w]
  /\ UNCHANGED <<head, tail, pipeVars, batchVars, localVars, histVars>>

EnqueueAdvance(w) ==
  /\ Goto(w, "advance", "write")
  /\ head' = head + 1
  /\ UNCHANGED <<tail, slots, pipeVars, batchVars, localVars, histVars>>

\* mutant: the count is subtracted from the number before the addition.
WriteBehind(w) ==
  /\ Goto(w, "write", "apply")
  /\ seq' = [seq EXCEPT ![w] = logSeqNum - cnt[w]]
  /\ logSeqNum' = logSeqNum + cnt[w]
  /\ syncQueued' = syncQueued \cup (sync \cap {w})
  /\ mu' = NULL
  /\ UNCHANGED <<queueVars, sem, visibleSeqNum, cnt, applied, wg, sync,
                 commitErr, localVars, histVars>>

\* setSeqNum takes the batch's numbers from logSeqNum; still under the mutex,
\* env.write succeeds: it queues the record, for a sync with the WaitGroup.
Write(w) ==
  /\ Goto(w, "write", "apply")
  /\ seq' = [seq EXCEPT ![w] = logSeqNum]
  /\ logSeqNum' = logSeqNum + cnt[w]
  /\ syncQueued' = syncQueued \cup (sync \cap {w})
  /\ mu' = NULL
  /\ UNCHANGED <<queueVars, sem, visibleSeqNum, cnt, applied, wg, sync,
                 commitErr, localVars, histVars>>

\* env.write fails, before or after it queued the record: Commit returns the
\* error, gives its semaphore slot back and leaves the batch in the queue.
WriteError(w) ==
  /\ errors < MaxErrors
  /\ Goto(w, "write", "failed")
  /\ seq' = [seq EXCEPT ![w] = logSeqNum]
  /\ logSeqNum' = logSeqNum + cnt[w]
  /\ syncQueued' \in {syncQueued, syncQueued \cup (sync \cap {w})}
  /\ mu' = NULL
  /\ sem' = IF UseQueue THEN sem + 1 ELSE sem
  /\ errors' = errors + 1
  /\ UNCHANGED <<queueVars, visibleSeqNum, cnt, applied, wg, sync, commitErr,
                 localVars, memSeqs, synced, panicked, commits>>

\* env.apply inserts the batch into the memtable, outside the mutex.
Apply(w) ==
  /\ Goto(w, "apply", "publish")
  /\ memSeqs' = memSeqs \cup SeqsOf(w)
  /\ UNCHANGED <<queueVars, pipeVars, batchVars, localVars, synced, panicked,
                 commits, errors>>

ApplyError(w) ==
  /\ errors < MaxErrors
  /\ Goto(w, "apply", "failed")
  /\ sem' = IF UseQueue THEN sem + 1 ELSE sem
  /\ errors' = errors + 1
  /\ UNCHANGED <<queueVars, mu, logSeqNum, visibleSeqNum, batchVars, localVars,
                 memSeqs, synced, panicked, commits>>

-----------------------------------------------------------------------------
(***************************************************************************)
(* publish: the goroutine marks its batch applied and then dequeues and    *)
(* publishes whatever applied batches lead the queue, its own or others'.  *)
(* Without the queue it only raises visibleSeqNum for its own batch.       *)
(***************************************************************************)
Publish(w) ==
  /\ Goto(w, "publish", IF UseQueue THEN "load" ELSE "visload")
  /\ applied' = [applied EXCEPT ![w] = 1]
  /\ cur' = [cur EXCEPT ![w] = IF UseQueue THEN NULL ELSE w]
  /\ UNCHANGED <<queueVars, pipeVars, seq, cnt, wg, sync, commitErr, syncQueued,
                 pos, ptrs, vis, histVars>>

\* dequeue: load headTail; an empty queue ends the loop.
DequeueLoad(w) ==
  /\ Goto(w, "load", IF tail = head THEN "wait" ELSE "slot")
  /\ ptrs' = [ptrs EXCEPT ![w] = <<head, tail>>]
  /\ UNCHANGED <<queueVars, pipeVars, batchVars, pos, cur, vis, histVars>>

DequeueSlot(w) ==
  LET b == slots[Slot(ptrs[w][2])] IN
  /\ Goto(w, "slot", IF b = NULL THEN "wait" ELSE "applied")
  /\ cur' = [cur EXCEPT ![w] = b]
  /\ UNCHANGED <<queueVars, pipeVars, batchVars, pos, ptrs, vis, histVars>>

\* mutant: applied is not checked.
DequeueAny(w) ==
  /\ Goto(w, "applied", "cas")
  /\ UNCHANGED <<queueVars, pipeVars, batchVars, localVars, histVars>>

DequeueApplied(w) ==
  /\ Goto(w, "applied", IF applied[cur[w]] = 1 THEN "cas" ELSE "wait")
  /\ UNCHANGED <<queueVars, pipeVars, batchVars, localVars, histVars>>

DequeueCas(w) ==
  /\ IF ptrs[w] = <<head, tail>>
       THEN Goto(w, "cas", "clear") /\ tail' = tail + 1
       ELSE Goto(w, "cas", "load") /\ UNCHANGED tail
  /\ UNCHANGED <<head, slots, pipeVars, batchVars, localVars, histVars>>

DequeueClear(w) ==
  /\ Goto(w, "clear", "visload")
  /\ slots' = [slots EXCEPT ![Slot(ptrs[w][2])] = NULL]
  /\ UNCHANGED <<head, tail, pipeVars, batchVars, localVars, histVars>>

\* Where the publication of a batch ends: Done, or the return without a queue.
AfterPublish == IF UseQueue THEN "done" ELSE "wait"

VisibleLoad(w) ==
  /\ Goto(w, "visload",
          IF EndOf(cur[w]) <= visibleSeqNum THEN AfterPublish ELSE "viscas")
  /\ vis' = [vis EXCEPT ![w] = visibleSeqNum]
  /\ UNCHANGED <<queueVars, pipeVars, batchVars, pos, ptrs, cur, histVars>>

\* mutant: a lost compare-and-swap is not tried again.
VisibleCasOnce(w) ==
  /\ Goto(w, "viscas", AfterPublish)
  /\ visibleSeqNum' = IF visibleSeqNum = vis[w] THEN EndOf(cur[w]) ELSE visibleSeqNum
  /\ UNCHANGED <<queueVars, sem, mu, logSeqNum, batchVars, localVars, histVars>>

VisibleCas(w) ==
  /\ IF visibleSeqNum = vis[w]
       THEN /\ Goto(w, "viscas", AfterPublish)
            /\ visibleSeqNum' = EndOf(cur[w])
       ELSE /\ Goto(w, "viscas", "visload")
            /\ UNCHANGED visibleSeqNum
  /\ UNCHANGED <<queueVars, sem, mu, logSeqNum, batchVars, localVars, histVars>>

\* mutant: a goroutine publishes one batch and no more.
DoneOnce(w) ==
  /\ Goto(w, "done", "wait")
  /\ wg' = [wg EXCEPT ![cur[w]] = @ - 1]
  /\ UNCHANGED <<queueVars, pipeVars, seq, cnt, applied, sync, commitErr,
                 syncQueued, localVars, histVars>>

Done(w) ==
  /\ Goto(w, "done", "load")
  /\ wg' = [wg EXCEPT ![cur[w]] = @ - 1]
  /\ UNCHANGED <<queueVars, pipeVars, seq, cnt, applied, sync, commitErr,
                 syncQueued, localVars, histVars>>

\* commit.Wait ends: Commit returns commitErr and frees its semaphore slot.
Return(w) ==
  /\ wg[w] = 0
  /\ Goto(w, "wait", "idle")
  /\ sem' = IF UseQueue THEN sem + 1 ELSE sem
  /\ ptrs' = [ptrs EXCEPT ![w] = <<0, 0>>]        \* the locals go out of scope
  /\ cur' = [cur EXCEPT ![w] = NULL] /\ vis' = [vis EXCEPT ![w] = 0]
  /\ UNCHANGED <<queueVars, mu, logSeqNum, visibleSeqNum, batchVars, pos,
                 histVars>>

\* mutant: the error of the sync is dropped.
SyncDoneSilent(w) ==
  /\ w \in syncQueued
  /\ syncQueued' = syncQueued \ {w}
  /\ wg' = [wg EXCEPT ![w] = @ - 1]
  /\ synced' \in {synced, synced \cup {w}}
  /\ UNCHANGED <<queueVars, pipeVars, seq, cnt, applied, sync, commitErr, pc,
                 localVars, memSeqs, panicked, commits, errors>>

\* The LogWriter's flush loop: it syncs the record, or fails and stores the
\* error through syncErr, and then calls Done on the batch's WaitGroup.
SyncDone(w) ==
  /\ w \in syncQueued
  /\ syncQueued' = syncQueued \ {w}
  /\ wg' = [wg EXCEPT ![w] = @ - 1]
  /\ \/ synced' = synced \cup {w} /\ UNCHANGED commitErr
     \/ commitErr' = commitErr \cup {w} /\ UNCHANGED synced
  /\ UNCHANGED <<queueVars, pipeVars, seq, cnt, applied, sync, pc, localVars,
                 memSeqs, panicked, commits, errors>>

-----------------------------------------------------------------------------
Prepare(w) == \/ Lock(w) \/ EnqueueCheck(w) \/ EnqueueSpin(w)
              \/ EnqueueStore(w) \/ EnqueueAdvance(w)
              \/ Write(w) \/ WriteError(w)

Dequeue(w) == \/ DequeueLoad(w) \/ DequeueSlot(w) \/ DequeueApplied(w)
              \/ DequeueCas(w) \/ DequeueClear(w)

Step(w) == \/ Prepare(w) \/ Apply(w) \/ ApplyError(w) \/ Publish(w)
           \/ Dequeue(w) \/ VisibleLoad(w) \/ VisibleCas(w) \/ Done(w)
           \/ Return(w)

Next == \E w \in Writers : Commit(w) \/ Step(w) \/ SyncDone(w)

Spec == Init /\ [][Next]_vars

\* Goroutines inside Commit and the LogWriter's flush loop keep running; whether
\* a client calls Commit again is its own affair.
Fairness == \A w \in Writers : WF_vars(Step(w)) /\ WF_vars(SyncDone(w))

FairSpec == Spec /\ Fairness

-----------------------------------------------------------------------------
(***************************************************************************)
(* Properties                                                              *)
(***************************************************************************)

\* A reader that takes visibleSeqNum as its snapshot finds every batch below it
\* already in a memtable, although batches are applied concurrently and in any
\* order and are published by whichever goroutine dequeues them.
VisibleApplied == UseQueue => 1..(visibleSeqNum - 1) \subseteq memSeqs

\* No batch is published twice and no Done is called twice: the WaitGroup
\* counter never goes negative, although stale pointers to a reused Batch are
\* still in the hands of other dequeuing goroutines.
DoneAtMostOnce == \A w \in Writers : wg[w] >= 0

\* What publish only logs (commit.go:185-187) does not happen: a dequeued batch
\* is an applied one, although its object may have been reused between the
\* check in dequeue and the compare-and-swap.
DequeuedApplied ==
  \A d \in Writers :
    pc[d] \in {"clear", "visload", "viscas", "done"} => applied[cur[d]] = 1

\* No enqueued batch is lost: every position between tail and head holds the
\* batch enqueued there, although a consumer clears its slot only after it has
\* moved tail.
QueueKeepsBatches ==
  \A i \in tail..(head - 1) : /\ slots[Slot(i)] # NULL
                              /\ pos[slots[Slot(i)]] = i

Returns(w) == pc[w] = "wait" /\ pc'[w] = "idle"

\* Read your writes: when Commit returns, the batch is visible, also when
\* another goroutine published it.
ReturnsVisible ==
  [][\A w \in Writers : Returns(w) => EndOf(w) <= visibleSeqNum]_vars

\* A Commit with syncWAL that returns nil has its record on disk, whichever of
\* the publisher and the LogWriter calls the last Done.
ReturnsSynced ==
  [][\A w \in Writers : Returns(w) /\ w \in sync \ commitErr => w \in synced]_vars

\* visibleSeqNum never decreases, although goroutines that dequeued batches in
\* order race to store their ends.
VisibleMonotone == [][visibleSeqNum' >= visibleSeqNum]_vars

\* Every Commit returns as long as no write or apply fails: a goroutine that finds
\* the queue empty, cleared or blocked by an unapplied batch and goes to wait
\* leaves its own batch to somebody who will publish it.
CommitReturns ==
  \A w \in Writers : pc[w] = "lock" ~> (pc[w] = "idle" \/ errors > 0)

\* With the queue, the pipeline implements the contract of CommitOrder.
Order == INSTANCE CommitOrder
ImplementsOrder == Order!Spec
=============================================================================
