----------------------- MODULE CommitPipelineProofs -----------------------
(***************************************************************************)
(* Safety of the commit pipeline for every number of writers, slots and    *)
(* commits, with failing writes and applies included.                      *)
(***************************************************************************)
EXTENDS CommitPipeline, TLAPS

(***************************************************************************)
(* Where a batch is, by the label of its owner.                            *)
(***************************************************************************)
Preparing  == {"lock", "enqueue", "spin", "store", "advance", "write"}
Locked     == {"enqueue", "spin", "store", "advance", "write"}
Unapplied  == {"apply", "failed"}               \* numbered, not in a memtable
Publishing == {"load", "slot", "applied", "cas", "clear", "visload", "viscas",
               "done", "wait"}
Numbered   == {"apply", "failed", "publish", "load", "slot", "applied", "cas",
               "clear", "visload", "viscas", "done", "wait"}
Enqueued   == {"write", "apply", "failed", "publish", "load", "slot", "applied",
               "cas", "clear", "visload", "viscas", "done", "wait"}
Holding    == {"clear", "visload", "viscas", "done"}

\* Goroutine d has dequeued batch b and has not yet called its Done.
Holds(d, b) == pc[d] \in Holding /\ cur[d] = b

\* Batch b still waits for the Done of its publication.
NotDone(b) == \/ pc[b] \in Preparing
              \/ pc[b] \in Enqueued /\ tail <= pos[b]
              \/ \E d \in Writers : Holds(d, b)

\* Batch b still waits for the Done of the LogWriter.
NotSynced(b) == b \in syncQueued \/ (b \in sync /\ pc[b] \in Preparing)

(***************************************************************************)
(* The inductive invariant.                                                *)
(***************************************************************************)

\* The mutex: a goroutine between Lock and the end of write holds it.
MutexInv == \A w \in Writers : pc[w] \in Locked => mu = w

\* The producer: the slot at head is free once seen free, and then its own.
EnqueueInv ==
  /\ tail <= head /\ head <= tail + N
  /\ \A w \in Writers :
       /\ pc[w] \in {"spin", "store", "advance"} => pos[w] = head /\ head < tail + N
       /\ pc[w] = "store" => slots[Slot(pos[w])] = NULL
       /\ pc[w] = "advance" => slots[Slot(pos[w])] = w
       /\ pc[w] = "write" => pos[w] + 1 = head

\* The queue: positions are distinct, the slots from tail to head hold the
\* batches enqueued there, and an unapplied batch has not been dequeued.
QueueInv ==
  /\ \A w \in Writers : pc[w] \in Enqueued => pos[w] < head
  /\ \A w, v \in Writers :
       pc[w] \in Enqueued /\ pc[v] \in Enqueued /\ pos[w] = pos[v] => w = v
  /\ \A i \in Nat : tail <= i /\ i < head =>
       /\ slots[Slot(i)] \in Writers
       /\ pc[slots[Slot(i)]] \in Enqueued
       /\ pos[slots[Slot(i)]] = i
  /\ \A w \in Writers :
       /\ pc[w] \in Publishing => applied[w] = 1
       /\ pc[w] \in Enqueued /\ pc[w] \notin Publishing => applied[w] = 0 /\ tail <= pos[w]
       /\ pc[w] \in Preparing => applied[w] = 0

\* The consumers before the compare-and-swap: what they read is current as long
\* as tail has not moved.
DequeueInv ==
  \A d \in Writers :
    /\ pc[d] \in {"slot", "applied", "cas"} => ptrs[d][2] <= tail /\ ptrs[d][2] < head
    /\ pc[d] \in {"applied", "cas"} =>
         /\ cur[d] \in Writers
         /\ ptrs[d][2] = tail => pc[cur[d]] \in Enqueued /\ pos[cur[d]] = tail
    /\ pc[d] = "cas" /\ ptrs[d][2] = tail => applied[cur[d]] = 1

\* The consumers after it: each holds a batch nobody else holds.
HoldInv ==
  /\ \A d \in Writers : pc[d] \in Holding =>
       /\ cur[d] \in Writers
       /\ pc[cur[d]] \in Publishing
       /\ pos[cur[d]] = ptrs[d][2]
       /\ ptrs[d][2] < tail
       /\ pc[d] = "clear" => slots[Slot(ptrs[d][2])] = cur[d]
  /\ \A d, e \in Writers :
       pc[d] \in Holding /\ pc[e] \in Holding /\ cur[d] = cur[e] => d = e

\* The WaitGroup counts the Dones a batch still waits for.
WaitInv ==
  /\ \A b \in Writers :
       /\ wg[b] >= 0
       /\ NotSynced(b) => wg[b] >= 1
       /\ NotDone(b) => wg[b] >= 1
       /\ NotDone(b) /\ NotSynced(b) => wg[b] >= 2
       /\ pc[b] \in Preparing \/ pc[b] = "idle" => b \notin syncQueued

\* A batch that asked for a sync waits for it, has it, or has the error.
SyncInv ==
  \A b \in Writers :
    pc[b] \in Numbered /\ b \in sync =>
      b \in syncQueued \cup commitErr \cup synced \/ pc[b] = "failed"

\* Sequence numbers follow queue positions, and the numbers handed out are in a
\* memtable or belong to an unapplied batch.
NumberInv ==
  /\ \A w \in Writers : pc[w] \in Preparing \/ pc[w] \in Numbered => cnt[w] \in Counts
  /\ \A w \in Writers : pc[w] \in Numbered =>
       1 <= seq[w] /\ EndOf(w) <= logSeqNum
  /\ \A w, v \in Writers :
       pc[w] \in Numbered /\ pc[v] \in Numbered /\ pos[w] < pos[v] =>
         EndOf(w) <= seq[v]
  /\ \A s \in Nat : s \in memSeqs => 1 <= s /\ s < logSeqNum
  /\ \A w \in Writers, s \in memSeqs :
       pc[w] \in Unapplied => s < seq[w] \/ EndOf(w) <= s
  /\ \A s \in Nat : 1 <= s /\ s < logSeqNum =>
       \/ s \in memSeqs
       \/ \E w \in Writers : pc[w] \in Unapplied /\ seq[w] <= s /\ s < EndOf(w)

\* Visibility: only applied numbers are visible, and a batch whose publication
\* is done is.
VisibleInv ==
  /\ 1 <= visibleSeqNum /\ visibleSeqNum <= logSeqNum
  /\ \A s \in Nat : 1 <= s /\ s < visibleSeqNum => s \in memSeqs
  /\ \A d \in Writers :
       /\ pc[d] = "viscas" => vis[d] < EndOf(cur[d])
       /\ pc[d] = "done" => EndOf(cur[d]) <= visibleSeqNum
  /\ \A b \in Writers :
       pc[b] \in Publishing /\ ~NotDone(b) => EndOf(b) <= visibleSeqNum

IInv ==
  /\ TypeOK
  /\ MutexInv
  /\ EnqueueInv
  /\ QueueInv
  /\ DequeueInv
  /\ HoldInv
  /\ WaitInv
  /\ SyncInv
  /\ NumberInv
  /\ VisibleInv



-----------------------------------------------------------------------------
(***************************************************************************)
(* Slots.                                                                  *)
(***************************************************************************)

\* A position of the queue selects one of its slots (commit.go:52, 71).
LEMMA SlotType == \A i \in Nat : Slot(i) \in 0..(N - 1)
BY NAssumption DEF Slot

\* Positions less than N apart select different slots.
LEMMA SlotInjective ==
  \A i, j \in Nat : i < j /\ j < i + N => Slot(i) # Slot(j)
<1> SUFFICES ASSUME NEW i \in Nat, NEW j \in Nat, i < j, j < i + N, i % N = j % N
             PROVE  FALSE
  BY DEF Slot
<1> DEFINE p == i \div N
           q == j \div N
<1>1. p \in Int /\ q \in Int /\ i = N * p + (i % N) /\ j = N * q + (j % N)
  BY NAssumption
<1>2. j - i = N * (q - p)
  BY <1>1, NAssumption
<1>3. CASE q - p >= 1
  BY <1>1, <1>2, <1>3, NAssumption
<1>4. CASE q - p <= 0
  BY <1>1, <1>2, <1>4, NAssumption
<1> QED BY <1>1, <1>3, <1>4

(***************************************************************************)
(* One lemma per action: it preserves the inductive invariant.  In each,   *)
(* <1>2 and <1>3 say how the goroutine moves between the label classes,    *)
(* <1>4 what the action leaves alone and <1>5 what it changes.             *)
(***************************************************************************)

\* Commit arms the WaitGroup before anybody can reach the batch
\* (commit.go:113-118, 145-157).
LEMMA CommitStep ==
  ASSUME IInv, UseQueue, NEW w \in Writers, Commit(w)
  PROVE  IInv'
<1>1. /\ TypeOK /\ MutexInv /\ EnqueueInv /\ QueueInv /\ DequeueInv
      /\ HoldInv /\ WaitInv /\ SyncInv /\ NumberInv /\ VisibleInv
  BY DEF IInv
<1>2. /\ pc[w] = "idle" /\ pc'[w] = "lock" /\ pc' \in [Writers -> Labels]
      /\ (\A v \in Writers : v # w => pc'[v] = pc[v])
  BY <1>1 DEF Commit, TypeOK, Goto, Labels
<1>3. /\ pc[w] \notin Preparing /\ pc'[w] \in Preparing
      /\ pc[w] \notin Locked /\ pc[w] \notin Unapplied
      /\ pc[w] \notin Publishing /\ pc[w] \notin Numbered
      /\ pc[w] \notin Enqueued /\ pc[w] \notin Holding
      /\ \A v \in Writers :
           /\ pc'[v] \in Locked <=> pc[v] \in Locked
           /\ pc'[v] \in Unapplied <=> pc[v] \in Unapplied
           /\ pc'[v] \in Publishing <=> pc[v] \in Publishing
           /\ pc'[v] \in Numbered <=> pc[v] \in Numbered
           /\ pc'[v] \in Enqueued <=> pc[v] \in Enqueued
           /\ pc'[v] \in Holding <=> pc[v] \in Holding
  BY <1>2 DEF Preparing, Locked, Unapplied, Publishing, Numbered, Enqueued,
     Holding
<1>4. /\ head' = head /\ tail' = tail /\ slots' = slots /\ mu' = mu
      /\ logSeqNum' = logSeqNum /\ visibleSeqNum' = visibleSeqNum
      /\ seq' = seq /\ syncQueued' = syncQueued /\ pos' = pos
      /\ ptrs' = ptrs /\ cur' = cur /\ vis' = vis /\ memSeqs' = memSeqs
      /\ panicked' = panicked /\ errors' = errors
  BY DEF Commit, queueVars, pipeVars, batchVars, localVars, histVars
<1>5. /\ applied'[w] = 0
      /\ (\A v \in Writers : v # w => applied'[v] = applied[v])
      /\ cnt'[w] \in Counts
      /\ (\A v \in Writers : v # w => cnt'[v] = cnt[v])
      /\ wg'[w] >= 1
      /\ (\A v \in Writers : v # w => wg'[v] = wg[v])
      /\ (w \in sync' => wg'[w] >= 2)
      /\ (\A v \in Writers : v # w => (v \in sync' <=> v \in sync))
      /\ commitErr' = commitErr \ {w} /\ synced' = synced \ {w}
  <2>1. wg[w] \in Int /\ wg[w] >= 0
    BY <1>1 DEF TypeOK, WaitInv
  <2>2. wg'[w] >= 1 /\ (w \in sync' => wg'[w] >= 2)
    BY <1>1, <2>1 DEF Commit, TypeOK
  <2>3. \A v \in Writers : v # w => wg'[v] = wg[v] /\ (v \in sync' <=> v \in sync)
    BY <1>1 DEF Commit, TypeOK
  <2>4. cnt'[w] \in Counts /\ \A v \in Writers : v # w => cnt'[v] = cnt[v]
    BY <1>1 DEF Commit, TypeOK
  <2>5. /\ commitErr' = commitErr \ {w} /\ synced' = synced \ {w}
        /\ applied'[w] = 0
        /\ \A v \in Writers : v # w => applied'[v] = applied[v]
    BY <1>1 DEF Commit, TypeOK
  <2> QED
    BY <2>2, <2>3, <2>4, <2>5
<1>6. /\ head \in Nat /\ tail \in Nat /\ logSeqNum \in Nat /\ visibleSeqNum \in Nat
      /\ \A v \in Writers : /\ pos[v] \in Nat /\ seq[v] \in Nat /\ cnt[v] \in Nat
                           /\ wg[v] \in Int /\ vis[v] \in Nat /\ ptrs[v][2] \in Nat
  BY <1>1 DEF TypeOK
<1>7. TypeOK'
  <2>1. cnt' \in [Writers -> Nat]
    BY <1>1, CountsAssumption DEF Commit, TypeOK
  <2>2. sync' \subseteq Writers
    BY <1>1, CountsAssumption DEF Commit, TypeOK
  <2>3. wg' \in [Writers -> Int]
    BY <1>1, CountsAssumption DEF Commit, TypeOK
  <2>4. applied' \in [Writers -> {0, 1}]
    BY <1>1, CountsAssumption DEF Commit, TypeOK
  <2>5. commitErr' \subseteq Writers
    BY <1>1, CountsAssumption DEF Commit, TypeOK
  <2>6. synced' \subseteq Writers
    BY <1>1, CountsAssumption DEF Commit, TypeOK
  <2>7. sem' \in Int
    BY <1>1, CountsAssumption DEF Commit, TypeOK
  <2>8. commits' \in Nat
    BY <1>1, CountsAssumption DEF Commit, TypeOK
  <2> QED
    BY <1>1, <1>2, <1>4, <2>1, <2>2, <2>3, <2>4, <2>5, <2>6, <2>7, <2>8 DEF
       TypeOK
<1>8. /\ MutexInv' /\ EnqueueInv' /\ HoldInv'
  BY <1>1, <1>2, <1>3, <1>4 DEF MutexInv, EnqueueInv, HoldInv
<1>9. QueueInv'
  BY <1>1, <1>2, <1>3, <1>4, <1>5, <1>6 DEF QueueInv
<1>10. DequeueInv'
  BY <1>1, <1>2, <1>3, <1>4, <1>5, <1>6 DEF DequeueInv
<1>11. WaitInv'
  <2>1. \A b \in Writers : b # w => (NotDone(b)' <=> NotDone(b))
    BY <1>1, <1>2, <1>3, <1>4, <1>5, <1>6 DEF NotDone, Holds
  <2>2. \A b \in Writers : b # w => (NotSynced(b)' <=> NotSynced(b))
    BY <1>2, <1>4, <1>5 DEF NotSynced
  <2>3. w \notin syncQueued' /\ (NotSynced(w)' <=> w \in sync')
    BY <1>1, <1>2, <1>3, <1>4 DEF NotSynced, WaitInv
  <2>4. wg'[w] \in Int
    BY <1>7 DEF TypeOK
  <2> QED
    BY <1>1, <1>2, <1>4, <1>5, <1>6, <2>1, <2>2, <2>3, <2>4 DEF WaitInv
<1>12. SyncInv'
  BY <1>1, <1>2, <1>3, <1>4, <1>5, <1>6 DEF SyncInv
<1>13. NumberInv'
  BY <1>1, <1>2, <1>3, <1>4, <1>5, <1>6 DEF NumberInv, EndOf
<1>14. VisibleInv'
  <2>1. \A b \in Writers : b # w => (NotDone(b)' <=> NotDone(b))
    BY <1>1, <1>2, <1>3, <1>4, <1>5, <1>6 DEF NotDone, Holds
  <2> QED
    BY <1>1, <1>2, <1>3, <1>4, <1>5, <1>6, <2>1 DEF VisibleInv, EndOf, HoldInv,
       Holding
<1> QED
  BY <1>7, <1>8, <1>9, <1>10, <1>11, <1>12, <1>13, <1>14 DEF IInv

\* Lock: one goroutine prepares at a time (commit.go:159).
LEMMA LockStep ==
  ASSUME IInv, UseQueue, NEW w \in Writers, Lock(w)
  PROVE  IInv'
<1>1. /\ TypeOK /\ MutexInv /\ EnqueueInv /\ QueueInv /\ DequeueInv
      /\ HoldInv /\ WaitInv /\ SyncInv /\ NumberInv /\ VisibleInv
  BY DEF IInv
<1>2. /\ pc[w] = "lock" /\ pc'[w] = "enqueue" /\ pc' \in [Writers -> Labels]
      /\ (\A v \in Writers : v # w => pc'[v] = pc[v])
  BY <1>1 DEF Lock, TypeOK, Goto, Labels
<1>3. /\ pc[w] \in Preparing /\ pc[w] \notin Locked /\ pc'[w] \in Locked
      /\ pc[w] \notin Unapplied /\ pc[w] \notin Publishing
      /\ pc[w] \notin Numbered /\ pc[w] \notin Enqueued
      /\ pc[w] \notin Holding
      /\ \A v \in Writers :
           /\ pc'[v] \in Preparing <=> pc[v] \in Preparing
           /\ pc'[v] \in Unapplied <=> pc[v] \in Unapplied
           /\ pc'[v] \in Publishing <=> pc[v] \in Publishing
           /\ pc'[v] \in Numbered <=> pc[v] \in Numbered
           /\ pc'[v] \in Enqueued <=> pc[v] \in Enqueued
           /\ pc'[v] \in Holding <=> pc[v] \in Holding
  BY <1>2 DEF Preparing, Locked, Unapplied, Publishing, Numbered, Enqueued,
     Holding
<1>4. /\ head' = head /\ tail' = tail /\ slots' = slots /\ sem' = sem
      /\ logSeqNum' = logSeqNum /\ visibleSeqNum' = visibleSeqNum
      /\ seq' = seq /\ cnt' = cnt /\ applied' = applied /\ wg' = wg
      /\ sync' = sync /\ commitErr' = commitErr /\ syncQueued' = syncQueued
      /\ pos' = pos /\ ptrs' = ptrs /\ cur' = cur /\ vis' = vis
      /\ memSeqs' = memSeqs /\ synced' = synced /\ panicked' = panicked
      /\ commits' = commits /\ errors' = errors
  BY DEF Lock, queueVars, pipeVars, batchVars, localVars, histVars
<1>5. /\ mu = NULL /\ mu' = w
  BY <1>1, <1>2 DEF Lock, TypeOK
<1>6. /\ head \in Nat /\ tail \in Nat /\ logSeqNum \in Nat /\ visibleSeqNum \in Nat
      /\ \A v \in Writers : /\ pos[v] \in Nat /\ seq[v] \in Nat /\ cnt[v] \in Nat
                           /\ wg[v] \in Int /\ vis[v] \in Nat /\ ptrs[v][2] \in Nat
  BY <1>1 DEF TypeOK
<1>7. TypeOK'
  <2>1. /\ mu' \in Writers \cup {NULL}
    BY <1>1 DEF Lock, TypeOK
  <2> QED
    BY <1>1, <1>2, <1>4, <2>1 DEF TypeOK
<1>8. /\ EnqueueInv' /\ QueueInv' /\ DequeueInv' /\ HoldInv' /\ WaitInv'
      /\ SyncInv' /\ NumberInv' /\ VisibleInv'
  BY <1>1, <1>2, <1>3, <1>4 DEF EnqueueInv, QueueInv, DequeueInv, HoldInv,
     WaitInv, NotDone, NotSynced, Holds, SyncInv, NumberInv, EndOf, VisibleInv
<1>9. MutexInv'
  BY <1>1, <1>2, <1>3, <1>4, <1>5, <1>6, WritersAssumption DEF MutexInv
<1> QED
  BY <1>7, <1>8, <1>9 DEF IInv

\* The producer sees its slot free (commit.go:54-56); nobody fills it
\* meanwhile.
LEMMA EnqueueSpinStep ==
  ASSUME IInv, UseQueue, NEW w \in Writers, EnqueueSpin(w)
  PROVE  IInv'
<1>1. /\ TypeOK /\ MutexInv /\ EnqueueInv /\ QueueInv /\ DequeueInv
      /\ HoldInv /\ WaitInv /\ SyncInv /\ NumberInv /\ VisibleInv
  BY DEF IInv
<1>2. /\ pc[w] = "spin" /\ pc'[w] = "store" /\ pc' \in [Writers -> Labels]
      /\ (\A v \in Writers : v # w => pc'[v] = pc[v])
  BY <1>1 DEF EnqueueSpin, TypeOK, Goto, Labels
<1>3. /\ pc[w] \in Preparing /\ pc[w] \in Locked /\ pc[w] \notin Unapplied
      /\ pc[w] \notin Publishing /\ pc[w] \notin Numbered
      /\ pc[w] \notin Enqueued /\ pc[w] \notin Holding
      /\ \A v \in Writers :
           /\ pc'[v] \in Preparing <=> pc[v] \in Preparing
           /\ pc'[v] \in Locked <=> pc[v] \in Locked
           /\ pc'[v] \in Unapplied <=> pc[v] \in Unapplied
           /\ pc'[v] \in Publishing <=> pc[v] \in Publishing
           /\ pc'[v] \in Numbered <=> pc[v] \in Numbered
           /\ pc'[v] \in Enqueued <=> pc[v] \in Enqueued
           /\ pc'[v] \in Holding <=> pc[v] \in Holding
  BY <1>2 DEF Preparing, Locked, Unapplied, Publishing, Numbered, Enqueued,
     Holding
<1>4. /\ head' = head /\ tail' = tail /\ slots' = slots /\ sem' = sem
      /\ mu' = mu /\ logSeqNum' = logSeqNum
      /\ visibleSeqNum' = visibleSeqNum /\ seq' = seq /\ cnt' = cnt
      /\ applied' = applied /\ wg' = wg /\ sync' = sync
      /\ commitErr' = commitErr /\ syncQueued' = syncQueued /\ pos' = pos
      /\ ptrs' = ptrs /\ cur' = cur /\ vis' = vis /\ memSeqs' = memSeqs
      /\ synced' = synced /\ panicked' = panicked /\ commits' = commits
      /\ errors' = errors
  BY DEF EnqueueSpin, queueVars, pipeVars, batchVars, localVars, histVars
<1>5. /\ slots[Slot(pos[w])] = NULL
  BY <1>1, <1>2, SlotType DEF EnqueueSpin, TypeOK
<1>6. /\ head \in Nat /\ tail \in Nat /\ logSeqNum \in Nat /\ visibleSeqNum \in Nat
      /\ \A v \in Writers : /\ pos[v] \in Nat /\ seq[v] \in Nat /\ cnt[v] \in Nat
                           /\ wg[v] \in Int /\ vis[v] \in Nat /\ ptrs[v][2] \in Nat
  BY <1>1 DEF TypeOK
<1>7. TypeOK'
  BY <1>1, <1>2, <1>4 DEF TypeOK
<1>8. /\ MutexInv' /\ QueueInv' /\ DequeueInv' /\ HoldInv' /\ WaitInv'
      /\ SyncInv' /\ NumberInv' /\ VisibleInv'
  BY <1>1, <1>2, <1>3, <1>4 DEF MutexInv, QueueInv, DequeueInv, HoldInv,
     WaitInv, NotDone, NotSynced, Holds, SyncInv, NumberInv, EndOf, VisibleInv
<1>9. EnqueueInv'
  BY <1>1, <1>2, <1>3, <1>4, <1>5, <1>6 DEF EnqueueInv
<1> QED
  BY <1>7, <1>8, <1>9 DEF IInv

\* The producer fills the free slot (commit.go:58), which no consumer reads
\* yet.
LEMMA EnqueueStoreStep ==
  ASSUME IInv, UseQueue, NEW w \in Writers, EnqueueStore(w)
  PROVE  IInv'
<1>1. /\ TypeOK /\ MutexInv /\ EnqueueInv /\ QueueInv /\ DequeueInv
      /\ HoldInv /\ WaitInv /\ SyncInv /\ NumberInv /\ VisibleInv
  BY DEF IInv
<1>2. /\ pc[w] = "store" /\ pc'[w] = "advance"
      /\ pc' \in [Writers -> Labels]
      /\ (\A v \in Writers : v # w => pc'[v] = pc[v])
  BY <1>1 DEF EnqueueStore, TypeOK, Goto, Labels
<1>3. /\ pc[w] \in Preparing /\ pc[w] \in Locked /\ pc[w] \notin Unapplied
      /\ pc[w] \notin Publishing /\ pc[w] \notin Numbered
      /\ pc[w] \notin Enqueued /\ pc[w] \notin Holding
      /\ \A v \in Writers :
           /\ pc'[v] \in Preparing <=> pc[v] \in Preparing
           /\ pc'[v] \in Locked <=> pc[v] \in Locked
           /\ pc'[v] \in Unapplied <=> pc[v] \in Unapplied
           /\ pc'[v] \in Publishing <=> pc[v] \in Publishing
           /\ pc'[v] \in Numbered <=> pc[v] \in Numbered
           /\ pc'[v] \in Enqueued <=> pc[v] \in Enqueued
           /\ pc'[v] \in Holding <=> pc[v] \in Holding
  BY <1>2 DEF Preparing, Locked, Unapplied, Publishing, Numbered, Enqueued,
     Holding
<1>4. /\ head' = head /\ tail' = tail /\ sem' = sem /\ mu' = mu
      /\ logSeqNum' = logSeqNum /\ visibleSeqNum' = visibleSeqNum
      /\ seq' = seq /\ cnt' = cnt /\ applied' = applied /\ wg' = wg
      /\ sync' = sync /\ commitErr' = commitErr /\ syncQueued' = syncQueued
      /\ pos' = pos /\ ptrs' = ptrs /\ cur' = cur /\ vis' = vis
      /\ memSeqs' = memSeqs /\ synced' = synced /\ panicked' = panicked
      /\ commits' = commits /\ errors' = errors
  BY DEF EnqueueStore, queueVars, pipeVars, batchVars, localVars, histVars
<1>5. /\ slots'[Slot(pos[w])] = w
      /\ (\A i \in 0..(N - 1) : i # Slot(pos[w]) => slots'[i] = slots[i])
  BY <1>1, <1>2, SlotType DEF EnqueueStore, TypeOK
<1>6. /\ head \in Nat /\ tail \in Nat /\ logSeqNum \in Nat /\ visibleSeqNum \in Nat
      /\ \A v \in Writers : /\ pos[v] \in Nat /\ seq[v] \in Nat /\ cnt[v] \in Nat
                           /\ wg[v] \in Int /\ vis[v] \in Nat /\ ptrs[v][2] \in Nat
  BY <1>1 DEF TypeOK
<1>7. TypeOK'
  <2>1. /\ slots' \in [0..(N - 1) -> Writers \cup {NULL}]
    BY <1>1 DEF EnqueueStore, TypeOK
  <2> QED
    BY <1>1, <1>2, <1>4, <2>1 DEF TypeOK
<1>8. /\ MutexInv' /\ DequeueInv' /\ WaitInv' /\ SyncInv' /\ NumberInv'
      /\ VisibleInv'
  BY <1>1, <1>2, <1>3, <1>4 DEF MutexInv, DequeueInv, WaitInv, NotDone,
     NotSynced, Holds, SyncInv, NumberInv, EndOf, VisibleInv
<1>9. EnqueueInv'
  BY <1>1, <1>2, <1>3, <1>4, <1>5, <1>6 DEF EnqueueInv, MutexInv, Locked
<1>10. QueueInv'
  <2>1. \A i \in Nat : tail <= i /\ i < head => slots'[Slot(i)] = slots[Slot(i)]
    BY <1>1, <1>2, <1>3, <1>4, <1>5, <1>6, SlotType, SlotInjective, NAssumption
       DEF EnqueueInv
  <2> QED
    BY <1>1, <1>2, <1>3, <1>4, <1>5, <1>6, <2>1 DEF QueueInv
<1>11. HoldInv'
  BY <1>1, <1>2, <1>3, <1>4, <1>5, <1>6, SlotType, WritersAssumption DEF
     HoldInv, EnqueueInv
<1> QED
  BY <1>7, <1>8, <1>9, <1>10, <1>11 DEF IInv

\* The producer moves head over its batch (commit.go:60).
LEMMA EnqueueAdvanceStep ==
  ASSUME IInv, UseQueue, NEW w \in Writers, EnqueueAdvance(w)
  PROVE  IInv'
<1>1. /\ TypeOK /\ MutexInv /\ EnqueueInv /\ QueueInv /\ DequeueInv
      /\ HoldInv /\ WaitInv /\ SyncInv /\ NumberInv /\ VisibleInv
  BY DEF IInv
<1>2. /\ pc[w] = "advance" /\ pc'[w] = "write"
      /\ pc' \in [Writers -> Labels]
      /\ (\A v \in Writers : v # w => pc'[v] = pc[v])
  BY <1>1 DEF EnqueueAdvance, TypeOK, Goto, Labels
<1>3. /\ pc[w] \in Preparing /\ pc[w] \in Locked /\ pc[w] \notin Unapplied
      /\ pc[w] \notin Publishing /\ pc[w] \notin Numbered
      /\ pc[w] \notin Enqueued /\ pc'[w] \in Enqueued
      /\ pc[w] \notin Holding
      /\ \A v \in Writers :
           /\ pc'[v] \in Preparing <=> pc[v] \in Preparing
           /\ pc'[v] \in Locked <=> pc[v] \in Locked
           /\ pc'[v] \in Unapplied <=> pc[v] \in Unapplied
           /\ pc'[v] \in Publishing <=> pc[v] \in Publishing
           /\ pc'[v] \in Numbered <=> pc[v] \in Numbered
           /\ pc'[v] \in Holding <=> pc[v] \in Holding
  BY <1>2 DEF Preparing, Locked, Unapplied, Publishing, Numbered, Enqueued,
     Holding
<1>4. /\ tail' = tail /\ slots' = slots /\ sem' = sem /\ mu' = mu
      /\ logSeqNum' = logSeqNum /\ visibleSeqNum' = visibleSeqNum
      /\ seq' = seq /\ cnt' = cnt /\ applied' = applied /\ wg' = wg
      /\ sync' = sync /\ commitErr' = commitErr /\ syncQueued' = syncQueued
      /\ pos' = pos /\ ptrs' = ptrs /\ cur' = cur /\ vis' = vis
      /\ memSeqs' = memSeqs /\ synced' = synced /\ panicked' = panicked
      /\ commits' = commits /\ errors' = errors
  BY DEF EnqueueAdvance, queueVars, pipeVars, batchVars, localVars, histVars
<1>5. /\ head' = head + 1
  BY <1>1, <1>2 DEF EnqueueAdvance, TypeOK
<1>6. /\ head \in Nat /\ tail \in Nat /\ logSeqNum \in Nat /\ visibleSeqNum \in Nat
      /\ \A v \in Writers : /\ pos[v] \in Nat /\ seq[v] \in Nat /\ cnt[v] \in Nat
                           /\ wg[v] \in Int /\ vis[v] \in Nat /\ ptrs[v][2] \in Nat
  BY <1>1 DEF TypeOK
<1>7. TypeOK'
  <2>1. /\ head' \in Nat
    BY <1>1 DEF EnqueueAdvance, TypeOK
  <2> QED
    BY <1>1, <1>2, <1>4, <2>1 DEF TypeOK
<1>8. /\ MutexInv' /\ HoldInv' /\ SyncInv' /\ NumberInv'
  BY <1>1, <1>2, <1>3, <1>4 DEF MutexInv, HoldInv, SyncInv, NumberInv, EndOf
<1>9. EnqueueInv'
  BY <1>1, <1>2, <1>3, <1>4, <1>5, <1>6, NAssumption DEF EnqueueInv, MutexInv,
     Locked
<1>10. QueueInv'
  BY <1>1, <1>2, <1>3, <1>4, <1>5, <1>6 DEF QueueInv, EnqueueInv
<1>11. DequeueInv'
  BY <1>1, <1>2, <1>3, <1>4, <1>5, <1>6 DEF DequeueInv
<1>12. WaitInv'
  <2>1. \A b \in Writers : NotDone(b)' <=> NotDone(b)
    BY <1>1, <1>2, <1>3, <1>4, <1>5, <1>6 DEF NotDone, Holds
  <2> QED
    BY <1>1, <1>2, <1>3, <1>4, <1>5, <1>6, <2>1 DEF WaitInv, NotSynced
<1>13. VisibleInv'
  <2>1. \A b \in Writers : NotDone(b)' <=> NotDone(b)
    BY <1>1, <1>2, <1>3, <1>4, <1>5, <1>6 DEF NotDone, Holds
  <2> QED
    BY <1>1, <1>2, <1>3, <1>4, <1>5, <1>6, <2>1 DEF VisibleInv, EndOf, Holding
<1> QED
  BY <1>7, <1>8, <1>9, <1>10, <1>11, <1>12, <1>13 DEF IInv

\* prepare numbers the batch in queue order and queues its record
\* (commit.go:165-169).
LEMMA WriteStep ==
  ASSUME IInv, UseQueue, NEW w \in Writers, Write(w)
  PROVE  IInv'
<1>1. /\ TypeOK /\ MutexInv /\ EnqueueInv /\ QueueInv /\ DequeueInv
      /\ HoldInv /\ WaitInv /\ SyncInv /\ NumberInv /\ VisibleInv
  BY DEF IInv
<1>2. /\ pc[w] = "write" /\ pc'[w] = "apply" /\ pc' \in [Writers -> Labels]
      /\ (\A v \in Writers : v # w => pc'[v] = pc[v])
  BY <1>1 DEF Write, TypeOK, Goto, Labels
<1>3. /\ pc[w] \in Preparing /\ pc'[w] \notin Preparing /\ pc[w] \in Locked
      /\ pc'[w] \notin Locked /\ pc[w] \notin Unapplied
      /\ pc'[w] \in Unapplied /\ pc[w] \notin Publishing
      /\ pc[w] \notin Numbered /\ pc'[w] \in Numbered /\ pc[w] \in Enqueued
      /\ pc[w] \notin Holding
      /\ \A v \in Writers :
           /\ pc'[v] \in Publishing <=> pc[v] \in Publishing
           /\ pc'[v] \in Enqueued <=> pc[v] \in Enqueued
           /\ pc'[v] \in Holding <=> pc[v] \in Holding
  BY <1>2 DEF Preparing, Locked, Unapplied, Publishing, Numbered, Enqueued,
     Holding
<1>4. /\ head' = head /\ tail' = tail /\ slots' = slots /\ sem' = sem
      /\ visibleSeqNum' = visibleSeqNum /\ cnt' = cnt /\ applied' = applied
      /\ wg' = wg /\ sync' = sync /\ commitErr' = commitErr /\ pos' = pos
      /\ ptrs' = ptrs /\ cur' = cur /\ vis' = vis /\ memSeqs' = memSeqs
      /\ synced' = synced /\ panicked' = panicked /\ commits' = commits
      /\ errors' = errors
  BY DEF Write, queueVars, pipeVars, batchVars, localVars, histVars
<1>5. /\ seq'[w] = logSeqNum
      /\ (\A v \in Writers : v # w => seq'[v] = seq[v])
      /\ logSeqNum' = logSeqNum + cnt[w]
      /\ syncQueued' = syncQueued \cup (sync \cap {w}) /\ mu' = NULL
  BY <1>1, <1>2 DEF Write, TypeOK
<1>6. /\ head \in Nat /\ tail \in Nat /\ logSeqNum \in Nat /\ visibleSeqNum \in Nat
      /\ \A v \in Writers : /\ pos[v] \in Nat /\ seq[v] \in Nat /\ cnt[v] \in Nat
                           /\ wg[v] \in Int /\ vis[v] \in Nat /\ ptrs[v][2] \in Nat
  BY <1>1 DEF TypeOK
<1>7. TypeOK'
  <2>1. seq' \in [Writers -> Nat]
    BY <1>1 DEF Write, TypeOK
  <2>2. logSeqNum' \in Nat
    BY <1>5, <1>6
  <2>3. syncQueued' \subseteq Writers
    BY <1>1 DEF Write, TypeOK
  <2>4. mu' \in Writers \cup {NULL}
    BY <1>1 DEF Write, TypeOK
  <2> QED
    BY <1>1, <1>2, <1>4, <2>1, <2>2, <2>3, <2>4 DEF TypeOK
<1>8. /\ DequeueInv' /\ HoldInv'
  BY <1>1, <1>2, <1>3, <1>4 DEF DequeueInv, HoldInv
<1>9. MutexInv'
  BY <1>1, <1>2, <1>3, <1>4, <1>5, <1>6 DEF MutexInv
<1>10. EnqueueInv'
  BY <1>1, <1>2, <1>3, <1>4, <1>5, <1>6 DEF EnqueueInv
<1>11. QueueInv'
  BY <1>1, <1>2, <1>3, <1>4, <1>5, <1>6 DEF QueueInv
<1>12. WaitInv'
  <2>1. tail <= pos[w]
    BY <1>1, <1>3 DEF QueueInv
  <2>2. \A b \in Writers : NotDone(b)' <=> NotDone(b)
    BY <1>2, <1>3, <1>4, <2>1 DEF NotDone, Holds
  <2> QED
    BY <1>1, <1>2, <1>3, <1>4, <1>5, <1>6, <2>2 DEF WaitInv, NotSynced
<1>13. SyncInv'
  BY <1>1, <1>2, <1>3, <1>4, <1>5, <1>6 DEF SyncInv
<1>14. NumberInv'
  <2>1. cnt[w] \in Nat /\ cnt[w] > 0 /\ 1 <= logSeqNum
    BY <1>1, <1>3, <1>6, CountsAssumption DEF NumberInv, VisibleInv
  <2>2. \A v \in Writers : pc[v] \in Numbered => pos[v] <= pos[w]
    <3>1. \A v \in Writers : pc[v] \in Numbered => pc[v] \in Enqueued
      BY DEF Numbered, Enqueued
    <3> QED
      BY <1>1, <1>2, <1>6, <3>1 DEF QueueInv, EnqueueInv
  <2>3. EndOf(w)' = logSeqNum' /\ \A v \in Writers : v # w => EndOf(v)' = EndOf(v)
    BY <1>4, <1>5, <1>6, <2>1 DEF EndOf
  <2>4. \A v \in Writers : /\ pc'[v] \in Preparing \/ pc'[v] \in Numbered => cnt'[v] \in Counts
                           /\ pc'[v] \in Numbered => 1 <= seq'[v] /\ EndOf(v)' <= logSeqNum'
    BY <1>1, <1>2, <1>3, <1>4, <1>5, <1>6, <2>1, <2>3 DEF NumberInv, EndOf
  <2>5. \A u, v \in Writers :
          pc'[u] \in Numbered /\ pc'[v] \in Numbered /\ pos'[u] < pos'[v] =>
            EndOf(u)' <= seq'[v]
    BY <1>1, <1>2, <1>3, <1>4, <1>5, <1>6, <2>2, <2>3 DEF NumberInv, EndOf
  <2>6. /\ \A s \in Nat : s \in memSeqs' => 1 <= s /\ s < logSeqNum'
        /\ \A v \in Writers, s \in memSeqs' :
             pc'[v] \in Unapplied => s < seq'[v] \/ EndOf(v)' <= s
    <3>1. memSeqs \subseteq Nat
      BY <1>1 DEF TypeOK
    <3> QED
      BY <1>1, <1>2, <1>3, <1>4, <1>5, <1>6, <2>1, <2>3, <3>1 DEF NumberInv
  <2>7. \A s \in Nat : 1 <= s /\ s < logSeqNum' =>
          \/ s \in memSeqs'
          \/ \E v \in Writers : pc'[v] \in Unapplied /\ seq'[v] <= s /\ s < EndOf(v)'
    BY <1>1, <1>2, <1>3, <1>4, <1>5, <1>6, <2>1, <2>3 DEF NumberInv
  <2> QED
    BY <2>4, <2>5, <2>6, <2>7 DEF NumberInv
<1>15. VisibleInv'
  <2>1. tail <= pos[w]
    BY <1>1, <1>3 DEF QueueInv
  <2>2. \A b \in Writers : NotDone(b)' <=> NotDone(b)
    BY <1>2, <1>3, <1>4, <2>1 DEF NotDone, Holds
  <2> QED
    BY <1>1, <1>2, <1>3, <1>4, <1>5, <1>6, <2>2 DEF VisibleInv, EndOf, HoldInv,
       Holding
<1> QED
  BY <1>7, <1>8, <1>9, <1>10, <1>11, <1>12, <1>13, <1>14, <1>15 DEF IInv

\* A failed write leaves its batch in the queue, unapplied (commit.go:120-124).
LEMMA WriteErrorStep ==
  ASSUME IInv, UseQueue, NEW w \in Writers, WriteError(w)
  PROVE  IInv'
<1>1. /\ TypeOK /\ MutexInv /\ EnqueueInv /\ QueueInv /\ DequeueInv
      /\ HoldInv /\ WaitInv /\ SyncInv /\ NumberInv /\ VisibleInv
  BY DEF IInv
<1>2. /\ pc[w] = "write" /\ pc'[w] = "failed" /\ pc' \in [Writers -> Labels]
      /\ (\A v \in Writers : v # w => pc'[v] = pc[v])
  BY <1>1 DEF WriteError, TypeOK, Goto, Labels
<1>3. /\ pc[w] \in Preparing /\ pc'[w] \notin Preparing /\ pc[w] \in Locked
      /\ pc'[w] \notin Locked /\ pc[w] \notin Unapplied
      /\ pc'[w] \in Unapplied /\ pc[w] \notin Publishing
      /\ pc[w] \notin Numbered /\ pc'[w] \in Numbered /\ pc[w] \in Enqueued
      /\ pc[w] \notin Holding
      /\ \A v \in Writers :
           /\ pc'[v] \in Publishing <=> pc[v] \in Publishing
           /\ pc'[v] \in Enqueued <=> pc[v] \in Enqueued
           /\ pc'[v] \in Holding <=> pc[v] \in Holding
  BY <1>2 DEF Preparing, Locked, Unapplied, Publishing, Numbered, Enqueued,
     Holding
<1>4. /\ head' = head /\ tail' = tail /\ slots' = slots
      /\ visibleSeqNum' = visibleSeqNum /\ cnt' = cnt /\ applied' = applied
      /\ wg' = wg /\ sync' = sync /\ commitErr' = commitErr /\ pos' = pos
      /\ ptrs' = ptrs /\ cur' = cur /\ vis' = vis /\ memSeqs' = memSeqs
      /\ synced' = synced /\ panicked' = panicked /\ commits' = commits
  BY DEF WriteError, queueVars, pipeVars, batchVars, localVars, histVars
<1>5. /\ seq'[w] = logSeqNum
      /\ (\A v \in Writers : v # w => seq'[v] = seq[v])
      /\ logSeqNum' = logSeqNum + cnt[w]
      /\ syncQueued' \in {syncQueued, syncQueued \cup (sync \cap {w})}
      /\ mu' = NULL
  <2>1. seq'[w] = logSeqNum
    BY <1>1 DEF WriteError, TypeOK
  <2>2. \A v \in Writers : v # w => seq'[v] = seq[v]
    BY <1>1 DEF WriteError, TypeOK
  <2>3. logSeqNum' = logSeqNum + cnt[w]
    BY <1>1 DEF WriteError, TypeOK
  <2>4. syncQueued' \in {syncQueued, syncQueued \cup (sync \cap {w})}
    BY <1>1 DEF WriteError, TypeOK
  <2>5. mu' = NULL
    BY <1>1 DEF WriteError, TypeOK
  <2> QED
    BY <2>1, <2>2, <2>3, <2>4, <2>5
<1>6. /\ head \in Nat /\ tail \in Nat /\ logSeqNum \in Nat /\ visibleSeqNum \in Nat
      /\ \A v \in Writers : /\ pos[v] \in Nat /\ seq[v] \in Nat /\ cnt[v] \in Nat
                           /\ wg[v] \in Int /\ vis[v] \in Nat /\ ptrs[v][2] \in Nat
  BY <1>1 DEF TypeOK
<1>7. TypeOK'
  <2>1. seq' \in [Writers -> Nat]
    BY <1>1 DEF WriteError, TypeOK
  <2>2. logSeqNum' \in Nat
    BY <1>5, <1>6
  <2>3. syncQueued' \subseteq Writers
    BY <1>1 DEF WriteError, TypeOK
  <2>4. mu' \in Writers \cup {NULL}
    BY <1>1 DEF WriteError, TypeOK
  <2>5. sem' \in Int
    BY <1>1 DEF WriteError, TypeOK
  <2>6. errors' \in Nat
    BY <1>1 DEF WriteError, TypeOK
  <2> QED
    BY <1>1, <1>2, <1>4, <2>1, <2>2, <2>3, <2>4, <2>5, <2>6 DEF TypeOK
<1>8. /\ DequeueInv' /\ HoldInv'
  BY <1>1, <1>2, <1>3, <1>4 DEF DequeueInv, HoldInv
<1>9. MutexInv'
  BY <1>1, <1>2, <1>3, <1>4, <1>5, <1>6 DEF MutexInv
<1>10. EnqueueInv'
  BY <1>1, <1>2, <1>3, <1>4, <1>5, <1>6 DEF EnqueueInv
<1>11. QueueInv'
  BY <1>1, <1>2, <1>3, <1>4, <1>5, <1>6 DEF QueueInv
<1>12. WaitInv'
  <2>1. tail <= pos[w]
    BY <1>1, <1>3 DEF QueueInv
  <2>2. \A b \in Writers : NotDone(b)' <=> NotDone(b)
    BY <1>2, <1>3, <1>4, <2>1 DEF NotDone, Holds
  <2> QED
    BY <1>1, <1>2, <1>3, <1>4, <1>5, <1>6, <2>2 DEF WaitInv, NotSynced
<1>13. SyncInv'
  BY <1>1, <1>2, <1>3, <1>4, <1>5, <1>6 DEF SyncInv
<1>14. NumberInv'
  <2>1. cnt[w] \in Nat /\ cnt[w] > 0 /\ 1 <= logSeqNum
    BY <1>1, <1>3, <1>6, CountsAssumption DEF NumberInv, VisibleInv
  <2>2. \A v \in Writers : pc[v] \in Numbered => pos[v] <= pos[w]
    <3>1. \A v \in Writers : pc[v] \in Numbered => pc[v] \in Enqueued
      BY DEF Numbered, Enqueued
    <3> QED
      BY <1>1, <1>2, <1>6, <3>1 DEF QueueInv, EnqueueInv
  <2>3. EndOf(w)' = logSeqNum' /\ \A v \in Writers : v # w => EndOf(v)' = EndOf(v)
    BY <1>4, <1>5, <1>6, <2>1 DEF EndOf
  <2>4. \A v \in Writers : /\ pc'[v] \in Preparing \/ pc'[v] \in Numbered => cnt'[v] \in Counts
                           /\ pc'[v] \in Numbered => 1 <= seq'[v] /\ EndOf(v)' <= logSeqNum'
    BY <1>1, <1>2, <1>3, <1>4, <1>5, <1>6, <2>1, <2>3 DEF NumberInv, EndOf
  <2>5. \A u, v \in Writers :
          pc'[u] \in Numbered /\ pc'[v] \in Numbered /\ pos'[u] < pos'[v] =>
            EndOf(u)' <= seq'[v]
    BY <1>1, <1>2, <1>3, <1>4, <1>5, <1>6, <2>2, <2>3 DEF NumberInv, EndOf
  <2>6. /\ \A s \in Nat : s \in memSeqs' => 1 <= s /\ s < logSeqNum'
        /\ \A v \in Writers, s \in memSeqs' :
             pc'[v] \in Unapplied => s < seq'[v] \/ EndOf(v)' <= s
    <3>1. memSeqs \subseteq Nat
      BY <1>1 DEF TypeOK
    <3> QED
      BY <1>1, <1>2, <1>3, <1>4, <1>5, <1>6, <2>1, <2>3, <3>1 DEF NumberInv
  <2>7. \A s \in Nat : 1 <= s /\ s < logSeqNum' =>
          \/ s \in memSeqs'
          \/ \E v \in Writers : pc'[v] \in Unapplied /\ seq'[v] <= s /\ s < EndOf(v)'
    BY <1>1, <1>2, <1>3, <1>4, <1>5, <1>6, <2>1, <2>3 DEF NumberInv
  <2> QED
    BY <2>4, <2>5, <2>6, <2>7 DEF NumberInv
<1>15. VisibleInv'
  <2>1. tail <= pos[w]
    BY <1>1, <1>3 DEF QueueInv
  <2>2. \A b \in Writers : NotDone(b)' <=> NotDone(b)
    BY <1>2, <1>3, <1>4, <2>1 DEF NotDone, Holds
  <2> QED
    BY <1>1, <1>2, <1>3, <1>4, <1>5, <1>6, <2>2 DEF VisibleInv, EndOf, HoldInv,
       Holding
<1> QED
  BY <1>7, <1>8, <1>9, <1>10, <1>11, <1>12, <1>13, <1>14, <1>15 DEF IInv

\* The memtable gets the batch's numbers, which nobody else holds
\* (commit.go:126).
LEMMA ApplyStep ==
  ASSUME IInv, UseQueue, NEW w \in Writers, Apply(w)
  PROVE  IInv'
<1>1. /\ TypeOK /\ MutexInv /\ EnqueueInv /\ QueueInv /\ DequeueInv
      /\ HoldInv /\ WaitInv /\ SyncInv /\ NumberInv /\ VisibleInv
  BY DEF IInv
<1>2. /\ pc[w] = "apply" /\ pc'[w] = "publish"
      /\ pc' \in [Writers -> Labels]
      /\ (\A v \in Writers : v # w => pc'[v] = pc[v])
  BY <1>1 DEF Apply, TypeOK, Goto, Labels
<1>3. /\ pc[w] \notin Preparing /\ pc[w] \notin Locked
      /\ pc[w] \in Unapplied /\ pc'[w] \notin Unapplied
      /\ pc[w] \notin Publishing /\ pc[w] \in Numbered /\ pc[w] \in Enqueued
      /\ pc[w] \notin Holding
      /\ \A v \in Writers :
           /\ pc'[v] \in Preparing <=> pc[v] \in Preparing
           /\ pc'[v] \in Locked <=> pc[v] \in Locked
           /\ pc'[v] \in Publishing <=> pc[v] \in Publishing
           /\ pc'[v] \in Numbered <=> pc[v] \in Numbered
           /\ pc'[v] \in Enqueued <=> pc[v] \in Enqueued
           /\ pc'[v] \in Holding <=> pc[v] \in Holding
  BY <1>2 DEF Preparing, Locked, Unapplied, Publishing, Numbered, Enqueued,
     Holding
<1>4. /\ head' = head /\ tail' = tail /\ slots' = slots /\ sem' = sem
      /\ mu' = mu /\ logSeqNum' = logSeqNum
      /\ visibleSeqNum' = visibleSeqNum /\ seq' = seq /\ cnt' = cnt
      /\ applied' = applied /\ wg' = wg /\ sync' = sync
      /\ commitErr' = commitErr /\ syncQueued' = syncQueued /\ pos' = pos
      /\ ptrs' = ptrs /\ cur' = cur /\ vis' = vis /\ synced' = synced
      /\ panicked' = panicked /\ commits' = commits /\ errors' = errors
  BY DEF Apply, queueVars, pipeVars, batchVars, localVars, histVars
<1>5. /\ (\A s \in Nat : s \in memSeqs' <=> s \in memSeqs \/ (seq[w] <= s /\ s < EndOf(w)))
  <2>1. seq[w] \in Nat /\ cnt[w] \in Nat /\ memSeqs' = memSeqs \cup SeqsOf(w)
    BY <1>1 DEF Apply, TypeOK
  <2>2. \A s \in Nat : s \in SeqsOf(w) <=> seq[w] <= s /\ s < EndOf(w)
    BY <2>1 DEF SeqsOf, EndOf
  <2> QED
    BY <2>1, <2>2
<1>6. /\ head \in Nat /\ tail \in Nat /\ logSeqNum \in Nat /\ visibleSeqNum \in Nat
      /\ \A v \in Writers : /\ pos[v] \in Nat /\ seq[v] \in Nat /\ cnt[v] \in Nat
                           /\ wg[v] \in Int /\ vis[v] \in Nat /\ ptrs[v][2] \in Nat
  BY <1>1 DEF TypeOK
<1>7. TypeOK'
  <2>1. SeqsOf(w) \subseteq Nat
    BY <1>6 DEF SeqsOf
  <2>2. memSeqs \subseteq Nat /\ memSeqs' = memSeqs \cup SeqsOf(w)
    BY <1>1 DEF Apply, TypeOK
  <2> QED
    BY <1>1, <1>2, <1>4, <2>1, <2>2 DEF TypeOK
<1>8. /\ MutexInv' /\ EnqueueInv' /\ QueueInv' /\ DequeueInv' /\ HoldInv'
      /\ WaitInv' /\ SyncInv'
  BY <1>1, <1>2, <1>3, <1>4 DEF MutexInv, EnqueueInv, QueueInv, DequeueInv,
     HoldInv, WaitInv, NotDone, NotSynced, Holds, SyncInv
<1>9. NumberInv'
  <2>1. \A v \in Writers : v # w /\ pc[v] \in Unapplied => EndOf(w) <= seq[v] \/ EndOf(v) <= seq[w]
    <3>1. \A v \in Writers : pc[v] \in Unapplied => pc[v] \in Numbered /\ pc[v] \in Enqueued
      BY DEF Unapplied, Numbered, Enqueued
    <3>2. \A v \in Writers : v # w /\ pc[v] \in Unapplied => pos[v] # pos[w]
      BY <1>1, <1>3, <3>1 DEF QueueInv
    <3> QED
      BY <1>1, <1>3, <1>6, <3>1, <3>2 DEF NumberInv
  <2>2. memSeqs \subseteq Nat /\ memSeqs' \subseteq Nat
    BY <1>1, <1>7 DEF TypeOK
  <2> QED
    BY <1>1, <1>2, <1>3, <1>4, <1>5, <1>6, <2>1, <2>2 DEF NumberInv, EndOf
<1>10. VisibleInv'
  <2>1. \A b \in Writers : NotDone(b)' <=> NotDone(b)
    BY <1>1, <1>2, <1>3, <1>4, <1>5, <1>6 DEF NotDone, Holds
  <2> QED
    BY <1>1, <1>2, <1>3, <1>4, <1>5, <1>6, <2>1 DEF VisibleInv, EndOf
<1> QED
  BY <1>7, <1>8, <1>9, <1>10 DEF IInv

\* A failed apply leaves its batch in the queue, unapplied (commit.go:126-129).
LEMMA ApplyErrorStep ==
  ASSUME IInv, UseQueue, NEW w \in Writers, ApplyError(w)
  PROVE  IInv'
<1>1. /\ TypeOK /\ MutexInv /\ EnqueueInv /\ QueueInv /\ DequeueInv
      /\ HoldInv /\ WaitInv /\ SyncInv /\ NumberInv /\ VisibleInv
  BY DEF IInv
<1>2. /\ pc[w] = "apply" /\ pc'[w] = "failed" /\ pc' \in [Writers -> Labels]
      /\ (\A v \in Writers : v # w => pc'[v] = pc[v])
  BY <1>1 DEF ApplyError, TypeOK, Goto, Labels
<1>3. /\ pc[w] \notin Preparing /\ pc[w] \notin Locked
      /\ pc[w] \in Unapplied /\ pc[w] \notin Publishing
      /\ pc[w] \in Numbered /\ pc[w] \in Enqueued /\ pc[w] \notin Holding
      /\ \A v \in Writers :
           /\ pc'[v] \in Preparing <=> pc[v] \in Preparing
           /\ pc'[v] \in Locked <=> pc[v] \in Locked
           /\ pc'[v] \in Unapplied <=> pc[v] \in Unapplied
           /\ pc'[v] \in Publishing <=> pc[v] \in Publishing
           /\ pc'[v] \in Numbered <=> pc[v] \in Numbered
           /\ pc'[v] \in Enqueued <=> pc[v] \in Enqueued
           /\ pc'[v] \in Holding <=> pc[v] \in Holding
  BY <1>2 DEF Preparing, Locked, Unapplied, Publishing, Numbered, Enqueued,
     Holding
<1>4. /\ head' = head /\ tail' = tail /\ slots' = slots /\ mu' = mu
      /\ logSeqNum' = logSeqNum /\ visibleSeqNum' = visibleSeqNum
      /\ seq' = seq /\ cnt' = cnt /\ applied' = applied /\ wg' = wg
      /\ sync' = sync /\ commitErr' = commitErr /\ syncQueued' = syncQueued
      /\ pos' = pos /\ ptrs' = ptrs /\ cur' = cur /\ vis' = vis
      /\ memSeqs' = memSeqs /\ synced' = synced /\ panicked' = panicked
      /\ commits' = commits
  BY DEF ApplyError, queueVars, pipeVars, batchVars, localVars, histVars
<1>6. /\ head \in Nat /\ tail \in Nat /\ logSeqNum \in Nat /\ visibleSeqNum \in Nat
      /\ \A v \in Writers : /\ pos[v] \in Nat /\ seq[v] \in Nat /\ cnt[v] \in Nat
                           /\ wg[v] \in Int /\ vis[v] \in Nat /\ ptrs[v][2] \in Nat
  BY <1>1 DEF TypeOK
<1>7. TypeOK'
  <2>1. /\ sem' \in Int /\ errors' \in Nat
    BY <1>1 DEF ApplyError, TypeOK
  <2> QED
    BY <1>1, <1>2, <1>4, <2>1 DEF TypeOK
<1>8. /\ MutexInv' /\ EnqueueInv' /\ QueueInv' /\ DequeueInv' /\ HoldInv'
      /\ WaitInv' /\ NumberInv' /\ VisibleInv'
  BY <1>1, <1>2, <1>3, <1>4 DEF MutexInv, EnqueueInv, QueueInv, DequeueInv,
     HoldInv, WaitInv, NotDone, NotSynced, Holds, NumberInv, EndOf, VisibleInv
<1>9. SyncInv'
  BY <1>1, <1>2, <1>3, <1>4, <1>6 DEF SyncInv
<1> QED
  BY <1>7, <1>8, <1>9 DEF IInv

\* publish marks the goroutine's own batch applied (commit.go:175).
LEMMA PublishStep ==
  ASSUME IInv, UseQueue, NEW w \in Writers, Publish(w)
  PROVE  IInv'
<1>1. /\ TypeOK /\ MutexInv /\ EnqueueInv /\ QueueInv /\ DequeueInv
      /\ HoldInv /\ WaitInv /\ SyncInv /\ NumberInv /\ VisibleInv
  BY DEF IInv
<1>2. /\ pc[w] = "publish" /\ pc'[w] = "load" /\ pc' \in [Writers -> Labels]
      /\ (\A v \in Writers : v # w => pc'[v] = pc[v])
  BY <1>1 DEF Publish, TypeOK, Goto, Labels
<1>3. /\ pc[w] \notin Preparing /\ pc[w] \notin Locked
      /\ pc[w] \notin Unapplied /\ pc[w] \notin Publishing
      /\ pc'[w] \in Publishing /\ pc[w] \in Numbered /\ pc[w] \in Enqueued
      /\ pc[w] \notin Holding
      /\ \A v \in Writers :
           /\ pc'[v] \in Preparing <=> pc[v] \in Preparing
           /\ pc'[v] \in Locked <=> pc[v] \in Locked
           /\ pc'[v] \in Unapplied <=> pc[v] \in Unapplied
           /\ pc'[v] \in Numbered <=> pc[v] \in Numbered
           /\ pc'[v] \in Enqueued <=> pc[v] \in Enqueued
           /\ pc'[v] \in Holding <=> pc[v] \in Holding
  BY <1>2 DEF Preparing, Locked, Unapplied, Publishing, Numbered, Enqueued,
     Holding
<1>4. /\ head' = head /\ tail' = tail /\ slots' = slots /\ sem' = sem
      /\ mu' = mu /\ logSeqNum' = logSeqNum
      /\ visibleSeqNum' = visibleSeqNum /\ seq' = seq /\ cnt' = cnt
      /\ wg' = wg /\ sync' = sync /\ commitErr' = commitErr
      /\ syncQueued' = syncQueued /\ pos' = pos /\ ptrs' = ptrs
      /\ vis' = vis /\ memSeqs' = memSeqs /\ synced' = synced
      /\ panicked' = panicked /\ commits' = commits /\ errors' = errors
  BY DEF Publish, queueVars, pipeVars, batchVars, localVars, histVars
<1>5. /\ applied'[w] = 1
      /\ (\A v \in Writers : v # w => applied'[v] = applied[v])
      /\ cur'[w] = NULL
      /\ (\A v \in Writers : v # w => cur'[v] = cur[v])
  BY <1>1, <1>2 DEF Publish, TypeOK
<1>6. /\ head \in Nat /\ tail \in Nat /\ logSeqNum \in Nat /\ visibleSeqNum \in Nat
      /\ \A v \in Writers : /\ pos[v] \in Nat /\ seq[v] \in Nat /\ cnt[v] \in Nat
                           /\ wg[v] \in Int /\ vis[v] \in Nat /\ ptrs[v][2] \in Nat
  BY <1>1 DEF TypeOK
<1>7. TypeOK'
  <2>1. /\ applied' \in [Writers -> {0, 1}]
        /\ cur' \in [Writers -> Writers \cup {NULL}]
    BY <1>1 DEF Publish, TypeOK
  <2> QED
    BY <1>1, <1>2, <1>4, <2>1 DEF TypeOK
<1>8. /\ MutexInv' /\ EnqueueInv' /\ SyncInv' /\ NumberInv'
  BY <1>1, <1>2, <1>3, <1>4 DEF MutexInv, EnqueueInv, SyncInv, NumberInv, EndOf
<1>9. QueueInv'
  BY <1>1, <1>2, <1>3, <1>4, <1>5, <1>6 DEF QueueInv
<1>10. DequeueInv'
  BY <1>1, <1>2, <1>3, <1>4, <1>5, <1>6 DEF DequeueInv
<1>11. HoldInv'
  BY <1>1, <1>2, <1>3, <1>4, <1>5, <1>6 DEF HoldInv
<1>12. WaitInv'
  <2>1. \A b \in Writers : NotDone(b)' <=> NotDone(b)
    BY <1>1, <1>2, <1>3, <1>4, <1>5, <1>6 DEF NotDone, Holds
  <2> QED
    BY <1>1, <1>2, <1>3, <1>4, <1>5, <1>6, <2>1 DEF WaitInv, NotSynced
<1>13. VisibleInv'
  <2>1. \A b \in Writers : NotDone(b)' <=> NotDone(b)
    BY <1>1, <1>2, <1>3, <1>4, <1>5, <1>6 DEF NotDone, Holds
  <2> QED
    BY <1>1, <1>2, <1>3, <1>4, <1>5, <1>6, <2>1 DEF VisibleInv, EndOf, NotDone,
       QueueInv
<1> QED
  BY <1>7, <1>8, <1>9, <1>10, <1>11, <1>12, <1>13 DEF IInv

\* dequeue reads head and tail (commit.go:65-69).
LEMMA DequeueLoadStep ==
  ASSUME IInv, UseQueue, NEW w \in Writers, DequeueLoad(w)
  PROVE  IInv'
<1>1. /\ TypeOK /\ MutexInv /\ EnqueueInv /\ QueueInv /\ DequeueInv
      /\ HoldInv /\ WaitInv /\ SyncInv /\ NumberInv /\ VisibleInv
  BY DEF IInv
<1>2. /\ pc[w] = "load" /\ (pc'[w] = "wait" \/ pc'[w] = "slot")
      /\ pc' \in [Writers -> Labels]
      /\ (\A v \in Writers : v # w => pc'[v] = pc[v])
  BY <1>1 DEF DequeueLoad, TypeOK, Goto, Labels
<1>3. /\ pc[w] \notin Preparing /\ pc[w] \notin Locked
      /\ pc[w] \notin Unapplied /\ pc[w] \in Publishing
      /\ pc[w] \in Numbered /\ pc[w] \in Enqueued /\ pc[w] \notin Holding
      /\ \A v \in Writers :
           /\ pc'[v] \in Preparing <=> pc[v] \in Preparing
           /\ pc'[v] \in Locked <=> pc[v] \in Locked
           /\ pc'[v] \in Unapplied <=> pc[v] \in Unapplied
           /\ pc'[v] \in Publishing <=> pc[v] \in Publishing
           /\ pc'[v] \in Numbered <=> pc[v] \in Numbered
           /\ pc'[v] \in Enqueued <=> pc[v] \in Enqueued
           /\ pc'[v] \in Holding <=> pc[v] \in Holding
  BY <1>2 DEF Preparing, Locked, Unapplied, Publishing, Numbered, Enqueued,
     Holding
<1>4. /\ head' = head /\ tail' = tail /\ slots' = slots /\ sem' = sem
      /\ mu' = mu /\ logSeqNum' = logSeqNum
      /\ visibleSeqNum' = visibleSeqNum /\ seq' = seq /\ cnt' = cnt
      /\ applied' = applied /\ wg' = wg /\ sync' = sync
      /\ commitErr' = commitErr /\ syncQueued' = syncQueued /\ pos' = pos
      /\ cur' = cur /\ vis' = vis /\ memSeqs' = memSeqs /\ synced' = synced
      /\ panicked' = panicked /\ commits' = commits /\ errors' = errors
  BY DEF DequeueLoad, queueVars, pipeVars, batchVars, localVars, histVars
<1>5. /\ ptrs'[w][2] = tail
      /\ (\A v \in Writers : v # w => ptrs'[v] = ptrs[v])
      /\ (pc'[w] = "slot" => tail # head)
  BY <1>1, <1>2 DEF DequeueLoad, TypeOK, Goto
<1>6. /\ head \in Nat /\ tail \in Nat /\ logSeqNum \in Nat /\ visibleSeqNum \in Nat
      /\ \A v \in Writers : /\ pos[v] \in Nat /\ seq[v] \in Nat /\ cnt[v] \in Nat
                           /\ wg[v] \in Int /\ vis[v] \in Nat /\ ptrs[v][2] \in Nat
  BY <1>1 DEF TypeOK
<1>7. TypeOK'
  <2>1. /\ ptrs' \in [Writers -> Nat \X Nat]
    BY <1>1 DEF DequeueLoad, TypeOK
  <2> QED
    BY <1>1, <1>2, <1>4, <2>1 DEF TypeOK
<1>8. /\ MutexInv' /\ EnqueueInv' /\ QueueInv' /\ WaitInv' /\ SyncInv'
      /\ NumberInv' /\ VisibleInv'
  BY <1>1, <1>2, <1>3, <1>4 DEF MutexInv, EnqueueInv, QueueInv, WaitInv,
     NotDone, NotSynced, Holds, SyncInv, NumberInv, EndOf, VisibleInv
<1>9. DequeueInv'
  BY <1>1, <1>2, <1>3, <1>4, <1>5, <1>6 DEF DequeueInv, EnqueueInv
<1>10. HoldInv'
  BY <1>1, <1>2, <1>3, <1>4, <1>5, <1>6 DEF HoldInv
<1> QED
  BY <1>7, <1>8, <1>9, <1>10 DEF IInv

\* dequeue reads the slot at the tail it read (commit.go:71-72).
LEMMA DequeueSlotStep ==
  ASSUME IInv, UseQueue, NEW w \in Writers, DequeueSlot(w)
  PROVE  IInv'
<1>1. /\ TypeOK /\ MutexInv /\ EnqueueInv /\ QueueInv /\ DequeueInv
      /\ HoldInv /\ WaitInv /\ SyncInv /\ NumberInv /\ VisibleInv
  BY DEF IInv
<1>2. /\ pc[w] = "slot" /\ (pc'[w] = "wait" \/ pc'[w] = "applied")
      /\ pc' \in [Writers -> Labels]
      /\ (\A v \in Writers : v # w => pc'[v] = pc[v])
  BY <1>1 DEF DequeueSlot, TypeOK, Goto, Labels
<1>3. /\ pc[w] \notin Preparing /\ pc[w] \notin Locked
      /\ pc[w] \notin Unapplied /\ pc[w] \in Publishing
      /\ pc[w] \in Numbered /\ pc[w] \in Enqueued /\ pc[w] \notin Holding
      /\ \A v \in Writers :
           /\ pc'[v] \in Preparing <=> pc[v] \in Preparing
           /\ pc'[v] \in Locked <=> pc[v] \in Locked
           /\ pc'[v] \in Unapplied <=> pc[v] \in Unapplied
           /\ pc'[v] \in Publishing <=> pc[v] \in Publishing
           /\ pc'[v] \in Numbered <=> pc[v] \in Numbered
           /\ pc'[v] \in Enqueued <=> pc[v] \in Enqueued
           /\ pc'[v] \in Holding <=> pc[v] \in Holding
  BY <1>2 DEF Preparing, Locked, Unapplied, Publishing, Numbered, Enqueued,
     Holding
<1>4. /\ head' = head /\ tail' = tail /\ slots' = slots /\ sem' = sem
      /\ mu' = mu /\ logSeqNum' = logSeqNum
      /\ visibleSeqNum' = visibleSeqNum /\ seq' = seq /\ cnt' = cnt
      /\ applied' = applied /\ wg' = wg /\ sync' = sync
      /\ commitErr' = commitErr /\ syncQueued' = syncQueued /\ pos' = pos
      /\ ptrs' = ptrs /\ vis' = vis /\ memSeqs' = memSeqs
      /\ synced' = synced /\ panicked' = panicked /\ commits' = commits
      /\ errors' = errors
  BY DEF DequeueSlot, queueVars, pipeVars, batchVars, localVars, histVars
<1>5. /\ cur'[w] = slots[Slot(ptrs[w][2])]
      /\ (\A v \in Writers : v # w => cur'[v] = cur[v])
      /\ (pc'[w] = "applied" => slots[Slot(ptrs[w][2])] \in Writers)
  <2>1. cur \in [Writers -> Writers \cup {NULL}] /\ pc \in [Writers -> Labels]
    BY <1>1 DEF TypeOK
  <2>2. cur'[w] = slots[Slot(ptrs[w][2])] /\ \A v \in Writers : v # w => cur'[v] = cur[v]
    BY <2>1 DEF DequeueSlot
  <2>3. slots[Slot(ptrs[w][2])] \in Writers \cup {NULL}
    BY <1>1, SlotType DEF TypeOK
  <2>4. pc'[w] = "applied" => slots[Slot(ptrs[w][2])] # NULL
    BY <2>1 DEF DequeueSlot, Goto
  <2> QED
    BY <2>2, <2>3, <2>4
<1>6. /\ head \in Nat /\ tail \in Nat /\ logSeqNum \in Nat /\ visibleSeqNum \in Nat
      /\ \A v \in Writers : /\ pos[v] \in Nat /\ seq[v] \in Nat /\ cnt[v] \in Nat
                           /\ wg[v] \in Int /\ vis[v] \in Nat /\ ptrs[v][2] \in Nat
  BY <1>1 DEF TypeOK
<1>7. TypeOK'
  <2>1. /\ cur' \in [Writers -> Writers \cup {NULL}]
    BY <1>1, SlotType DEF DequeueSlot, TypeOK
  <2> QED
    BY <1>1, <1>2, <1>4, <2>1 DEF TypeOK
<1>8. /\ MutexInv' /\ EnqueueInv' /\ QueueInv' /\ SyncInv' /\ NumberInv'
  BY <1>1, <1>2, <1>3, <1>4 DEF MutexInv, EnqueueInv, QueueInv, SyncInv,
     NumberInv, EndOf
<1>9. DequeueInv'
  BY <1>1, <1>2, <1>3, <1>4, <1>5, <1>6 DEF DequeueInv, QueueInv
<1>10. HoldInv'
  BY <1>1, <1>2, <1>3, <1>4, <1>5, <1>6 DEF HoldInv
<1>11. WaitInv'
  <2>1. \A b \in Writers : NotDone(b)' <=> NotDone(b)
    BY <1>1, <1>2, <1>3, <1>4, <1>5, <1>6 DEF NotDone, Holds
  <2> QED
    BY <1>1, <1>2, <1>3, <1>4, <1>5, <1>6, <2>1 DEF WaitInv, NotSynced
<1>12. VisibleInv'
  <2>1. \A b \in Writers : NotDone(b)' <=> NotDone(b)
    BY <1>1, <1>2, <1>3, <1>4, <1>5, <1>6 DEF NotDone, Holds
  <2> QED
    BY <1>1, <1>2, <1>3, <1>4, <1>5, <1>6, <2>1 DEF VisibleInv, EndOf
<1> QED
  BY <1>7, <1>8, <1>9, <1>10, <1>11, <1>12 DEF IInv

\* dequeue gives up on a batch that is not applied (commit.go:73-75).
LEMMA DequeueAppliedStep ==
  ASSUME IInv, UseQueue, NEW w \in Writers, DequeueApplied(w)
  PROVE  IInv'
<1>1. /\ TypeOK /\ MutexInv /\ EnqueueInv /\ QueueInv /\ DequeueInv
      /\ HoldInv /\ WaitInv /\ SyncInv /\ NumberInv /\ VisibleInv
  BY DEF IInv
<1>2. /\ pc[w] = "applied" /\ (pc'[w] = "cas" \/ pc'[w] = "wait")
      /\ pc' \in [Writers -> Labels]
      /\ (\A v \in Writers : v # w => pc'[v] = pc[v])
  BY <1>1 DEF DequeueApplied, TypeOK, Goto, Labels
<1>3. /\ pc[w] \notin Preparing /\ pc[w] \notin Locked
      /\ pc[w] \notin Unapplied /\ pc[w] \in Publishing
      /\ pc[w] \in Numbered /\ pc[w] \in Enqueued /\ pc[w] \notin Holding
      /\ \A v \in Writers :
           /\ pc'[v] \in Preparing <=> pc[v] \in Preparing
           /\ pc'[v] \in Locked <=> pc[v] \in Locked
           /\ pc'[v] \in Unapplied <=> pc[v] \in Unapplied
           /\ pc'[v] \in Publishing <=> pc[v] \in Publishing
           /\ pc'[v] \in Numbered <=> pc[v] \in Numbered
           /\ pc'[v] \in Enqueued <=> pc[v] \in Enqueued
           /\ pc'[v] \in Holding <=> pc[v] \in Holding
  BY <1>2 DEF Preparing, Locked, Unapplied, Publishing, Numbered, Enqueued,
     Holding
<1>4. /\ head' = head /\ tail' = tail /\ slots' = slots /\ sem' = sem
      /\ mu' = mu /\ logSeqNum' = logSeqNum
      /\ visibleSeqNum' = visibleSeqNum /\ seq' = seq /\ cnt' = cnt
      /\ applied' = applied /\ wg' = wg /\ sync' = sync
      /\ commitErr' = commitErr /\ syncQueued' = syncQueued /\ pos' = pos
      /\ ptrs' = ptrs /\ cur' = cur /\ vis' = vis /\ memSeqs' = memSeqs
      /\ synced' = synced /\ panicked' = panicked /\ commits' = commits
      /\ errors' = errors
  BY DEF DequeueApplied, queueVars, pipeVars, batchVars, localVars, histVars
<1>5. /\ (pc'[w] = "cas" => applied[cur[w]] = 1)
  BY <1>1, <1>2 DEF DequeueApplied, TypeOK, Goto
<1>6. /\ head \in Nat /\ tail \in Nat /\ logSeqNum \in Nat /\ visibleSeqNum \in Nat
      /\ \A v \in Writers : /\ pos[v] \in Nat /\ seq[v] \in Nat /\ cnt[v] \in Nat
                           /\ wg[v] \in Int /\ vis[v] \in Nat /\ ptrs[v][2] \in Nat
  BY <1>1 DEF TypeOK
<1>7. TypeOK'
  BY <1>1, <1>2, <1>4 DEF TypeOK
<1>8. /\ MutexInv' /\ EnqueueInv' /\ QueueInv' /\ HoldInv' /\ WaitInv'
      /\ SyncInv' /\ NumberInv' /\ VisibleInv'
  BY <1>1, <1>2, <1>3, <1>4 DEF MutexInv, EnqueueInv, QueueInv, HoldInv,
     WaitInv, NotDone, NotSynced, Holds, SyncInv, NumberInv, EndOf, VisibleInv
<1>9. DequeueInv'
  BY <1>1, <1>2, <1>3, <1>4, <1>5, <1>6 DEF DequeueInv
<1> QED
  BY <1>7, <1>8, <1>9 DEF IInv

\* The consumer clears the slot it dequeued, for the producer (commit.go:79).
LEMMA DequeueClearStep ==
  ASSUME IInv, UseQueue, NEW w \in Writers, DequeueClear(w)
  PROVE  IInv'
<1>1. /\ TypeOK /\ MutexInv /\ EnqueueInv /\ QueueInv /\ DequeueInv
      /\ HoldInv /\ WaitInv /\ SyncInv /\ NumberInv /\ VisibleInv
  BY DEF IInv
<1>2. /\ pc[w] = "clear" /\ pc'[w] = "visload"
      /\ pc' \in [Writers -> Labels]
      /\ (\A v \in Writers : v # w => pc'[v] = pc[v])
  BY <1>1 DEF DequeueClear, TypeOK, Goto, Labels
<1>3. /\ pc[w] \notin Preparing /\ pc[w] \notin Locked
      /\ pc[w] \notin Unapplied /\ pc[w] \in Publishing
      /\ pc[w] \in Numbered /\ pc[w] \in Enqueued /\ pc[w] \in Holding
      /\ \A v \in Writers :
           /\ pc'[v] \in Preparing <=> pc[v] \in Preparing
           /\ pc'[v] \in Locked <=> pc[v] \in Locked
           /\ pc'[v] \in Unapplied <=> pc[v] \in Unapplied
           /\ pc'[v] \in Publishing <=> pc[v] \in Publishing
           /\ pc'[v] \in Numbered <=> pc[v] \in Numbered
           /\ pc'[v] \in Enqueued <=> pc[v] \in Enqueued
           /\ pc'[v] \in Holding <=> pc[v] \in Holding
  BY <1>2 DEF Preparing, Locked, Unapplied, Publishing, Numbered, Enqueued,
     Holding
<1>4. /\ head' = head /\ tail' = tail /\ sem' = sem /\ mu' = mu
      /\ logSeqNum' = logSeqNum /\ visibleSeqNum' = visibleSeqNum
      /\ seq' = seq /\ cnt' = cnt /\ applied' = applied /\ wg' = wg
      /\ sync' = sync /\ commitErr' = commitErr /\ syncQueued' = syncQueued
      /\ pos' = pos /\ ptrs' = ptrs /\ cur' = cur /\ vis' = vis
      /\ memSeqs' = memSeqs /\ synced' = synced /\ panicked' = panicked
      /\ commits' = commits /\ errors' = errors
  BY DEF DequeueClear, queueVars, pipeVars, batchVars, localVars, histVars
<1>5. /\ slots'[Slot(ptrs[w][2])] = NULL
      /\ (\A i \in 0..(N - 1) : i # Slot(ptrs[w][2]) => slots'[i] = slots[i])
  BY <1>1, <1>2, SlotType DEF DequeueClear, TypeOK
<1>6. /\ head \in Nat /\ tail \in Nat /\ logSeqNum \in Nat /\ visibleSeqNum \in Nat
      /\ \A v \in Writers : /\ pos[v] \in Nat /\ seq[v] \in Nat /\ cnt[v] \in Nat
                           /\ wg[v] \in Int /\ vis[v] \in Nat /\ ptrs[v][2] \in Nat
  BY <1>1 DEF TypeOK
<1>7. TypeOK'
  <2>1. /\ slots' \in [0..(N - 1) -> Writers \cup {NULL}]
    BY <1>1 DEF DequeueClear, TypeOK
  <2> QED
    BY <1>1, <1>2, <1>4, <2>1 DEF TypeOK
<1>8. /\ MutexInv' /\ DequeueInv' /\ WaitInv' /\ SyncInv' /\ NumberInv'
      /\ VisibleInv'
  BY <1>1, <1>2, <1>3, <1>4 DEF MutexInv, DequeueInv, WaitInv, NotDone,
     NotSynced, Holds, SyncInv, NumberInv, EndOf, VisibleInv
<1>9. EnqueueInv'
  BY <1>1, <1>2, <1>3, <1>4, <1>5, <1>6, SlotType DEF EnqueueInv, HoldInv,
     Publishing
<1>10. QueueInv'
  <2>1. \A i \in Nat : tail <= i /\ i < head => slots'[Slot(i)] = slots[Slot(i)]
    BY <1>1, <1>2, <1>3, <1>4, <1>5, <1>6, SlotType DEF QueueInv, HoldInv
  <2> QED
    BY <1>1, <1>2, <1>3, <1>4, <1>5, <1>6, <2>1 DEF QueueInv
<1>11. HoldInv'
  BY <1>1, <1>2, <1>3, <1>4, <1>5, <1>6, SlotType DEF HoldInv, Holding
<1> QED
  BY <1>7, <1>8, <1>9, <1>10, <1>11 DEF IInv

\* publish compares visibleSeqNum with the end of the batch
\* (commit.go:190-194).
LEMMA VisibleLoadStep ==
  ASSUME IInv, UseQueue, NEW w \in Writers, VisibleLoad(w)
  PROVE  IInv'
<1>1. /\ TypeOK /\ MutexInv /\ EnqueueInv /\ QueueInv /\ DequeueInv
      /\ HoldInv /\ WaitInv /\ SyncInv /\ NumberInv /\ VisibleInv
  BY DEF IInv
<1>2. /\ pc[w] = "visload" /\ (pc'[w] = "done" \/ pc'[w] = "viscas")
      /\ pc' \in [Writers -> Labels]
      /\ (\A v \in Writers : v # w => pc'[v] = pc[v])
  BY <1>1 DEF VisibleLoad, TypeOK, Goto, AfterPublish, Labels
<1>3. /\ pc[w] \notin Preparing /\ pc[w] \notin Locked
      /\ pc[w] \notin Unapplied /\ pc[w] \in Publishing
      /\ pc[w] \in Numbered /\ pc[w] \in Enqueued /\ pc[w] \in Holding
      /\ \A v \in Writers :
           /\ pc'[v] \in Preparing <=> pc[v] \in Preparing
           /\ pc'[v] \in Locked <=> pc[v] \in Locked
           /\ pc'[v] \in Unapplied <=> pc[v] \in Unapplied
           /\ pc'[v] \in Publishing <=> pc[v] \in Publishing
           /\ pc'[v] \in Numbered <=> pc[v] \in Numbered
           /\ pc'[v] \in Enqueued <=> pc[v] \in Enqueued
           /\ pc'[v] \in Holding <=> pc[v] \in Holding
  BY <1>2 DEF Preparing, Locked, Unapplied, Publishing, Numbered, Enqueued,
     Holding
<1>4. /\ head' = head /\ tail' = tail /\ slots' = slots /\ sem' = sem
      /\ mu' = mu /\ logSeqNum' = logSeqNum
      /\ visibleSeqNum' = visibleSeqNum /\ seq' = seq /\ cnt' = cnt
      /\ applied' = applied /\ wg' = wg /\ sync' = sync
      /\ commitErr' = commitErr /\ syncQueued' = syncQueued /\ pos' = pos
      /\ ptrs' = ptrs /\ cur' = cur /\ memSeqs' = memSeqs
      /\ synced' = synced /\ panicked' = panicked /\ commits' = commits
      /\ errors' = errors
  BY DEF VisibleLoad, queueVars, pipeVars, batchVars, localVars, histVars
<1>5. /\ vis'[w] = visibleSeqNum
      /\ (\A v \in Writers : v # w => vis'[v] = vis[v])
      /\ (pc'[w] = "done" => EndOf(cur[w]) <= visibleSeqNum)
      /\ (pc'[w] = "viscas" => visibleSeqNum < EndOf(cur[w]))
  <2>1. vis'[w] = visibleSeqNum /\ \A v \in Writers : v # w => vis'[v] = vis[v]
    BY <1>1 DEF VisibleLoad, TypeOK
  <2>2. cur[w] \in Writers
    BY <1>1, <1>2 DEF HoldInv, Holding
  <2>3. EndOf(cur[w]) \in Nat /\ visibleSeqNum \in Nat
    <3>1. seq \in [Writers -> Nat] /\ cnt \in [Writers -> Nat] /\ visibleSeqNum \in Nat
      BY <1>1 DEF TypeOK
    <3> QED
      BY <2>2, <3>1 DEF EndOf
  <2>4. /\ pc'[w] = "done" => EndOf(cur[w]) <= visibleSeqNum
        /\ pc'[w] = "viscas" => ~(EndOf(cur[w]) <= visibleSeqNum)
    <3>1. pc'[w] = IF EndOf(cur[w]) <= visibleSeqNum THEN "done" ELSE "viscas"
      <4>1. pc \in [Writers -> Labels]
        BY <1>1 DEF TypeOK
      <4> QED
        BY <4>1 DEF VisibleLoad, Goto, AfterPublish
    <3> QED
      BY <3>1
  <2> QED
    BY <2>1, <2>3, <2>4
<1>6. /\ head \in Nat /\ tail \in Nat /\ logSeqNum \in Nat /\ visibleSeqNum \in Nat
      /\ \A v \in Writers : /\ pos[v] \in Nat /\ seq[v] \in Nat /\ cnt[v] \in Nat
                           /\ wg[v] \in Int /\ vis[v] \in Nat /\ ptrs[v][2] \in Nat
  BY <1>1 DEF TypeOK
<1>7. TypeOK'
  <2>1. /\ vis' \in [Writers -> Nat]
    BY <1>1 DEF VisibleLoad, TypeOK
  <2> QED
    BY <1>1, <1>2, <1>4, <2>1 DEF TypeOK
<1>8. /\ MutexInv' /\ EnqueueInv' /\ QueueInv' /\ DequeueInv' /\ HoldInv'
      /\ WaitInv' /\ SyncInv' /\ NumberInv'
  BY <1>1, <1>2, <1>3, <1>4 DEF MutexInv, EnqueueInv, QueueInv, DequeueInv,
     HoldInv, WaitInv, NotDone, NotSynced, Holds, SyncInv, NumberInv, EndOf
<1>9. VisibleInv'
  <2>1. \A b \in Writers : NotDone(b)' <=> NotDone(b)
    BY <1>1, <1>2, <1>3, <1>4, <1>5, <1>6 DEF NotDone, Holds
  <2> QED
    BY <1>1, <1>2, <1>3, <1>4, <1>5, <1>6, <2>1 DEF VisibleInv, EndOf
<1> QED
  BY <1>7, <1>8, <1>9 DEF IInv

\* publish calls Done on the batch it dequeued (commit.go:200).
LEMMA DoneStep ==
  ASSUME IInv, UseQueue, NEW w \in Writers, Done(w)
  PROVE  IInv'
<1>1. /\ TypeOK /\ MutexInv /\ EnqueueInv /\ QueueInv /\ DequeueInv
      /\ HoldInv /\ WaitInv /\ SyncInv /\ NumberInv /\ VisibleInv
  BY DEF IInv
<1>2. /\ pc[w] = "done" /\ pc'[w] = "load" /\ pc' \in [Writers -> Labels]
      /\ (\A v \in Writers : v # w => pc'[v] = pc[v])
  BY <1>1 DEF Done, TypeOK, Goto, Labels
<1>3. /\ pc[w] \notin Preparing /\ pc[w] \notin Locked
      /\ pc[w] \notin Unapplied /\ pc[w] \in Publishing
      /\ pc[w] \in Numbered /\ pc[w] \in Enqueued /\ pc[w] \in Holding
      /\ pc'[w] \notin Holding
      /\ \A v \in Writers :
           /\ pc'[v] \in Preparing <=> pc[v] \in Preparing
           /\ pc'[v] \in Locked <=> pc[v] \in Locked
           /\ pc'[v] \in Unapplied <=> pc[v] \in Unapplied
           /\ pc'[v] \in Publishing <=> pc[v] \in Publishing
           /\ pc'[v] \in Numbered <=> pc[v] \in Numbered
           /\ pc'[v] \in Enqueued <=> pc[v] \in Enqueued
  BY <1>2 DEF Preparing, Locked, Unapplied, Publishing, Numbered, Enqueued,
     Holding
<1>4. /\ head' = head /\ tail' = tail /\ slots' = slots /\ sem' = sem
      /\ mu' = mu /\ logSeqNum' = logSeqNum
      /\ visibleSeqNum' = visibleSeqNum /\ seq' = seq /\ cnt' = cnt
      /\ applied' = applied /\ sync' = sync /\ commitErr' = commitErr
      /\ syncQueued' = syncQueued /\ pos' = pos /\ ptrs' = ptrs
      /\ cur' = cur /\ vis' = vis /\ memSeqs' = memSeqs /\ synced' = synced
      /\ panicked' = panicked /\ commits' = commits /\ errors' = errors
  BY DEF Done, queueVars, pipeVars, batchVars, localVars, histVars
<1>5. /\ cur[w] \in Writers /\ wg'[cur[w]] = wg[cur[w]] - 1
      /\ (\A v \in Writers : v # cur[w] => wg'[v] = wg[v])
  BY <1>1, <1>2 DEF Done, TypeOK, HoldInv, Holding
<1>6. /\ head \in Nat /\ tail \in Nat /\ logSeqNum \in Nat /\ visibleSeqNum \in Nat
      /\ \A v \in Writers : /\ pos[v] \in Nat /\ seq[v] \in Nat /\ cnt[v] \in Nat
                           /\ wg[v] \in Int /\ vis[v] \in Nat /\ ptrs[v][2] \in Nat
  BY <1>1 DEF TypeOK
<1>7. TypeOK'
  <2>1. wg \in [Writers -> Int] /\ wg' = [wg EXCEPT ![cur[w]] = wg[cur[w]] - 1]
    BY <1>1 DEF Done, TypeOK
  <2>2. wg[cur[w]] - 1 \in Int
    BY <1>5, <2>1
  <2>3. wg' \in [Writers -> Int]
    BY <2>1, <2>2
  <2> QED
    BY <1>1, <1>2, <1>4, <2>3 DEF TypeOK
<1>8. /\ MutexInv' /\ EnqueueInv' /\ QueueInv' /\ DequeueInv' /\ SyncInv'
      /\ NumberInv'
  BY <1>1, <1>2, <1>3, <1>4 DEF MutexInv, EnqueueInv, QueueInv, DequeueInv,
     SyncInv, NumberInv, EndOf
<1>9. HoldInv'
  BY <1>1, <1>2, <1>3, <1>4, <1>5, <1>6 DEF HoldInv
<1>10. WaitInv'
  <2>1. ~NotDone(cur[w])' /\ NotDone(cur[w])
    BY <1>1, <1>2, <1>3, <1>4, <1>5, <1>6 DEF NotDone, Holds, HoldInv,
       Publishing, Preparing
  <2>2. \A b \in Writers : b # cur[w] => (NotDone(b)' <=> NotDone(b))
    BY <1>1, <1>2, <1>3, <1>4, <1>5, <1>6 DEF NotDone, Holds
  <2> QED
    BY <1>1, <1>2, <1>3, <1>4, <1>5, <1>6, <2>1, <2>2 DEF WaitInv, NotSynced
<1>11. VisibleInv'
  <2>1. \A b \in Writers : b # cur[w] => (NotDone(b)' <=> NotDone(b))
    BY <1>1, <1>2, <1>3, <1>4, <1>5, <1>6 DEF NotDone, Holds
  <2> QED
    BY <1>1, <1>2, <1>3, <1>4, <1>5, <1>6, <2>1 DEF VisibleInv, EndOf
<1> QED
  BY <1>7, <1>8, <1>9, <1>10, <1>11 DEF IInv

\* Wait ends when no Done is owed, so nobody still holds the batch
\* (commit.go:181).
LEMMA ReturnStep ==
  ASSUME IInv, UseQueue, NEW w \in Writers, Return(w)
  PROVE  IInv'
<1>1. /\ TypeOK /\ MutexInv /\ EnqueueInv /\ QueueInv /\ DequeueInv
      /\ HoldInv /\ WaitInv /\ SyncInv /\ NumberInv /\ VisibleInv
  BY DEF IInv
<1>2. /\ pc[w] = "wait" /\ pc'[w] = "idle" /\ pc' \in [Writers -> Labels]
      /\ (\A v \in Writers : v # w => pc'[v] = pc[v])
  BY <1>1 DEF Return, TypeOK, Goto, Labels
<1>3. /\ pc[w] \notin Preparing /\ pc[w] \notin Locked
      /\ pc[w] \notin Unapplied /\ pc[w] \in Publishing
      /\ pc'[w] \notin Publishing /\ pc[w] \in Numbered
      /\ pc'[w] \notin Numbered /\ pc[w] \in Enqueued
      /\ pc'[w] \notin Enqueued /\ pc[w] \notin Holding
      /\ \A v \in Writers :
           /\ pc'[v] \in Preparing <=> pc[v] \in Preparing
           /\ pc'[v] \in Locked <=> pc[v] \in Locked
           /\ pc'[v] \in Unapplied <=> pc[v] \in Unapplied
           /\ pc'[v] \in Holding <=> pc[v] \in Holding
  BY <1>2 DEF Preparing, Locked, Unapplied, Publishing, Numbered, Enqueued,
     Holding
<1>4. /\ head' = head /\ tail' = tail /\ slots' = slots /\ mu' = mu
      /\ logSeqNum' = logSeqNum /\ visibleSeqNum' = visibleSeqNum
      /\ seq' = seq /\ cnt' = cnt /\ applied' = applied /\ wg' = wg
      /\ sync' = sync /\ commitErr' = commitErr /\ syncQueued' = syncQueued
      /\ pos' = pos /\ memSeqs' = memSeqs /\ synced' = synced
      /\ panicked' = panicked /\ commits' = commits /\ errors' = errors
  BY DEF Return, queueVars, pipeVars, batchVars, localVars, histVars
<1>5. /\ wg[w] = 0 /\ cur'[w] = NULL
      /\ (\A v \in Writers : v # w => cur'[v] = cur[v])
      /\ (\A v \in Writers : v # w => ptrs'[v] = ptrs[v])
      /\ (\A v \in Writers : v # w => vis'[v] = vis[v])
  BY <1>1, <1>2 DEF Return, TypeOK
<1>6. /\ head \in Nat /\ tail \in Nat /\ logSeqNum \in Nat /\ visibleSeqNum \in Nat
      /\ \A v \in Writers : /\ pos[v] \in Nat /\ seq[v] \in Nat /\ cnt[v] \in Nat
                           /\ wg[v] \in Int /\ vis[v] \in Nat /\ ptrs[v][2] \in Nat
  BY <1>1 DEF TypeOK
<1>7. TypeOK'
  <2>1. sem' \in Int
    BY <1>1 DEF Return, TypeOK
  <2>2. ptrs' \in [Writers -> Nat \X Nat]
    BY <1>1 DEF Return, TypeOK
  <2>3. cur' \in [Writers -> Writers \cup {NULL}]
    BY <1>1 DEF Return, TypeOK
  <2>4. vis' \in [Writers -> Nat]
    BY <1>1 DEF Return, TypeOK
  <2> QED
    BY <1>1, <1>2, <1>4, <2>1, <2>2, <2>3, <2>4 DEF TypeOK
<1>8. /\ MutexInv' /\ EnqueueInv'
  BY <1>1, <1>2, <1>3, <1>4 DEF MutexInv, EnqueueInv
<1>9. QueueInv'
  <2>1. ~NotDone(w)
    BY <1>1, <1>5 DEF WaitInv
  <2> QED
    BY <1>1, <1>2, <1>3, <1>4, <1>5, <1>6, <2>1 DEF QueueInv, NotDone
<1>10. DequeueInv'
  <2>1. ~NotDone(w)
    BY <1>1, <1>5 DEF WaitInv
  <2> QED
    BY <1>1, <1>2, <1>3, <1>4, <1>5, <1>6, <2>1 DEF DequeueInv, NotDone
<1>11. HoldInv'
  <2>1. ~NotDone(w)
    BY <1>1, <1>5 DEF WaitInv
  <2> QED
    BY <1>1, <1>2, <1>3, <1>4, <1>5, <1>6, <2>1 DEF HoldInv, NotDone, Holds
<1>12. WaitInv'
  <2>1. ~NotDone(w)
    BY <1>1, <1>5 DEF WaitInv
  <2>2. ~NotDone(w)' /\ \A b \in Writers : b # w => (NotDone(b)' <=> NotDone(b))
    BY <1>1, <1>2, <1>3, <1>4, <1>5, <1>6, <2>1, WritersAssumption DEF NotDone,
       Holds
  <2> QED
    BY <1>1, <1>2, <1>3, <1>4, <1>5, <1>6, <2>1, <2>2 DEF WaitInv, NotSynced
<1>13. SyncInv'
  BY <1>1, <1>2, <1>3, <1>4, <1>5, <1>6 DEF SyncInv
<1>14. NumberInv'
  BY <1>1, <1>2, <1>3, <1>4, <1>5, <1>6 DEF NumberInv, EndOf
<1>15. VisibleInv'
  <2>1. ~NotDone(w)
    BY <1>1, <1>5 DEF WaitInv
  <2>2. \A b \in Writers : b # w => (NotDone(b)' <=> NotDone(b))
    BY <1>1, <1>2, <1>3, <1>4, <1>5, <1>6, <2>1, WritersAssumption DEF NotDone,
       Holds
  <2> QED
    BY <1>1, <1>2, <1>3, <1>4, <1>5, <1>6, <2>1, <2>2 DEF VisibleInv, EndOf
<1> QED
  BY <1>7, <1>8, <1>9, <1>10, <1>11, <1>12, <1>13, <1>14, <1>15 DEF IInv

\* enqueue finds the queue full (commit.go:49-51).
LEMMA EnqueuePanicStep ==
  ASSUME IInv, UseQueue, NEW w \in Writers, EnqueueCheck(w), tail + N = head
  PROVE  IInv'
<1>1. /\ TypeOK /\ MutexInv /\ EnqueueInv /\ QueueInv /\ DequeueInv
      /\ HoldInv /\ WaitInv /\ SyncInv /\ NumberInv /\ VisibleInv
  BY DEF IInv
<1>2. /\ pc' = pc
  BY <1>1 DEF EnqueueCheck
<1>4. /\ head' = head /\ tail' = tail /\ slots' = slots /\ sem' = sem
      /\ mu' = mu /\ logSeqNum' = logSeqNum
      /\ visibleSeqNum' = visibleSeqNum /\ seq' = seq /\ cnt' = cnt
      /\ applied' = applied /\ wg' = wg /\ sync' = sync
      /\ commitErr' = commitErr /\ syncQueued' = syncQueued /\ pos' = pos
      /\ ptrs' = ptrs /\ cur' = cur /\ vis' = vis /\ memSeqs' = memSeqs
      /\ synced' = synced /\ commits' = commits /\ errors' = errors
  BY DEF EnqueueCheck, queueVars, pipeVars, batchVars, localVars, histVars
<1>6. /\ head \in Nat /\ tail \in Nat /\ logSeqNum \in Nat /\ visibleSeqNum \in Nat
      /\ \A v \in Writers : /\ pos[v] \in Nat /\ seq[v] \in Nat /\ cnt[v] \in Nat
                           /\ wg[v] \in Int /\ vis[v] \in Nat /\ ptrs[v][2] \in Nat
  BY <1>1 DEF TypeOK
<1>7. TypeOK'
  <2>1. /\ panicked' \in BOOLEAN
    BY <1>1 DEF EnqueueCheck, TypeOK
  <2> QED
    BY <1>1, <1>2, <1>4, <2>1 DEF TypeOK
<1>8. /\ MutexInv' /\ EnqueueInv' /\ QueueInv' /\ DequeueInv' /\ HoldInv'
      /\ WaitInv' /\ SyncInv' /\ NumberInv' /\ VisibleInv'
  BY <1>1, <1>2, <1>4 DEF MutexInv, EnqueueInv, QueueInv, DequeueInv,
     HoldInv, WaitInv, NotDone, NotSynced, Holds, SyncInv, NumberInv, EndOf,
     VisibleInv
<1> QED
  BY <1>7, <1>8 DEF IInv

\* enqueue finds room at head (commit.go:47-52).
LEMMA EnqueueRoomStep ==
  ASSUME IInv, UseQueue, NEW w \in Writers, EnqueueCheck(w), tail + N # head
  PROVE  IInv'
<1>1. /\ TypeOK /\ MutexInv /\ EnqueueInv /\ QueueInv /\ DequeueInv
      /\ HoldInv /\ WaitInv /\ SyncInv /\ NumberInv /\ VisibleInv
  BY DEF IInv
<1>2. /\ pc[w] = "enqueue" /\ pc'[w] = "spin" /\ pc' \in [Writers -> Labels]
      /\ (\A v \in Writers : v # w => pc'[v] = pc[v])
  BY <1>1 DEF EnqueueCheck, TypeOK, Goto, Labels
<1>3. /\ pc[w] \in Preparing /\ pc[w] \in Locked /\ pc[w] \notin Unapplied
      /\ pc[w] \notin Publishing /\ pc[w] \notin Numbered
      /\ pc[w] \notin Enqueued /\ pc[w] \notin Holding
      /\ \A v \in Writers :
           /\ pc'[v] \in Preparing <=> pc[v] \in Preparing
           /\ pc'[v] \in Locked <=> pc[v] \in Locked
           /\ pc'[v] \in Unapplied <=> pc[v] \in Unapplied
           /\ pc'[v] \in Publishing <=> pc[v] \in Publishing
           /\ pc'[v] \in Numbered <=> pc[v] \in Numbered
           /\ pc'[v] \in Enqueued <=> pc[v] \in Enqueued
           /\ pc'[v] \in Holding <=> pc[v] \in Holding
  BY <1>2 DEF Preparing, Locked, Unapplied, Publishing, Numbered, Enqueued,
     Holding
<1>4. /\ head' = head /\ tail' = tail /\ slots' = slots /\ sem' = sem
      /\ mu' = mu /\ logSeqNum' = logSeqNum
      /\ visibleSeqNum' = visibleSeqNum /\ seq' = seq /\ cnt' = cnt
      /\ applied' = applied /\ wg' = wg /\ sync' = sync
      /\ commitErr' = commitErr /\ syncQueued' = syncQueued /\ ptrs' = ptrs
      /\ cur' = cur /\ vis' = vis /\ memSeqs' = memSeqs /\ synced' = synced
      /\ panicked' = panicked /\ commits' = commits /\ errors' = errors
  BY DEF EnqueueCheck, queueVars, pipeVars, batchVars, localVars, histVars
<1>5. /\ pos'[w] = head
      /\ (\A v \in Writers : v # w => pos'[v] = pos[v])
  BY <1>1, <1>2 DEF EnqueueCheck, TypeOK
<1>6. /\ head \in Nat /\ tail \in Nat /\ logSeqNum \in Nat /\ visibleSeqNum \in Nat
      /\ \A v \in Writers : /\ pos[v] \in Nat /\ seq[v] \in Nat /\ cnt[v] \in Nat
                           /\ wg[v] \in Int /\ vis[v] \in Nat /\ ptrs[v][2] \in Nat
  BY <1>1 DEF TypeOK
<1>7. TypeOK'
  <2>1. /\ pos' \in [Writers -> Nat]
    BY <1>1 DEF EnqueueCheck, TypeOK
  <2> QED
    BY <1>1, <1>2, <1>4, <2>1 DEF TypeOK
<1>8. /\ MutexInv' /\ SyncInv'
  BY <1>1, <1>2, <1>3, <1>4 DEF MutexInv, SyncInv
<1>9. EnqueueInv'
  <2>1. \A v \in Writers : v # w => ~(pc[v] \in Locked)
    BY <1>1, <1>3 DEF MutexInv
  <2>2. head < tail + N
    BY <1>1, <1>6, NAssumption DEF EnqueueInv
  <2> QED
    BY <1>1, <1>2, <1>4, <1>5, <2>1, <2>2 DEF EnqueueInv, Locked
<1>10. QueueInv'
  BY <1>1, <1>2, <1>3, <1>4, <1>5, <1>6 DEF QueueInv
<1>11. DequeueInv'
  BY <1>1, <1>2, <1>3, <1>4, <1>5, <1>6 DEF DequeueInv
<1>12. HoldInv'
  BY <1>1, <1>2, <1>3, <1>4, <1>5, <1>6 DEF HoldInv, Publishing
<1>13. WaitInv'
  <2>1. \A b \in Writers : NotDone(b)' <=> NotDone(b)
    BY <1>1, <1>2, <1>3, <1>4, <1>5, <1>6 DEF NotDone, Holds
  <2> QED
    BY <1>1, <1>2, <1>3, <1>4, <1>5, <1>6, <2>1 DEF WaitInv, NotSynced
<1>14. NumberInv'
  BY <1>1, <1>2, <1>3, <1>4, <1>5, <1>6 DEF NumberInv, EndOf
<1>15. VisibleInv'
  <2>1. \A b \in Writers : NotDone(b)' <=> NotDone(b)
    BY <1>1, <1>2, <1>3, <1>4, <1>5, <1>6 DEF NotDone, Holds
  <2> QED
    BY <1>1, <1>2, <1>3, <1>4, <1>5, <1>6, <2>1 DEF VisibleInv, EndOf
<1> QED
  BY <1>7, <1>8, <1>9, <1>10, <1>11, <1>12, <1>13, <1>14, <1>15 DEF IInv

\* The consumer whose compare-and-swap succeeds owns the batch it read: tail
\* has not moved since (commit.go:78).
LEMMA DequeueCasHitStep ==
  ASSUME IInv, UseQueue, NEW w \in Writers, DequeueCas(w), ptrs[w] = <<head, tail>>
  PROVE  IInv'
<1>1. /\ TypeOK /\ MutexInv /\ EnqueueInv /\ QueueInv /\ DequeueInv
      /\ HoldInv /\ WaitInv /\ SyncInv /\ NumberInv /\ VisibleInv
  BY DEF IInv
<1>2. /\ pc[w] = "cas" /\ pc'[w] = "clear" /\ pc' \in [Writers -> Labels]
      /\ (\A v \in Writers : v # w => pc'[v] = pc[v])
  BY <1>1 DEF DequeueCas, TypeOK, Goto, Labels
<1>3. /\ pc[w] \notin Preparing /\ pc[w] \notin Locked
      /\ pc[w] \notin Unapplied /\ pc[w] \in Publishing
      /\ pc[w] \in Numbered /\ pc[w] \in Enqueued /\ pc[w] \notin Holding
      /\ pc'[w] \in Holding
      /\ \A v \in Writers :
           /\ pc'[v] \in Preparing <=> pc[v] \in Preparing
           /\ pc'[v] \in Locked <=> pc[v] \in Locked
           /\ pc'[v] \in Unapplied <=> pc[v] \in Unapplied
           /\ pc'[v] \in Publishing <=> pc[v] \in Publishing
           /\ pc'[v] \in Numbered <=> pc[v] \in Numbered
           /\ pc'[v] \in Enqueued <=> pc[v] \in Enqueued
  BY <1>2 DEF Preparing, Locked, Unapplied, Publishing, Numbered, Enqueued,
     Holding
<1>4. /\ head' = head /\ slots' = slots /\ sem' = sem /\ mu' = mu
      /\ logSeqNum' = logSeqNum /\ visibleSeqNum' = visibleSeqNum
      /\ seq' = seq /\ cnt' = cnt /\ applied' = applied /\ wg' = wg
      /\ sync' = sync /\ commitErr' = commitErr /\ syncQueued' = syncQueued
      /\ pos' = pos /\ ptrs' = ptrs /\ cur' = cur /\ vis' = vis
      /\ memSeqs' = memSeqs /\ synced' = synced /\ panicked' = panicked
      /\ commits' = commits /\ errors' = errors
  BY DEF DequeueCas, queueVars, pipeVars, batchVars, localVars, histVars
<1>5. /\ tail' = tail + 1 /\ ptrs[w][2] = tail /\ cur[w] \in Writers
      /\ pc[cur[w]] \in Enqueued /\ pos[cur[w]] = tail
      /\ applied[cur[w]] = 1 /\ pc[cur[w]] \in Publishing
  <2>1. tail' = tail + 1 /\ ptrs[w][2] = tail
    BY DEF DequeueCas
  <2>2. /\ cur[w] \in Writers /\ pc[cur[w]] \in Enqueued /\ pos[cur[w]] = tail
        /\ applied[cur[w]] = 1
    BY <1>1, <1>2, <2>1 DEF DequeueInv
  <2>3. pc[cur[w]] \in Publishing
    BY <1>1, <2>2 DEF QueueInv
  <2> QED
    BY <2>1, <2>2, <2>3
<1>6. /\ head \in Nat /\ tail \in Nat /\ logSeqNum \in Nat /\ visibleSeqNum \in Nat
      /\ \A v \in Writers : /\ pos[v] \in Nat /\ seq[v] \in Nat /\ cnt[v] \in Nat
                           /\ wg[v] \in Int /\ vis[v] \in Nat /\ ptrs[v][2] \in Nat
  BY <1>1 DEF TypeOK
<1>7. TypeOK'
  <2>1. /\ tail' \in Nat
    BY <1>1 DEF DequeueCas, TypeOK
  <2> QED
    BY <1>1, <1>2, <1>4, <2>1 DEF TypeOK
<1>8. /\ MutexInv' /\ SyncInv' /\ NumberInv'
  BY <1>1, <1>2, <1>3, <1>4 DEF MutexInv, SyncInv, NumberInv, EndOf
<1>9. EnqueueInv'
  <2>1. tail < head
    BY <1>1, <1>2, <1>5 DEF DequeueInv
  <2> QED
    BY <1>1, <1>2, <1>3, <1>4, <1>5, <1>6, <2>1, NAssumption DEF EnqueueInv
<1>10. QueueInv'
  <2>1. \A v \in Writers : pc[v] \in Enqueued /\ pc[v] \notin Publishing => tail < pos[v]
    BY <1>1, <1>5, <1>6 DEF QueueInv
  <2> QED
    BY <1>1, <1>2, <1>3, <1>4, <1>5, <1>6, <2>1 DEF QueueInv
<1>11. DequeueInv'
  BY <1>1, <1>2, <1>3, <1>4, <1>5, <1>6 DEF DequeueInv
<1>12. HoldInv'
  <2>1. slots[Slot(tail)] = cur[w]
    <3>1. tail < head
      BY <1>1, <1>2, <1>5 DEF DequeueInv
    <3> QED
      BY <1>1, <1>5, <1>6, <3>1 DEF QueueInv
  <2>2. \A d \in Writers : pc[d] \in Holding => cur[d] # cur[w]
    BY <1>1, <1>5, <1>6 DEF HoldInv
  <2>3. \A d \in Writers : d # w => (pc'[d] \in Holding <=> pc[d] \in Holding)
    BY <1>2
  <2> QED
    BY <1>1, <1>2, <1>3, <1>4, <1>5, <1>6, <2>1, <2>2, <2>3 DEF HoldInv
<1>13. WaitInv'
  <2>1. \A b \in Writers : b # cur[w] => (NotDone(b)' <=> NotDone(b))
    <3>1. \A b \in Writers : pc[b] \in Enqueued /\ b # cur[w] => pos[b] # tail
      BY <1>1, <1>5 DEF QueueInv
    <3> QED
      BY <1>1, <1>2, <1>3, <1>4, <1>5, <1>6, <3>1 DEF NotDone, Holds
  <2>2. \A b \in Writers : b = cur[w] => NotDone(b)' /\ NotDone(b)
    BY <1>1, <1>2, <1>3, <1>4, <1>5, <1>6 DEF NotDone, Holds
  <2>3. \A b \in Writers : NotDone(b)' <=> NotDone(b)
    BY <2>1, <2>2
  <2> QED
    BY <1>1, <1>2, <1>3, <1>4, <1>5, <1>6, <2>3 DEF WaitInv, NotSynced
<1>14. VisibleInv'
  <2>1. \A b \in Writers : b # cur[w] => (NotDone(b)' <=> NotDone(b))
    <3>1. \A b \in Writers : pc[b] \in Enqueued /\ b # cur[w] => pos[b] # tail
      BY <1>1, <1>5 DEF QueueInv
    <3> QED
      BY <1>1, <1>2, <1>3, <1>4, <1>5, <1>6, <3>1 DEF NotDone, Holds
  <2>2. \A b \in Writers : b = cur[w] => NotDone(b)' /\ NotDone(b)
    BY <1>1, <1>2, <1>3, <1>4, <1>5, <1>6 DEF NotDone, Holds
  <2>3. \A b \in Writers : NotDone(b)' <=> NotDone(b)
    BY <2>1, <2>2
  <2> QED
    BY <1>1, <1>2, <1>3, <1>4, <1>5, <1>6, <2>3 DEF VisibleInv, EndOf
<1> QED
  BY <1>7, <1>8, <1>9, <1>10, <1>11, <1>12, <1>13, <1>14 DEF IInv

\* A failed compare-and-swap changes nothing (commit.go:78, 64).
LEMMA DequeueCasMissStep ==
  ASSUME IInv, UseQueue, NEW w \in Writers, DequeueCas(w), ptrs[w] # <<head, tail>>
  PROVE  IInv'
<1>1. /\ TypeOK /\ MutexInv /\ EnqueueInv /\ QueueInv /\ DequeueInv
      /\ HoldInv /\ WaitInv /\ SyncInv /\ NumberInv /\ VisibleInv
  BY DEF IInv
<1>2. /\ pc[w] = "cas" /\ pc'[w] = "load" /\ pc' \in [Writers -> Labels]
      /\ (\A v \in Writers : v # w => pc'[v] = pc[v])
  BY <1>1 DEF DequeueCas, TypeOK, Goto, Labels
<1>3. /\ pc[w] \notin Preparing /\ pc[w] \notin Locked
      /\ pc[w] \notin Unapplied /\ pc[w] \in Publishing
      /\ pc[w] \in Numbered /\ pc[w] \in Enqueued /\ pc[w] \notin Holding
      /\ \A v \in Writers :
           /\ pc'[v] \in Preparing <=> pc[v] \in Preparing
           /\ pc'[v] \in Locked <=> pc[v] \in Locked
           /\ pc'[v] \in Unapplied <=> pc[v] \in Unapplied
           /\ pc'[v] \in Publishing <=> pc[v] \in Publishing
           /\ pc'[v] \in Numbered <=> pc[v] \in Numbered
           /\ pc'[v] \in Enqueued <=> pc[v] \in Enqueued
           /\ pc'[v] \in Holding <=> pc[v] \in Holding
  BY <1>2 DEF Preparing, Locked, Unapplied, Publishing, Numbered, Enqueued,
     Holding
<1>4. /\ head' = head /\ tail' = tail /\ slots' = slots /\ sem' = sem
      /\ mu' = mu /\ logSeqNum' = logSeqNum
      /\ visibleSeqNum' = visibleSeqNum /\ seq' = seq /\ cnt' = cnt
      /\ applied' = applied /\ wg' = wg /\ sync' = sync
      /\ commitErr' = commitErr /\ syncQueued' = syncQueued /\ pos' = pos
      /\ ptrs' = ptrs /\ cur' = cur /\ vis' = vis /\ memSeqs' = memSeqs
      /\ synced' = synced /\ panicked' = panicked /\ commits' = commits
      /\ errors' = errors
  BY DEF DequeueCas, queueVars, pipeVars, batchVars, localVars, histVars
<1>6. /\ head \in Nat /\ tail \in Nat /\ logSeqNum \in Nat /\ visibleSeqNum \in Nat
      /\ \A v \in Writers : /\ pos[v] \in Nat /\ seq[v] \in Nat /\ cnt[v] \in Nat
                           /\ wg[v] \in Int /\ vis[v] \in Nat /\ ptrs[v][2] \in Nat
  BY <1>1 DEF TypeOK
<1>7. TypeOK'
  BY <1>1, <1>2, <1>4 DEF TypeOK
<1>8. /\ MutexInv' /\ EnqueueInv' /\ QueueInv' /\ HoldInv' /\ WaitInv'
      /\ SyncInv' /\ NumberInv' /\ VisibleInv'
  BY <1>1, <1>2, <1>3, <1>4 DEF MutexInv, EnqueueInv, QueueInv, HoldInv,
     WaitInv, NotDone, NotSynced, Holds, SyncInv, NumberInv, EndOf, VisibleInv
<1>9. DequeueInv'
  BY <1>1, <1>2, <1>3, <1>4, <1>6 DEF DequeueInv
<1> QED
  BY <1>7, <1>8, <1>9 DEF IInv

\* publish raises visibleSeqNum over numbers that are all applied
\* (commit.go:195-197).
LEMMA VisibleCasHitStep ==
  ASSUME IInv, UseQueue, NEW w \in Writers, VisibleCas(w), visibleSeqNum = vis[w]
  PROVE  IInv'
<1>1. /\ TypeOK /\ MutexInv /\ EnqueueInv /\ QueueInv /\ DequeueInv
      /\ HoldInv /\ WaitInv /\ SyncInv /\ NumberInv /\ VisibleInv
  BY DEF IInv
<1>2. /\ pc[w] = "viscas" /\ pc'[w] = "done" /\ pc' \in [Writers -> Labels]
      /\ (\A v \in Writers : v # w => pc'[v] = pc[v])
  BY <1>1 DEF VisibleCas, TypeOK, Goto, AfterPublish, Labels
<1>3. /\ pc[w] \notin Preparing /\ pc[w] \notin Locked
      /\ pc[w] \notin Unapplied /\ pc[w] \in Publishing
      /\ pc[w] \in Numbered /\ pc[w] \in Enqueued /\ pc[w] \in Holding
      /\ \A v \in Writers :
           /\ pc'[v] \in Preparing <=> pc[v] \in Preparing
           /\ pc'[v] \in Locked <=> pc[v] \in Locked
           /\ pc'[v] \in Unapplied <=> pc[v] \in Unapplied
           /\ pc'[v] \in Publishing <=> pc[v] \in Publishing
           /\ pc'[v] \in Numbered <=> pc[v] \in Numbered
           /\ pc'[v] \in Enqueued <=> pc[v] \in Enqueued
           /\ pc'[v] \in Holding <=> pc[v] \in Holding
  BY <1>2 DEF Preparing, Locked, Unapplied, Publishing, Numbered, Enqueued,
     Holding
<1>4. /\ head' = head /\ tail' = tail /\ slots' = slots /\ sem' = sem
      /\ mu' = mu /\ logSeqNum' = logSeqNum /\ seq' = seq /\ cnt' = cnt
      /\ applied' = applied /\ wg' = wg /\ sync' = sync
      /\ commitErr' = commitErr /\ syncQueued' = syncQueued /\ pos' = pos
      /\ ptrs' = ptrs /\ cur' = cur /\ vis' = vis /\ memSeqs' = memSeqs
      /\ synced' = synced /\ panicked' = panicked /\ commits' = commits
      /\ errors' = errors
  BY DEF VisibleCas, queueVars, pipeVars, batchVars, localVars, histVars
<1>5. /\ visibleSeqNum' = EndOf(cur[w]) /\ visibleSeqNum < EndOf(cur[w])
      /\ cur[w] \in Writers /\ pc[cur[w]] \in Publishing
      /\ pos[cur[w]] < tail
  <2>1. visibleSeqNum' = EndOf(cur[w])
    BY DEF VisibleCas
  <2>2. visibleSeqNum < EndOf(cur[w])
    BY <1>1, <1>2 DEF VisibleInv
  <2>3. cur[w] \in Writers /\ pc[cur[w]] \in Publishing /\ pos[cur[w]] < tail
    BY <1>1, <1>3 DEF HoldInv
  <2> QED
    BY <2>1, <2>2, <2>3
<1>6. /\ head \in Nat /\ tail \in Nat /\ logSeqNum \in Nat /\ visibleSeqNum \in Nat
      /\ \A v \in Writers : /\ pos[v] \in Nat /\ seq[v] \in Nat /\ cnt[v] \in Nat
                           /\ wg[v] \in Int /\ vis[v] \in Nat /\ ptrs[v][2] \in Nat
  BY <1>1 DEF TypeOK
<1>7. TypeOK'
  <2>1. visibleSeqNum' \in Nat
    BY <1>5, <1>6 DEF EndOf
  <2> QED
    BY <1>1, <1>2, <1>4, <2>1 DEF TypeOK
<1>8. /\ MutexInv' /\ EnqueueInv' /\ QueueInv' /\ DequeueInv' /\ HoldInv'
      /\ WaitInv' /\ SyncInv' /\ NumberInv'
  BY <1>1, <1>2, <1>3, <1>4 DEF MutexInv, EnqueueInv, QueueInv, DequeueInv,
     HoldInv, WaitInv, NotDone, NotSynced, Holds, SyncInv, NumberInv, EndOf
<1>9. VisibleInv'
  <2>1. \A b \in Writers : NotDone(b)' <=> NotDone(b)
    BY <1>1, <1>2, <1>3, <1>4 DEF NotDone, Holds
  <2>2. pc[cur[w]] \in Numbered
    BY <1>5 DEF Publishing, Numbered
  <2>3. EndOf(cur[w]) \in Nat /\ EndOf(cur[w]) <= logSeqNum
    BY <1>1, <1>5, <1>6, <2>2 DEF NumberInv, EndOf
  <2>4. \A v \in Writers : pc[v] \in Unapplied => EndOf(cur[w]) <= seq[v]
    <3>1. \A v \in Writers : pc[v] \in Unapplied =>
            pc[v] \in Numbered /\ pc[v] \in Enqueued /\ pc[v] \notin Publishing
      BY DEF Unapplied, Numbered, Enqueued, Publishing
    <3>2. \A v \in Writers : pc[v] \in Unapplied => pos[cur[w]] < pos[v]
      BY <1>1, <1>5, <1>6, <3>1 DEF QueueInv
    <3> QED
      BY <1>1, <1>5, <2>2, <3>1, <3>2 DEF NumberInv
  <2>5. \A s \in Nat : 1 <= s /\ s < EndOf(cur[w]) => s \in memSeqs
    BY <1>1, <1>6, <2>3, <2>4 DEF NumberInv
  <2>6. \A v \in Writers : EndOf(v)' = EndOf(v) /\ EndOf(v) \in Nat
    BY <1>4, <1>6 DEF EndOf
  <2>7. \A d \in Writers : /\ pc'[d] = "viscas" => vis'[d] < EndOf(cur[d])'
                           /\ pc'[d] = "done" => EndOf(cur[d])' <= visibleSeqNum'
    BY <1>1, <1>2, <1>4, <1>5, <1>6, <2>3 DEF VisibleInv, EndOf, HoldInv,
       Holding
  <2>8. \A b \in Writers :
          pc'[b] \in Publishing /\ ~NotDone(b)' => EndOf(b)' <= visibleSeqNum'
    BY <1>1, <1>2, <1>3, <1>5, <1>6, <2>1, <2>3, <2>6 DEF VisibleInv
  <2> QED
    BY <1>1, <1>4, <1>5, <1>6, <2>3, <2>5, <2>7, <2>8 DEF VisibleInv
<1> QED
  BY <1>7, <1>8, <1>9 DEF IInv

\* A failed compare-and-swap is tried again (commit.go:189, 195).
LEMMA VisibleCasMissStep ==
  ASSUME IInv, UseQueue, NEW w \in Writers, VisibleCas(w), visibleSeqNum # vis[w]
  PROVE  IInv'
<1>1. /\ TypeOK /\ MutexInv /\ EnqueueInv /\ QueueInv /\ DequeueInv
      /\ HoldInv /\ WaitInv /\ SyncInv /\ NumberInv /\ VisibleInv
  BY DEF IInv
<1>2. /\ pc[w] = "viscas" /\ pc'[w] = "visload"
      /\ pc' \in [Writers -> Labels]
      /\ (\A v \in Writers : v # w => pc'[v] = pc[v])
  BY <1>1 DEF VisibleCas, TypeOK, Goto, AfterPublish, Labels
<1>3. /\ pc[w] \notin Preparing /\ pc[w] \notin Locked
      /\ pc[w] \notin Unapplied /\ pc[w] \in Publishing
      /\ pc[w] \in Numbered /\ pc[w] \in Enqueued /\ pc[w] \in Holding
      /\ \A v \in Writers :
           /\ pc'[v] \in Preparing <=> pc[v] \in Preparing
           /\ pc'[v] \in Locked <=> pc[v] \in Locked
           /\ pc'[v] \in Unapplied <=> pc[v] \in Unapplied
           /\ pc'[v] \in Publishing <=> pc[v] \in Publishing
           /\ pc'[v] \in Numbered <=> pc[v] \in Numbered
           /\ pc'[v] \in Enqueued <=> pc[v] \in Enqueued
           /\ pc'[v] \in Holding <=> pc[v] \in Holding
  BY <1>2 DEF Preparing, Locked, Unapplied, Publishing, Numbered, Enqueued,
     Holding
<1>4. /\ head' = head /\ tail' = tail /\ slots' = slots /\ sem' = sem
      /\ mu' = mu /\ logSeqNum' = logSeqNum
      /\ visibleSeqNum' = visibleSeqNum /\ seq' = seq /\ cnt' = cnt
      /\ applied' = applied /\ wg' = wg /\ sync' = sync
      /\ commitErr' = commitErr /\ syncQueued' = syncQueued /\ pos' = pos
      /\ ptrs' = ptrs /\ cur' = cur /\ vis' = vis /\ memSeqs' = memSeqs
      /\ synced' = synced /\ panicked' = panicked /\ commits' = commits
      /\ errors' = errors
  BY DEF VisibleCas, queueVars, pipeVars, batchVars, localVars, histVars
<1>6. /\ head \in Nat /\ tail \in Nat /\ logSeqNum \in Nat /\ visibleSeqNum \in Nat
      /\ \A v \in Writers : /\ pos[v] \in Nat /\ seq[v] \in Nat /\ cnt[v] \in Nat
                           /\ wg[v] \in Int /\ vis[v] \in Nat /\ ptrs[v][2] \in Nat
  BY <1>1 DEF TypeOK
<1>7. TypeOK'
  BY <1>1, <1>2, <1>4 DEF TypeOK
<1>8. /\ MutexInv' /\ EnqueueInv' /\ QueueInv' /\ DequeueInv' /\ HoldInv'
      /\ WaitInv' /\ SyncInv' /\ NumberInv'
  BY <1>1, <1>2, <1>3, <1>4 DEF MutexInv, EnqueueInv, QueueInv, DequeueInv,
     HoldInv, WaitInv, NotDone, NotSynced, Holds, SyncInv, NumberInv, EndOf
<1>9. VisibleInv'
  BY <1>1, <1>2, <1>3, <1>4, <1>6 DEF VisibleInv, NotDone, Holds, EndOf
<1> QED
  BY <1>7, <1>8, <1>9 DEF IInv

\* The LogWriter calls the Done it owes the batch.
LEMMA SyncDoneStep ==
  ASSUME IInv, UseQueue, NEW w \in Writers, SyncDone(w)
  PROVE  IInv'
<1>1. /\ TypeOK /\ MutexInv /\ EnqueueInv /\ QueueInv /\ DequeueInv
      /\ HoldInv /\ WaitInv /\ SyncInv /\ NumberInv /\ VisibleInv
  BY DEF IInv
<1>2. /\ pc' = pc
  BY <1>1 DEF SyncDone
<1>4. /\ head' = head /\ tail' = tail /\ slots' = slots /\ sem' = sem
      /\ mu' = mu /\ logSeqNum' = logSeqNum
      /\ visibleSeqNum' = visibleSeqNum /\ seq' = seq /\ cnt' = cnt
      /\ applied' = applied /\ sync' = sync /\ pos' = pos /\ ptrs' = ptrs
      /\ cur' = cur /\ vis' = vis /\ memSeqs' = memSeqs
      /\ panicked' = panicked /\ commits' = commits /\ errors' = errors
  BY DEF SyncDone, queueVars, pipeVars, batchVars, localVars, histVars
<1>5. /\ w \in syncQueued /\ syncQueued' = syncQueued \ {w}
      /\ wg'[w] = wg[w] - 1
      /\ (\A v \in Writers : v # w => wg'[v] = wg[v])
      /\ commitErr \subseteq commitErr' /\ synced \subseteq synced'
      /\ w \in commitErr' \cup synced'
  BY <1>1, <1>2 DEF SyncDone, TypeOK
<1>6. /\ head \in Nat /\ tail \in Nat /\ logSeqNum \in Nat /\ visibleSeqNum \in Nat
      /\ \A v \in Writers : /\ pos[v] \in Nat /\ seq[v] \in Nat /\ cnt[v] \in Nat
                           /\ wg[v] \in Int /\ vis[v] \in Nat /\ ptrs[v][2] \in Nat
  BY <1>1 DEF TypeOK
<1>7. TypeOK'
  <2>1. syncQueued' \subseteq Writers /\ commitErr' \subseteq Writers /\ synced' \subseteq Writers
    <3>1. syncQueued \subseteq Writers /\ commitErr \subseteq Writers /\ synced \subseteq Writers
      BY <1>1 DEF TypeOK
    <3> QED
      BY <3>1 DEF SyncDone
  <2>2. wg' \in [Writers -> Int]
    <3>1. wg \in [Writers -> Int] /\ wg' = [wg EXCEPT ![w] = wg[w] - 1]
      BY <1>1 DEF TypeOK, SyncDone
    <3>2. wg[w] - 1 \in Int
      BY <3>1
    <3> QED
      BY <3>1, <3>2
  <2> QED
    BY <1>1, <1>2, <1>4, <2>1, <2>2 DEF TypeOK
<1>8. /\ MutexInv' /\ EnqueueInv' /\ QueueInv' /\ DequeueInv' /\ HoldInv'
      /\ NumberInv' /\ VisibleInv'
  BY <1>1, <1>2, <1>4 DEF MutexInv, EnqueueInv, QueueInv, DequeueInv,
     HoldInv, NumberInv, EndOf, VisibleInv, NotDone, Holds
<1>9. WaitInv'
  <2>1. \A b \in Writers : NotDone(b)' <=> NotDone(b)
    BY <1>2, <1>4 DEF NotDone, Holds
  <2>2. NotSynced(w) /\ ~NotSynced(w)' /\ (\A b \in Writers : b # w => (NotSynced(b)' <=> NotSynced(b)))
    BY <1>1, <1>2, <1>4, <1>5 DEF NotSynced, WaitInv
  <2> QED
    BY <1>1, <1>2, <1>4, <1>5, <1>6, <2>1, <2>2 DEF WaitInv
<1>10. SyncInv'
  BY <1>1, <1>2, <1>4, <1>5 DEF SyncInv
<1> QED
  BY <1>7, <1>8, <1>9, <1>10 DEF IInv

\* A step that changes nothing preserves the invariant.
LEMMA StutterStep ==
  ASSUME IInv, UseQueue, UNCHANGED vars
  PROVE  IInv'
<1>1. /\ TypeOK /\ MutexInv /\ EnqueueInv /\ QueueInv /\ DequeueInv
      /\ HoldInv /\ WaitInv /\ SyncInv /\ NumberInv /\ VisibleInv
  BY DEF IInv
<1>2. /\ pc' = pc
  BY <1>1 DEF vars
<1>4. /\ head' = head /\ tail' = tail /\ slots' = slots /\ sem' = sem
      /\ mu' = mu /\ logSeqNum' = logSeqNum
      /\ visibleSeqNum' = visibleSeqNum /\ seq' = seq /\ cnt' = cnt
      /\ applied' = applied /\ wg' = wg /\ sync' = sync
      /\ commitErr' = commitErr /\ syncQueued' = syncQueued /\ pos' = pos
      /\ ptrs' = ptrs /\ cur' = cur /\ vis' = vis /\ memSeqs' = memSeqs
      /\ synced' = synced /\ panicked' = panicked /\ commits' = commits
      /\ errors' = errors
  BY DEF vars, queueVars, pipeVars, batchVars, localVars, histVars
<1>6. /\ head \in Nat /\ tail \in Nat /\ logSeqNum \in Nat /\ visibleSeqNum \in Nat
      /\ \A v \in Writers : /\ pos[v] \in Nat /\ seq[v] \in Nat /\ cnt[v] \in Nat
                           /\ wg[v] \in Int /\ vis[v] \in Nat /\ ptrs[v][2] \in Nat
  BY <1>1 DEF TypeOK
<1>7. TypeOK'
  BY <1>1, <1>2, <1>4 DEF TypeOK
<1>8. /\ MutexInv' /\ EnqueueInv' /\ QueueInv' /\ DequeueInv' /\ HoldInv'
      /\ WaitInv' /\ SyncInv' /\ NumberInv' /\ VisibleInv'
  BY <1>1, <1>2, <1>4 DEF MutexInv, EnqueueInv, QueueInv, DequeueInv,
     HoldInv, WaitInv, NotDone, NotSynced, Holds, SyncInv, NumberInv, EndOf,
     VisibleInv
<1> QED
  BY <1>7, <1>8 DEF IInv

(***************************************************************************)
(* The invariant.                                                          *)
(***************************************************************************)

\* The empty pipeline of a fresh store (newCommitPipeline) satisfies it.
LEMMA InitInv == Init => IInv
<1> SUFFICES ASSUME Init PROVE IInv
  OBVIOUS
<1>1. \A w \in Writers : /\ pc[w] = "idle" /\ pc[w] \notin Preparing
                         /\ pc[w] \notin Locked /\ pc[w] \notin Unapplied
                         /\ pc[w] \notin Publishing /\ pc[w] \notin Numbered
                         /\ pc[w] \notin Enqueued /\ pc[w] \notin Holding
  BY DEF Init, Preparing, Locked, Unapplied, Publishing, Numbered, Enqueued, Holding
<1>2. TypeOK
  <2>1. /\ head \in Nat /\ tail \in Nat /\ sem \in Int /\ mu \in Writers \cup {NULL}
        /\ logSeqNum \in Nat /\ visibleSeqNum \in Nat
        /\ commits \in Nat /\ errors \in Nat
    BY NAssumption DEF Init
  <2>5. /\ memSeqs \subseteq Nat /\ synced \subseteq Writers /\ sync \subseteq Writers
        /\ commitErr \subseteq Writers /\ syncQueued \subseteq Writers
        /\ panicked \in BOOLEAN
    BY DEF Init
  <2>2. slots \in [0..(N - 1) -> Writers \cup {NULL}]
    BY DEF Init
  <2>3. /\ seq \in [Writers -> Nat] /\ cnt \in [Writers -> Nat]
        /\ applied \in [Writers -> {0, 1}] /\ wg \in [Writers -> Int]
        /\ pos \in [Writers -> Nat] /\ ptrs \in [Writers -> Nat \X Nat]
        /\ cur \in [Writers -> Writers \cup {NULL}] /\ vis \in [Writers -> Nat]
    BY DEF Init
  <2>4. pc \in [Writers -> Labels]
    BY DEF Init, Labels
  <2> QED
    BY <2>1, <2>2, <2>3, <2>4, <2>5 DEF TypeOK
<1>3. MutexInv /\ EnqueueInv /\ QueueInv /\ DequeueInv /\ HoldInv
  BY <1>1, NAssumption DEF Init, MutexInv, EnqueueInv, QueueInv, DequeueInv, HoldInv
<1>4. WaitInv /\ SyncInv
  BY <1>1 DEF Init, WaitInv, SyncInv, NotDone, NotSynced, Holds
<1>5. NumberInv /\ VisibleInv
  BY <1>1 DEF Init, NumberInv, VisibleInv
<1> QED
  BY <1>2, <1>3, <1>4, <1>5 DEF IInv

\* Every step of commit.go or of the LogWriter preserves it.
LEMMA NextInv == ASSUME UseQueue, IInv, [Next]_vars PROVE IInv'
<1>1. CASE UNCHANGED vars
  BY <1>1, StutterStep
<1>2. ASSUME NEW w \in Writers, Commit(w) \/ Step(w) \/ SyncDone(w)
      PROVE  IInv'
  <2>1. CASE Commit(w)
    BY <2>1, CommitStep
  <2>2. CASE SyncDone(w)
    BY <2>2, SyncDoneStep
  <2>3. CASE Prepare(w)
    <3>1. ASSUME EnqueueCheck(w) PROVE IInv'
      BY <3>1, EnqueuePanicStep, EnqueueRoomStep
    <3> QED
      BY <2>3, <3>1, LockStep, EnqueueSpinStep, EnqueueStoreStep,
         EnqueueAdvanceStep, WriteStep, WriteErrorStep DEF Prepare
  <2>4. CASE Dequeue(w)
    <3>1. ASSUME DequeueCas(w) PROVE IInv'
      BY <3>1, DequeueCasHitStep, DequeueCasMissStep
    <3> QED
      BY <2>4, <3>1, DequeueLoadStep, DequeueSlotStep, DequeueAppliedStep,
         DequeueClearStep DEF Dequeue
  <2>5. ASSUME VisibleCas(w) PROVE IInv'
    BY <2>5, VisibleCasHitStep, VisibleCasMissStep
  <2> QED
    BY <1>2, <2>1, <2>2, <2>3, <2>4, <2>5, ApplyStep, ApplyErrorStep,
       PublishStep, VisibleLoadStep, DoneStep, ReturnStep DEF Step
<1> QED
  BY <1>1, <1>2 DEF Next

\* The inductive invariant holds in every reachable state of the pipeline.
THEOREM Invariance == ASSUME UseQueue PROVE Spec => []IInv
<1>1. IInv /\ [Next]_vars => IInv'
  BY NextInv
<1> QED
  BY <1>1, InitInv, PTL DEF Spec

\* Type correctness of the pipeline's state (commit.go:26-29, 93-98).
THEOREM TypeCorrect == ASSUME UseQueue PROVE Spec => []TypeOK
<1>1. IInv => TypeOK
  BY DEF IInv
<1> QED
  BY <1>1, Invariance, PTL

(***************************************************************************)
(* Which action does what.                                                 *)
(***************************************************************************)

\* The numbers below n, as an interval.
LEMMA BelowSubset ==
  ASSUME NEW n \in Nat, NEW S, \A s \in Nat : 1 <= s /\ s < n => s \in S
  PROVE  1..(n - 1) \subseteq S
OBVIOUS

\* Only Return takes a goroutine out of commit.Wait, and it finds the WaitGroup
\* at zero.
LEMMA ReturnsIsReturn ==
  ASSUME TypeOK, NEW u \in Writers, NEW w \in Writers,
         Commit(u) \/ Step(u) \/ SyncDone(u), Returns(w)
  PROVE  wg[w] = 0
<1>1. pc \in [Writers -> Labels] /\ pc[w] = "wait" /\ pc'[w] = "idle"
  BY DEF TypeOK, Returns
<1>2. CASE Commit(u)
  BY <1>1, <1>2 DEF Commit, Goto
<1>3. CASE SyncDone(u)
  BY <1>1, <1>3 DEF SyncDone
<1>4. CASE Prepare(u)
  BY <1>1, <1>4 DEF Prepare, Lock, EnqueueCheck, EnqueueSpin, EnqueueStore,
     EnqueueAdvance, Write, WriteError, Goto
<1>5. CASE Dequeue(u)
  BY <1>1, <1>5 DEF Dequeue, DequeueLoad, DequeueSlot, DequeueApplied,
     DequeueCas, DequeueClear, Goto
<1>6. CASE Apply(u) \/ ApplyError(u) \/ Publish(u)
  BY <1>1, <1>6 DEF Apply, ApplyError, Publish, Goto
<1>7. CASE VisibleLoad(u) \/ VisibleCas(u) \/ Done(u)
  BY <1>1, <1>7 DEF VisibleLoad, VisibleCas, Done, AfterPublish, Goto
<1>8. CASE Return(u)
  BY <1>1, <1>8 DEF Return, Goto
<1> QED
  BY <1>2, <1>3, <1>4, <1>5, <1>6, <1>7, <1>8 DEF Step

\* Only write, apply and publish change what CommitOrder observes.
LEMMA OnlyTheseChange ==
  ASSUME [Next]_vars, ~UNCHANGED <<logSeqNum, visibleSeqNum, memSeqs>>
  PROVE  \E w \in Writers :
           \/ Write(w) \/ WriteError(w) \/ Apply(w)
           \/ VisibleCas(w) /\ visibleSeqNum' # visibleSeqNum
<1>1. PICK w \in Writers : Commit(w) \/ Step(w) \/ SyncDone(w)
  BY DEF Next, vars, pipeVars, histVars
<1>2. ~Commit(w) /\ ~SyncDone(w) /\ ~ApplyError(w) /\ ~Publish(w)
  BY DEF Commit, SyncDone, ApplyError, Publish, pipeVars, histVars
<1>3. Prepare(w) => Write(w) \/ WriteError(w)
  BY DEF Prepare, Lock, EnqueueCheck, EnqueueSpin, EnqueueStore,
     EnqueueAdvance, pipeVars, histVars
<1>4. ~Dequeue(w)
  BY DEF Dequeue, DequeueLoad, DequeueSlot, DequeueApplied, DequeueCas,
     DequeueClear, pipeVars, histVars
<1>5. ~VisibleLoad(w) /\ ~Done(w) /\ ~Return(w)
  BY DEF VisibleLoad, Done, Return, pipeVars, histVars
<1>6. VisibleCas(w) => visibleSeqNum' # visibleSeqNum
  BY DEF VisibleCas, histVars
<1> QED
  BY <1>1, <1>2, <1>3, <1>4, <1>5, <1>6 DEF Step

\* A successful compare-and-swap raises visibleSeqNum.
LEMMA RaisesVisible ==
  ASSUME IInv, NEW w \in Writers, VisibleCas(w), visibleSeqNum' # visibleSeqNum
  PROVE  visibleSeqNum' > visibleSeqNum /\ visibleSeqNum' \in Nat
<1>1. visibleSeqNum' = EndOf(cur[w]) /\ vis[w] = visibleSeqNum /\ pc[w] = "viscas"
  BY DEF VisibleCas, Goto
<1>2. vis[w] < EndOf(cur[w])
  BY <1>1 DEF IInv, VisibleInv
<1>3. cur[w] \in Writers
  BY <1>1 DEF IInv, HoldInv, Holding
<1>4. seq \in [Writers -> Nat] /\ cnt \in [Writers -> Nat] /\ visibleSeqNum \in Nat
  BY DEF IInv, TypeOK
<1>5. EndOf(cur[w]) \in Nat
  BY <1>3, <1>4 DEF EndOf
<1> QED
  BY <1>1, <1>2, <1>4, <1>5

(***************************************************************************)
(* What it implies.                                                        *)
(***************************************************************************)

\* Every sequence number below visibleSeqNum is in a memtable (publish,
\* commit.go:174-214), so a reader's snapshot has no holes.
THEOREM SnapshotsComplete == Spec => []VisibleApplied
<1>1. CASE UseQueue
  <2>1. IInv => VisibleApplied
    <3> SUFFICES ASSUME IInv PROVE 1..(visibleSeqNum - 1) \subseteq memSeqs
      BY DEF VisibleApplied
    <3>1. /\ visibleSeqNum \in Nat
          /\ \A s \in Nat : 1 <= s /\ s < visibleSeqNum => s \in memSeqs
      BY DEF IInv, TypeOK, VisibleInv
    <3> QED
      BY <3>1, BelowSubset
  <2> QED
    BY <1>1, <2>1, Invariance, PTL
<1>2. CASE ~UseQueue
  <2>1. VisibleApplied
    BY <1>2 DEF VisibleApplied
  <2> QED
    BY <2>1, PTL
<1> QED
  BY <1>1, <1>2

\* No WaitGroup counter goes negative (commit.go:200): each batch is
\* published once, and no stale pointer to a reused batch is acted upon.
THEOREM NoDoubleDone == ASSUME UseQueue PROVE Spec => []DoneAtMostOnce
<1>1. IInv => DoneAtMostOnce
  BY DEF IInv, WaitInv, DoneAtMostOnce
<1> QED
  BY <1>1, Invariance, PTL

\* A batch that publish has dequeued is applied (the check of commit.go:185).
THEOREM PublishesApplied == ASSUME UseQueue PROVE Spec => []DequeuedApplied
<1>1. IInv => DequeuedApplied
  BY DEF IInv, HoldInv, QueueInv, Holding, DequeuedApplied
<1> QED
  BY <1>1, Invariance, PTL

\* No enqueued batch is overwritten or cleared before it is dequeued
\* (enqueue and dequeue, commit.go:46-83).
THEOREM NoBatchLost == ASSUME UseQueue PROVE Spec => []QueueKeepsBatches
<1>1. IInv => QueueKeepsBatches
  <2> SUFFICES ASSUME IInv, NEW i \in tail..(head - 1)
               PROVE  slots[Slot(i)] # NULL /\ pos[slots[Slot(i)]] = i
    BY DEF QueueKeepsBatches
  <2>1. tail \in Nat /\ head \in Nat
    BY DEF IInv, TypeOK
  <2>2. i \in Nat /\ tail <= i /\ i < head
    BY <2>1
  <2> QED
    BY <2>2, WritersAssumption DEF IInv, QueueInv
<1> QED
  BY <1>1, Invariance, PTL

\* A batch is visible when its Commit returns (commit.go:108-137).
THEOREM ReadYourWrites == ASSUME UseQueue PROVE Spec => ReturnsVisible
<1>1. IInv /\ [Next]_vars
        => [\A w \in Writers : Returns(w) => EndOf(w) <= visibleSeqNum]_vars
  <2> SUFFICES ASSUME IInv, NEW u \in Writers, NEW w \in Writers, Returns(w),
                      Commit(u) \/ Step(u) \/ SyncDone(u)
               PROVE  EndOf(w) <= visibleSeqNum
    BY DEF Next
  <2>1. wg[w] = 0
    BY ReturnsIsReturn DEF IInv
  <2>2. pc[w] \in Publishing /\ ~NotDone(w)
    BY <2>1 DEF Returns, Publishing, IInv, WaitInv
  <2> QED
    BY <2>2 DEF IInv, VisibleInv
<1> QED
  BY <1>1, Invariance, PTL DEF Spec, ReturnsVisible

\* A synchronous Commit that returns nil is on disk, whichever of publish and
\* the LogWriter made its last Done.
THEOREM SyncedOnReturn == ASSUME UseQueue PROVE Spec => ReturnsSynced
<1>1. IInv /\ [Next]_vars
        => [\A w \in Writers :
              Returns(w) /\ w \in sync \ commitErr => w \in synced]_vars
  <2> SUFFICES ASSUME IInv, NEW u \in Writers, NEW w \in Writers, Returns(w),
                      Commit(u) \/ Step(u) \/ SyncDone(u),
                      w \in sync \ commitErr
               PROVE  w \in synced
    BY DEF Next
  <2>1. wg[w] = 0
    BY ReturnsIsReturn DEF IInv
  <2>2. w \notin syncQueued
    BY <2>1 DEF IInv, WaitInv, NotSynced
  <2>3. pc[w] \in Numbered /\ pc[w] # "failed"
    BY DEF Returns, Numbered
  <2> QED
    BY <2>2, <2>3 DEF IInv, SyncInv
<1> QED
  BY <1>1, Invariance, PTL DEF Spec, ReturnsSynced

\* visibleSeqNum never moves back (the compare-and-swap loop, commit.go:189-198).
THEOREM VisibleForward == ASSUME UseQueue PROVE Spec => VisibleMonotone
<1>1. IInv /\ [Next]_vars => [visibleSeqNum' >= visibleSeqNum]_vars
  <2> SUFFICES ASSUME IInv, [Next]_vars PROVE visibleSeqNum' >= visibleSeqNum
    OBVIOUS
  <2>1. visibleSeqNum \in Nat
    BY DEF IInv, TypeOK
  <2>2. CASE UNCHANGED visibleSeqNum
    BY <2>1, <2>2
  <2>3. ASSUME NEW w \in Writers, VisibleCas(w), visibleSeqNum' # visibleSeqNum
        PROVE  visibleSeqNum' >= visibleSeqNum
    <3>1. visibleSeqNum' > visibleSeqNum /\ visibleSeqNum' \in Nat
      BY <2>3, RaisesVisible
    <3> QED
      BY <2>1, <3>1
  <2>4. ASSUME NEW w \in Writers, Write(w) \/ WriteError(w) \/ Apply(w)
        PROVE  UNCHANGED visibleSeqNum
    BY <2>4 DEF Write, WriteError, Apply, pipeVars
  <2> QED
    BY <2>2, <2>3, <2>4, OnlyTheseChange
<1> QED
  BY <1>1, Invariance, PTL DEF Spec, VisibleMonotone

\* The pipeline implements the contract of CommitOrder: sequence numbers are
\* reserved once, applied once, and revealed in order and without holes.
THEOREM Refinement == ASSUME UseQueue PROVE Spec => ImplementsOrder
<1>1. Init => Order!Init
  BY DEF Init, Order!Init
<1>2. ASSUME IInv, [Next]_vars PROVE [Order!Next]_(Order!vars)
  <2>1. CASE UNCHANGED <<logSeqNum, visibleSeqNum, memSeqs>>
    BY <2>1 DEF Order!vars
  <2>2. ASSUME NEW w \in Writers, Write(w) \/ WriteError(w) PROVE Order!Reserve
    <3>1. pc[w] \in Preparing
      BY <2>2 DEF Write, WriteError, Goto, Preparing
    <3>2. cnt[w] \in Counts
      BY <1>2, <3>1 DEF IInv, NumberInv
    <3> QED
      BY <2>2, <3>2 DEF Write, WriteError, histVars, Order!Reserve
  <2>3. ASSUME NEW w \in Writers, Apply(w) PROVE Order!Insert
    <3>1. pc[w] \in Numbered /\ pc[w] \in Unapplied
      BY <2>3 DEF Apply, Goto, Numbered, Unapplied
    <3>2. /\ cnt[w] \in Counts /\ 1 <= seq[w] /\ EndOf(w) <= logSeqNum
          /\ \A s \in memSeqs : s < seq[w] \/ EndOf(w) <= s
      BY <1>2, <3>1 DEF IInv, NumberInv
    <3>3. seq[w] \in Nat /\ cnt[w] \in Nat /\ logSeqNum \in Nat /\ memSeqs \subseteq Nat
      BY <1>2 DEF IInv, TypeOK
    <3>4. cnt[w] >= 1
      <4>1. cnt[w] \in Nat \ {0}
        BY <3>2, CountsAssumption
      <4> QED
        BY <4>1
    <3>5. seq[w] \in 1..(logSeqNum - 1) /\ seq[w] + cnt[w] <= logSeqNum
      BY <3>2, <3>3, <3>4 DEF EndOf
    <3>6. SeqsOf(w) \cap memSeqs = {}
      BY <3>2, <3>3 DEF SeqsOf, EndOf
    <3>7. memSeqs' = memSeqs \cup SeqsOf(w) /\ UNCHANGED <<logSeqNum, visibleSeqNum>>
      BY <2>3 DEF Apply, pipeVars
    <3> QED
      BY <3>2, <3>5, <3>6, <3>7 DEF SeqsOf, Order!Insert
  <2>4. ASSUME NEW w \in Writers, VisibleCas(w), visibleSeqNum' # visibleSeqNum
        PROVE  Order!Reveal
    <3>1. VisibleInv' /\ visibleSeqNum' \in Nat /\ visibleSeqNum \in Nat /\ logSeqNum \in Nat
      <4>1. IInv'
        BY <1>2, NextInv
      <4> QED
        BY <1>2, <4>1 DEF IInv, TypeOK
    <3>2. UNCHANGED <<logSeqNum, memSeqs>>
      BY <2>4 DEF VisibleCas, histVars
    <3>3. visibleSeqNum' > visibleSeqNum
      BY <1>2, <2>4, <3>1, RaisesVisible
    <3>4. visibleSeqNum' \in (visibleSeqNum + 1)..logSeqNum
      BY <3>1, <3>2, <3>3 DEF VisibleInv
    <3>5. 1..(visibleSeqNum' - 1) \subseteq memSeqs
      <4>1. \A s \in Nat : 1 <= s /\ s < visibleSeqNum' => s \in memSeqs
        BY <3>1, <3>2 DEF VisibleInv
      <4> QED
        BY <3>1, <4>1, BelowSubset
    <3> QED
      BY <3>2, <3>4, <3>5 DEF Order!Reveal
  <2> QED
    BY <1>2, <2>1, <2>2, <2>3, <2>4, OnlyTheseChange DEF Order!Next
<1> QED
  BY <1>1, <1>2, Invariance, PTL DEF Spec, ImplementsOrder, Order!Spec
=============================================================================
