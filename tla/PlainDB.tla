------------------------------ MODULE PlainDB ------------------------------
(***************************************************************************)
(* The plain DB (plain_db.go, plain_flush.go, open.go, manifest.go,        *)
(* log_recycler.go): the queue of memtables, the write-ahead logs behind   *)
(* them, the flush that merges memtables into one array table, the mapped  *)
(* metadata file, and what close, a killed process and newPlainDB make of  *)
(* them.  One action is one critical section of plainDB.mu, or the stretch *)
(* between two of them.                                                    *)
(*                                                                         *)
(* A write is one operation on one key and is identified by its sequence   *)
(* number; in a memtable a delete is a write like any other, and the       *)
(* writes of a large batch are Sets (its get does not find its deletes,    *)
(* which Iterators models).  A table is the newest sequence number it      *)
(* holds for each key, 0 for none.  The commit pipeline's own steps are    *)
(* those of CommitPipeline; here its mutex orders the clients and the rest *)
(* of Commit is Apply and Ack.                                             *)
(*                                                                         *)
(* Sizes are counted in halves of memTableSize: a memtable is two of them  *)
(* whatever it holds (totalBytes is its arena), a large batch one.  One    *)
(* ready memtable therefore passes passedFlushThreshold, and a batch never *)
(* leads the queue without the memtable it was put behind.                 *)
(***************************************************************************)
EXTENDS Ascending, Sequences, FiniteSetsExt

CONSTANTS Clients,        \* goroutines calling SetPlainDB and Flush
          Keys,
          NONE,           \* nobody
          MemCap,         \* writes that fit into a memtable
          ReplayCaps,     \* how many may fit when a log is replayed: the skiplist
                          \* draws its towers anew and availBytes counts them
          StopWrites,     \* PlainMemTableStopWritesThreshold
          LargeBatches,   \* may a batch reach largeBatchThreshold?
          TornMeta,       \* may the process die inside writeMetaEdit?
          MaxSeq,         \* bound: writes
          MaxFlushes,     \* bound: manual flushes
          MaxCrashes, MaxCloses   \* bounds: kills, clean closes

ASSUME ClientsAssumption == NONE \notin Clients
ASSUME SizesAssumption == MemCap \in Nat \ {0} /\ ReplayCaps \subseteq Nat
                         /\ StopWrites \in Nat /\ StopWrites > 1
ASSUME PlainSwitchAssumption == {LargeBatches, TornMeta} \subseteq BOOLEAN

VARIABLES
  meta,           \* disk: the meta file, [min, next, last, at]
  logs,           \* disk: the log files, file number -> sequence of writes
  ats,            \* disk: the array tables, file number -> table
  status,         \* closed, replay, recovered, open, closing
  nextFileNum, logSeqNum,   \* metadata
  arr,            \* mu.arrtable's file number, 0 for nil
  queue,          \* mu.mem.queue, the mutable memtable last
  logQueue,       \* mu.log.queue: file numbers, the current log last
  synced,         \* length of the current log's durable prefix
  recycler,       \* logRecycler: [logs, max, min]
  trash,          \* files handed to the DeletionFileLimiter
  pending,        \* newPlainDB: logs still to replay
  commitMu,       \* commitPipeline.mu: its holder
  pc, op,         \* the clients
  place,          \* for each client, <<log, place>> of the record it has to wait for
  flushPc, fl,    \* the flush goroutine
  floor,          \* history: for each key, the write that must survive
  latest,         \* history: for each key, the newest write applied
  lapse,          \* history: "unrecorded" while arr is an array table the meta
                  \* file does not name, "torn" after a kill inside writeMetaEdit
  undone,         \* history: has the flush's unlocked store of nextFileNum undone
                  \* one of makeRoomForWrite?
  calls           \* counted against the bounds: [flush, crash, close]

diskVars   == <<meta, logs, ats>>
logVars    == <<logQueue, synced, recycler>>
clientVars == <<commitMu, pc, op, place>>
flushVars  == <<flushPc, fl>>
histVars   == <<floor, latest, lapse, undone, calls>>
vars == <<diskVars, status, nextFileNum, logSeqNum, arr, queue, logVars, trash,
          pending, clientVars, flushVars, histVars>>

Empty == [k \in Keys |-> 0]
Upd(t, k, s) == [t EXCEPT ![k] = IF s > @ THEN s ELSE @]

\* The id-th memtable of this process (in the code a pointer) with log f.
Mem(id, f) == [mem |-> id, log |-> f, refs |-> 1, used |-> 0, data |-> Empty]
NoOp == [kind |-> "none", key |-> NONE, seq |-> 0, sync |-> FALSE, mem |-> 0,
         new |-> 0]
NoPlace == <<0, 0>>
NoFlush == [n |-> 0, min |-> 0, num |-> 0, logs |-> {}, old |-> 0, ok |-> FALSE]

Init ==
  /\ meta = [min |-> 0, next |-> 0, last |-> 0, at |-> 0]
  /\ logs = <<>> /\ ats = <<>> /\ status = "closed"
  /\ nextFileNum = 1 /\ logSeqNum = 1 /\ arr = 0 /\ queue = <<>>
  /\ logQueue = <<>> /\ synced = 0
  /\ recycler = [logs |-> <<>>, max |-> 0, min |-> 0]
  /\ trash = {} /\ pending = {}
  /\ commitMu = NONE /\ pc = [c \in Clients |-> "idle"]
  /\ op = [c \in Clients |-> NoOp] /\ place = [c \in Clients |-> NoPlace]
  /\ flushPc = "none" /\ fl = NoFlush
  /\ floor = Empty /\ latest = Empty /\ lapse = {} /\ undone = FALSE
  /\ calls = [flush |-> 0, crash |-> 0, close |-> 0]

CurLog == logQueue[Len(logQueue)]
Mutable == queue[Len(queue)]
InQueue(m) == \E i \in DOMAIN queue : queue[i].mem = m

\* mutant: what the array table has wins.
MergeArrayFirst(s, a) ==
  [k \in Keys |-> LET found == {s[i].data[k] : i \in DOMAIN s} \ {0} IN
                  IF a[k] # 0 \/ found = {} THEN a[k] ELSE Max(found)]

\* What the tables s, oldest first, and the array table a hold for a key: the
\* array table's entries carry no sequence number and lose to a memtable's.
Merge(s, a) ==
  [k \in Keys |-> LET found == {s[i].data[k] : i \in DOMAIN s} \ {0} IN
                  IF found = {} THEN a[k] ELSE Max(found)]

\* Array tables are maps here; what a lookup of an absent key finds is Iterators'
\* subject.
At(f) == IF f \in DOMAIN ats THEN ats[f] ELSE Empty

\* Get: the newest memtable that has the key, then the array table.
Get(k) ==
  LET hits == {i \in DOMAIN queue : queue[i].data[k] # 0} IN
  IF hits = {} THEN At(arr)[k] ELSE queue[Max(hits)].data[k]

Drop(f, S) == [x \in DOMAIN f \ S |-> f[x]]
Put(f, x, v) == [y \in DOMAIN f \cup {x} |-> IF y = x THEN v ELSE f[y]]

-----------------------------------------------------------------------------
(***************************************************************************)
(* Flushing.                                                               *)
(***************************************************************************)

\* mutant: a memtable that still has writers is flushed.
ReadyWithWriters(q) == Len(q) - 1

\* The leading entries flush1 takes: those without writers, never the mutable.
Ready(q) ==
  LET stop == {i \in 1..Len(q) : i = Len(q) \/ q[i].refs > 0} IN Min(stop) - 1

\* mutant: one ready memtable does not pass the threshold.
ScheduleFlushLater(running, q) ==
  IF running = "none" /\ status = "open" /\ Ready(q) > 1 THEN "start" ELSE running

\* maybeScheduleFlush: not while a flush runs, nor once the DB is closed.
ScheduleFlush(running, q) ==
  IF running = "none" /\ status = "open" /\ Ready(q) > 0 THEN "start" ELSE running

\* mutant: the number of the log being written.
MinUnflushedLast(n) == Mutable.log

\* The log of the first table a flush of n tables leaves behind.
MinUnflushed(n) == queue[n + 1].log

\* flush1 up to runFlush.  When the first table it leaves behind has a log number
\* not above those it takes (0, if a large batch has taken the number over) it is
\* errFlushInvariant: the flush ends and its deferred function schedules another.
FlushStart ==
  LET n == Ready(queue)
      min == MinUnflushed(n) IN
  /\ flushPc = "start"
  /\ IF n > 0 /\ \A i \in 1..n : queue[i].log < min
       THEN flushPc' = "number" /\ fl' = [NoFlush EXCEPT !.n = n, !.min = min]
       ELSE flushPc' = ScheduleFlush("none", queue) /\ UNCHANGED fl
  /\ UNCHANGED <<diskVars, status, nextFileNum, logSeqNum, arr, queue, logVars,
                 trash, pending, clientVars, histVars>>

\* runFlush calls getNextFileNum without mu: its load and its store may have
\* those of makeRoomForWrite between them.  After two log switches between them the
\* store makes the number of the current log the next one again.
FlushNumber ==
  /\ flushPc = "number"
  /\ flushPc' = "build"
  /\ fl' = [fl EXCEPT !.num = nextFileNum]
  /\ UNCHANGED <<diskVars, status, nextFileNum, logSeqNum, arr, queue, logVars,
                 trash, pending, clientVars, histVars>>

FlushBuild ==
  /\ flushPc = "build"
  /\ flushPc' = "install"
  /\ nextFileNum' \in {fl.num + 1, nextFileNum + 1}
  /\ undone' = (undone \/ nextFileNum' < nextFileNum)
  /\ ats' = Put(ats, fl.num, Merge(SubSeq(queue, 1, fl.n), At(arr)))
  /\ UNCHANGED <<meta, logs, status, logSeqNum, arr, queue, logVars, trash,
                 pending, clientVars, fl, floor, latest, lapse, calls>>

\* metadata.apply refuses a log number behind the recorded one or unused yet.
MetaOk(min) == meta.min <= min /\ min < nextFileNum

\* metadata.apply and writeMetaEdit; at = 0 leaves the array table alone.
MetaSet(min, next, at) ==
  [min |-> min, next |-> next, last |-> logSeqNum - 1,
   at |-> IF at = 0 THEN meta.at ELSE at]

\* mutant: the slice is one place off.
ObsoleteShifted(min) == {i \in DOMAIN logQueue : i > 1 /\ logQueue[i - 1] < min}

\* The logs doDeleteObsoleteFiles takes off the log queue: those before the first one
\* that is not below min, if there is one.
Obsolete(min) ==
  {i \in DOMAIN logQueue : /\ \A j \in 1..i : logQueue[j] < min
                           /\ \E j \in DOMAIN logQueue : logQueue[j] >= min}

\* flush1 after runFlush, under mu: apply the metadata, drop the flushed tables,
\* install the array table and take the obsolete logs off the log queue.
FlushInstall ==
  LET ok == MetaOk(fl.min)
      newMeta == IF ok THEN MetaSet(fl.min, nextFileNum, fl.num) ELSE meta
      obsolete == Obsolete(newMeta.min) IN
  /\ flushPc = "install"
  /\ flushPc' = "delete"
  /\ meta' = newMeta
  /\ queue' = IF ok THEN SubSeq(queue, fl.n + 1, Len(queue)) ELSE queue
  /\ arr' = IF ok THEN fl.num ELSE arr
  /\ lapse' = IF ok THEN {} ELSE lapse
  /\ fl' = [fl EXCEPT !.logs = {logQueue[i] : i \in obsolete},
                      !.old = arr, !.ok = ok]
  /\ logQueue' = SubSeq(logQueue, Cardinality(obsolete) + 1, Len(logQueue))
  /\ UNCHANGED <<logs, ats, status, nextFileNum, logSeqNum, synced, recycler,
                 trash, pending, clientVars, floor, latest, calls, undone>>

\* logRecycler.add of each log in turn: those it does not take are deleted.
RecyclerAdd(r, s) ==
  LET new == {f \in s : r.min <= f /\ r.max < f}
      room == StopWrites + 1 - Len(r.logs)
      taken == {f \in new : Cardinality({g \in new : g < f}) < room}
  IN  [r EXCEPT !.logs = @ \o Ascending(taken), !.max = Max(new \cup {@})]

RecyclerRefuses(r, s) ==
  {f \in s : \/ f < r.min
             \/ /\ r.max < f
                /\ \A i \in DOMAIN RecyclerAdd(r, s).logs : RecyclerAdd(r, s).logs[i] # f}

\* doDeleteObsoleteFiles, after it released mu.
FlushDelete ==
  /\ flushPc = "delete"
  /\ flushPc' = "release"
  /\ recycler' = RecyclerAdd(recycler, fl.logs)
  /\ trash' = trash \cup {<<"log", f>> : f \in RecyclerRefuses(recycler, fl.logs)}
  /\ UNCHANGED <<diskVars, status, nextFileNum, logSeqNum, arr, queue, logQueue,
                 synced, pending, clientVars, fl, histVars>>

\* The flushed tables become obsolete, the clients waiting for them return (from
\* then on what was flushed must survive), and the deferred function of flush
\* ends it and schedules the next one.
FlushEnd ==
  /\ flushPc = "release"
  /\ flushPc' = ScheduleFlush("none", queue)
  /\ fl' = NoFlush
  /\ trash' = IF fl.ok /\ fl.old # 0 THEN trash \cup {<<"at", fl.old>>} ELSE trash
  /\ LET done == {c \in Clients : pc[c] = "flushing" /\ ~InQueue(op[c].mem)} IN
       /\ pc' = [c \in Clients |-> IF c \in done THEN "idle" ELSE pc[c]]
       /\ op' = [c \in Clients |-> IF c \in done THEN NoOp ELSE op[c]]
       /\ floor' = IF done = {} THEN floor
                   ELSE [k \in Keys |-> Max({floor[k], ats[fl.num][k]})]
  /\ UNCHANGED <<diskVars, status, nextFileNum, logSeqNum, arr, queue, logVars,
                 pending, commitMu, place, latest, lapse, calls, undone>>

\* The DeletionFileLimiter removes one file.
DeleteFile ==
  /\ \E t \in trash :
       /\ trash' = trash \ {t}
       /\ logs' = IF t[1] = "log" THEN Drop(logs, {t[2]}) ELSE logs
       /\ ats' = IF t[1] = "at" THEN Drop(ats, {t[2]}) ELSE ats
  /\ UNCHANGED <<meta, status, nextFileNum, logSeqNum, arr, queue, logVars,
                 pending, clientVars, flushVars, histVars>>

-----------------------------------------------------------------------------
(***************************************************************************)
(* Clients.                                                                *)
(***************************************************************************)

\* Commit takes the pipeline's mutex and a sequence number; commitWrite logs a
\* large batch before it makes room for it.
Set(c, k) ==
  \E large \in {FALSE, LargeBatches}, sync \in BOOLEAN :
    /\ status = "open" /\ commitMu = NONE /\ pc[c] = "idle" /\ logSeqNum <= MaxSeq
    /\ commitMu' = c
    /\ pc' = [pc EXCEPT ![c] = "room"]
    /\ op' = [op EXCEPT ![c] = [NoOp EXCEPT
                !.kind = IF large THEN "large" ELSE "small", !.key = k,
                !.seq = logSeqNum, !.sync = sync]]
    /\ logs' = IF large THEN [logs EXCEPT ![CurLog] = Append(@, [key |-> k, seq |-> logSeqNum, large |-> TRUE])]
                        ELSE logs
    /\ logSeqNum' = logSeqNum + 1
    /\ UNCHANGED <<meta, ats, status, nextFileNum, arr, queue, logVars, trash,
                   pending, place, flushVars, histVars>>

\* manualAsyncFlush: nothing to do when every table is empty.
Flush(c) ==
  /\ status = "open" /\ commitMu = NONE /\ pc[c] = "idle"
  /\ calls.flush < MaxFlushes
  /\ \E i \in DOMAIN queue : queue[i].data # Empty
  /\ commitMu' = c
  /\ pc' = [pc EXCEPT ![c] = "room"]
  /\ op' = [op EXCEPT ![c] = [NoOp EXCEPT !.kind = "flush", !.mem = Mutable.mem]]
  /\ calls' = [calls EXCEPT !.flush = @ + 1]
  /\ UNCHANGED <<diskVars, status, nextFileNum, logSeqNum, arr, queue, logVars,
                 trash, pending, place, flushVars, floor, latest, lapse, undone>>

\* prepare's check.
HasRoom == Mutable.used < MemCap

\* makeRoomForWrite finds room: prepare pins the memtable, and commitWrite logs
\* the batch and lets the pipeline's mutex go.
Prepare(c) ==
  /\ pc[c] = "room" /\ op[c].kind = "small" /\ HasRoom
  /\ queue' = [queue EXCEPT ![Len(queue)].refs = @ + 1, ![Len(queue)].used = @ + 1]
  /\ logs' = [logs EXCEPT ![CurLog] = Append(@,
             [key |-> op[c].key, seq |-> op[c].seq, large |-> FALSE])]
  /\ op' = [op EXCEPT ![c].mem = Mutable.mem]
  /\ place' = IF op[c].sync THEN [place EXCEPT ![c] = <<CurLog, Len(logs[CurLog]) + 1>>]
                            ELSE place
  /\ commitMu' = NONE
  /\ pc' = [pc EXCEPT ![c] = "apply"]
  /\ UNCHANGED <<meta, ats, status, nextFileNum, logSeqNum, arr, logVars, trash,
                 pending, flushVars, histVars>>

Stalled ==
  LET batches == {i \in DOMAIN queue : queue[i].mem = 0} IN
  2 * Len(queue) - Cardinality(batches) >= 2 * StopWrites

\* makeRoomForWrite replaces the memtable: it takes a file number and, without
\* mu, closes the log, which syncs it.
SwitchLog(c) ==
  /\ pc[c] = "room" /\ (op[c].kind = "small" => ~HasRoom)
  /\ ~Stalled
  /\ pc' = [pc EXCEPT ![c] = "switch"]
  /\ op' = [op EXCEPT ![c].new = nextFileNum]
  /\ nextFileNum' = nextFileNum + 1
  /\ synced' = Len(logs[CurLog])
  /\ UNCHANGED <<diskVars, status, logSeqNum, arr, queue, logQueue, recycler,
                 trash, pending, commitMu, place, flushVars, histVars>>

\* It creates the new log, over a recycled one if there is one (whose records
\* carry another log number and are not read back), and under mu again starts a
\* memtable.  A large batch takes its place before it, and the log number of the
\* table that precedes it, which becomes 0.  Only a small write then goes on
\* to prepare, in the new memtable.
SwitchMem(c) ==
  LET f == op[c].new
      large == op[c].kind = "large"
      imm == [Mutable EXCEPT !.refs = @ - 1, !.log = IF large THEN 0 ELSE @]
      batch == [mem |-> 0, log |-> Mutable.log, refs |-> 0, used |-> 1,
                data |-> Upd(Empty, op[c].key, op[c].seq)]
      q == SubSeq(queue, 1, Len(queue) - 1) \o <<imm>>
             \o (IF large THEN <<batch>> ELSE <<>>) \o <<Mem(Mutable.mem + 1, f)>>
  IN
  /\ pc[c] = "switch"
  /\ logs' = Put(IF recycler.logs = <<>> THEN logs ELSE Drop(logs, {Head(recycler.logs)}),
                 f, <<>>)
  /\ recycler' = IF recycler.logs = <<>> THEN recycler
                 ELSE [recycler EXCEPT !.logs = Tail(@)]
  /\ logQueue' = Append(logQueue, f)
  /\ synced' = 0
  /\ queue' = q
  /\ flushPc' = IF imm.refs = 0 THEN ScheduleFlush(flushPc, q) ELSE flushPc
  /\ pc' = [pc EXCEPT ![c] = CASE op[c].kind = "small" -> "room"
                              [] op[c].kind = "large" -> "ack"
                              [] op[c].kind = "flush" -> "flushing"]
  /\ commitMu' = IF op[c].kind = "small" THEN c ELSE NONE
  /\ latest' = IF large THEN Upd(latest, op[c].key, op[c].seq) ELSE latest
  /\ UNCHANGED <<meta, ats, status, nextFileNum, logSeqNum, arr, trash, pending,
                 op, place, fl, floor, lapse, calls, undone>>

\* commitApply, concurrently with everything: the last writer of a replaced
\* memtable schedules its flush.
Apply(c) ==
  LET mem == {i \in DOMAIN queue : queue[i].mem = op[c].mem}
      q == [i \in DOMAIN queue |->
             IF i \in mem THEN [queue[i] EXCEPT !.data = Upd(@, op[c].key, op[c].seq),
                                               !.refs = @ - 1]
                          ELSE queue[i]]
  IN
  /\ pc[c] = "apply"
  /\ queue' = q
  /\ flushPc' = IF \E i \in mem : q[i].refs = 0 THEN ScheduleFlush(flushPc, q)
                                                 ELSE flushPc
  /\ latest' = Upd(latest, op[c].key, op[c].seq)
  /\ pc' = [pc EXCEPT ![c] = "ack"]
  /\ UNCHANGED <<diskVars, status, nextFileNum, logSeqNum, arr, logVars, trash,
                 pending, commitMu, op, place, fl, floor, lapse, calls, undone>>

\* Commit returns; with sync, only when the record is on disk (a closed log is:
\* that of a large batch always), and from then on the write must survive.
Ack(c) ==
  /\ pc[c] = "ack"
  /\ place[c][1] = CurLog => place[c][2] <= synced
  /\ pc' = [pc EXCEPT ![c] = "idle"]
  /\ op' = [op EXCEPT ![c] = NoOp] /\ place' = [place EXCEPT ![c] = NoPlace]
  /\ floor' = IF op[c].sync THEN Upd(floor, op[c].key, op[c].seq) ELSE floor
  /\ UNCHANGED <<diskVars, status, nextFileNum, logSeqNum, arr, queue, logVars,
                 trash, pending, commitMu, flushVars, latest, lapse, calls, undone>>

\* The LogWriter's flush loop syncs what has been queued.
SyncLog ==
  /\ status = "open" /\ synced < Len(logs[CurLog])
  /\ synced' = Len(logs[CurLog])
  /\ UNCHANGED <<diskVars, status, nextFileNum, logSeqNum, arr, queue, logQueue,
                 recycler, trash, pending, clientVars, flushVars, histVars>>

-----------------------------------------------------------------------------
(***************************************************************************)
(* Close, kill, open.                                                      *)
(***************************************************************************)

\* DB.Close once the clients are done; it keeps a flush from being scheduled and
\* waits for the running one.
Close ==
  /\ status = "open" /\ calls.close < MaxCloses
  /\ \A c \in Clients : pc[c] = "idle"
  /\ status' = "closing"
  /\ calls' = [calls EXCEPT !.close = @ + 1]
  /\ UNCHANGED <<diskVars, nextFileNum, logSeqNum, arr, queue, logVars, trash,
                 pending, clientVars, flushVars, floor, latest, lapse, undone>>

\* What is in memory is gone.
Forget ==
  /\ status' = "closed"
  /\ arr' = 0 /\ queue' = <<>> /\ logQueue' = <<>> /\ synced' = 0
  /\ recycler' = [logs |-> <<>>, max |-> 0, min |-> 0]
  /\ trash' = {} /\ pending' = {}
  /\ commitMu' = NONE /\ pc' = [c \in Clients |-> "idle"]
  /\ op' = [c \in Clients |-> NoOp] /\ place' = [c \in Clients |-> NoPlace]
  /\ flushPc' = "none" /\ fl' = NoFlush
  /\ nextFileNum' = 1 /\ logSeqNum' = 1

\* plainDB.Close closes, and so syncs, the log but flushes no memtable; the
\* DeletionFileLimiter then removes the files it still holds.
CloseDone ==
  /\ status = "closing" /\ flushPc = "none"
  /\ Forget
  /\ logs' = Drop(logs, {t[2] : t \in {u \in trash : u[1] = "log"}})
  /\ ats' = Drop(ats, {t[2] : t \in {u \in trash : u[1] = "at"}})
  /\ floor' = [k \in Keys |-> Get(k)]
  /\ UNCHANGED <<meta, latest, lapse, calls, undone>>

\* A killed process leaves of the current log any prefix that covers what is
\* synced; the stores to the mapped meta file and the array tables stay.
LoseTail ==
  IF logQueue = <<>> \/ CurLog \notin DOMAIN logs THEN logs' = logs
  ELSE \E n \in synced..Len(logs[CurLog]) :
         logs' = [logs EXCEPT ![CurLog] = SubSeq(@, 1, n)]

Crash ==
  /\ status # "closed" /\ calls.crash < MaxCrashes
  /\ calls' = [calls EXCEPT !.crash = @ + 1]
  /\ Forget /\ LoseTail
  /\ UNCHANGED <<meta, ats, floor, latest, lapse, undone>>

\* It is killed inside the writeMetaEdit of a flush, after one, two or three of
\* the four stores.
CrashInMetaEdit ==
  /\ TornMeta /\ flushPc = "install" /\ MetaOk(fl.min)
  /\ calls.crash < MaxCrashes
  /\ calls' = [calls EXCEPT !.crash = @ + 1]
  /\ Forget /\ LoseTail
  /\ \E n \in 1..3 :
       meta' = [meta EXCEPT !.min = fl.min,
                            !.next = IF n > 1 THEN nextFileNum ELSE @,
                            !.last = IF n > 2 THEN logSeqNum - 1 ELSE @]
  /\ lapse' = lapse \cup {"torn"}
  /\ UNCHANGED <<ats, floor, latest, undone>>

\* The records a new process would find now: those of the logs the meta file has
\* not left behind, of the log being written only what is synced.
Recoverable ==
  UNION {{logs[f][i] : i \in 1..(IF logQueue # <<>> /\ f = CurLog
                                  THEN synced ELSE Len(logs[f]))}
         : f \in {g \in DOMAIN logs : g >= meta.min}}

\* What it would read back.
Survives(k) ==
  LET found == {x.seq : x \in {y \in Recoverable : y.key = k}} IN
  IF found = {} THEN At(meta.at)[k] ELSE Max(found)

\* mutant: the log the flush stopped at is left out.
ToReplayAfter == {f \in DOMAIN logs : f > meta.min}

\* The logs newPlainDB replays.
ToReplay == {f \in DOMAIN logs : f >= meta.min}

\* openMetadata, and markFileNumUsed of every file found: the first free number.
FirstFree(used) == Max({meta.next, 1} \cup {f + 1 : f \in used})

\* newPlainDB: the metadata and the directory are read; array tables the meta
\* file does not name are deleted.  What a lapse has cost is written off here.
Open ==
  LET used == {meta.min} \cup DOMAIN logs \cup DOMAIN ats
      stale == DOMAIN ats \ {meta.at} IN
  /\ status = "closed"
  /\ status' = "replay"
  /\ nextFileNum' = FirstFree(used)
  /\ logSeqNum' = meta.last + 1
  /\ arr' = IF meta.at \in DOMAIN ats THEN meta.at ELSE 0
  /\ pending' = ToReplay
  /\ recycler' = [recycler EXCEPT !.min = Max({0} \cup {f + 1 : f \in DOMAIN logs})]
  /\ trash' = {<<"at", f>> : f \in stale}
  /\ floor' = IF lapse = {} THEN floor
              ELSE [k \in Keys |-> Min({floor[k], Survives(k)})]
  /\ lapse' = {}
  /\ UNCHANGED <<diskVars, queue, logQueue, synced, clientVars, flushVars,
                 latest, calls, undone>>

\* prepare reports a full memtable by another error than replayWAL expects, so
\* it never starts a second memtable for the small batches of a log.
Fits(log, cap) == Cardinality({i \in DOMAIN log : ~log[i].large}) <= cap

\* replayWAL of the oldest log left: its records go through memtables straight
\* into a new array table, which replaces and deletes the old one.
ReplayWAL ==
  LET f == Min(pending)
      tables == [i \in DOMAIN logs[f] |->
                  [data |-> Upd(Empty, logs[f][i].key, logs[f][i].seq)]]
  IN
  /\ status = "replay" /\ pending # {}
  /\ \E cap \in ReplayCaps : Fits(logs[f], cap)
  /\ pending' = pending \ {f}
  /\ IF logs[f] = <<>>
       THEN UNCHANGED <<ats, arr, nextFileNum, logSeqNum, trash, lapse>>
       ELSE /\ ats' = Put(ats, nextFileNum, Merge(tables, At(arr)))
            /\ arr' = nextFileNum
            /\ nextFileNum' = nextFileNum + 1
            /\ logSeqNum' = Max({logSeqNum, logs[f][Len(logs[f])].seq + 1})
            /\ trash' = IF arr = 0 THEN trash ELSE trash \cup {<<"at", arr>>}
            /\ lapse' = {"unrecorded"}
  /\ UNCHANGED <<meta, logs, status, queue, logVars, clientVars, flushVars,
                 floor, latest, calls, undone>>

\* The error of replayWAL ends Open.  The DeletionFileLimiter is not stopped: it
\* still removes some or all of its files, before the database is opened again.
OpenFails ==
  /\ status = "replay" /\ pending # {}
  /\ \E cap \in ReplayCaps : ~Fits(logs[Min(pending)], cap)
  /\ Forget
  /\ \E gone \in SUBSET {t \in trash : t[1] = "at"} : ats' = Drop(ats, {t[2] : t \in gone})
  /\ UNCHANGED <<meta, logs, histVars>>

\* All logs are replayed: a number is taken for the new log and recorded
\* (metadata.apply accepts it, markFileNumUsed has seen the recorded one).
Recovered ==
  /\ status = "replay" /\ pending = {}
  /\ status' = "recovered"
  /\ nextFileNum' = nextFileNum + 1
  /\ meta' = MetaSet(nextFileNum, nextFileNum + 1, 0)
  /\ logQueue' = <<nextFileNum>>
  /\ UNCHANGED <<logs, ats, logSeqNum, arr, queue, synced, recycler, trash,
                 pending, clientVars, flushVars, histVars>>

\* The new log is created, the memtable is attached to it, and
\* scanObsoleteFiles and doDeleteObsoleteFiles have the old logs deleted.
OpenDone ==
  /\ status = "recovered"
  /\ status' = "open"
  /\ logs' = Put(logs, CurLog, <<>>)
  /\ queue' = <<Mem(1, CurLog)>>
  /\ trash' = trash \cup {<<"log", f>> : f \in {g \in DOMAIN logs : g < meta.min}}
  /\ latest' = At(arr)
  /\ UNCHANGED <<meta, ats, nextFileNum, logSeqNum, arr, logVars, pending,
                 clientVars, flushVars, floor, lapse, calls, undone>>

-----------------------------------------------------------------------------
Client(c) == \/ Prepare(c) \/ SwitchLog(c) \/ SwitchMem(c) \/ Apply(c) \/ Ack(c)

Flusher == \/ FlushStart \/ FlushNumber \/ FlushBuild \/ FlushInstall
           \/ FlushDelete \/ FlushEnd

Recovery == Open \/ ReplayWAL \/ OpenFails \/ Recovered \/ OpenDone

Next ==
  \/ \E c \in Clients : Client(c) \/ Flush(c) \/ \E k \in Keys : Set(c, k)
  \/ Flusher \/ SyncLog \/ DeleteFile
  \/ Recovery \/ Close \/ CloseDone \/ Crash \/ CrashInMetaEdit

Spec == Init /\ [][Next]_vars

\* The goroutines and the log's flush loop run on; whoever opened the database
\* goes on opening it.
Fairness == /\ \A c \in Clients : WF_vars(Client(c))
            /\ WF_vars(Flusher) /\ WF_vars(SyncLog) /\ WF_vars(Recovery)

FairSpec == Spec /\ Fairness

-----------------------------------------------------------------------------
(***************************************************************************)
(* Properties.                                                             *)
(***************************************************************************)
\* A write that returned with sync, was there at a clean Close or was covered by a
\* Flush that returned can be read back by a new process at any moment, in the
\* middle of a log switch, a flush or the replacement of files too (plainDB.Close,
\* makeRoomForWrite, flush1, doDeleteObsoleteFiles) - as long as no array table
\* built by replayWAL is unrecorded, no kill hit writeMetaEdit, and the flush's
\* unlocked store of its file number has never undone one of makeRoomForWrite, as it
\* can with four memtables or more: then a log is created over one in use.
Durable == lapse = {} /\ ~undone => \A k \in Keys : floor[k] <= Survives(k)

\* The same without the exceptions.
DurableAlways == \A k \in Keys : floor[k] <= Survives(k)

\* A reader finds the newest applied write of a key whatever memtable it went to
\* and whatever has been flushed (plainDB.Get, flush1): a late writer of a
\* replaced memtable is not lost and does not cover a newer write.
ReadLatest == status = "open" => \A k \in Keys : Get(k) = latest[k]

\* An open DB answers with what had to survive, or newer: newPlainDB brings back
\* what Close and the synced commits left, unless the number of a log was undone.
ReopenReads == status = "open" /\ ~undone => \A k \in Keys : floor[k] <= Get(k)

\* No step removes, truncates or overwrites a log that recovery would still read
\* (makeRoomForWrite's ReuseForWrite and Create, DeleteFile), as long as the flush
\* has not undone the number of a log, as it can with four memtables or more.
LogsKept ==
  [][\A f \in DOMAIN logs :
       ~undone /\ f >= meta'.min =>
         /\ f \in DOMAIN logs'
         /\ Len(logs'[f]) >= IF logQueue # <<>> /\ f = CurLog THEN synced
                                                             ELSE Len(logs[f])]_vars

\* A memtable that has become flushable has a flush that runs or is scheduled,
\* whoever gave it up last: the switch, the last writer of a batch or the flush before
\* (makeRoomForWrite, commitApply, flush).  A writer stalls under the commit mutex,
\* so a flush nobody schedules would stop every write.
FlushScheduled == status = "open" /\ Ready(queue) > 0 => flushPc # "none"

\* A write or flush that waits for room, on a stall or a switch, gets it, and a
\* manual flush that waits for its memtable returns (makeRoomForWrite, flush,
\* manualFlush).
RoomFound ==
  \A c \in Clients : /\ pc[c] = "room" ~> pc[c] \in {"idle", "apply", "ack", "flushing"}
                     /\ pc[c] = "flushing" ~> pc[c] = "idle"
=============================================================================
