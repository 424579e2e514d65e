------------------------------- MODULE SeqDB -------------------------------
(***************************************************************************)
(* The sequential DB (sequential_db.go, sequential_flush.go) and the       *)
(* bitree under it (bitree/): memtables without a log, the flush that      *)
(* appends them to the mutable super table, the switch to a new one, the   *)
(* bdb index from upper bounds to super tables with the snapshots readers  *)
(* use, CompactTo, and what close, a killed process and opening make of    *)
(* them.                                                                   *)
(*                                                                         *)
(* A write is named by its number and keys are numbers: one client writes  *)
(* them in rising order, as a log does, and may overwrite or delete the    *)
(* last.  Everything else runs beside it: manual flushes, the flush        *)
(* goroutine, a reader and a compaction.                                   *)
(***************************************************************************)
EXTENDS SuperTable, Ascending, Functions

CONSTANTS MaxKey,          \* bound: the largest key
          MaxSeq,          \* bound: writes
          MemCap,          \* writes that fit into a memtable
          StopWrites,      \* SequentialMemTableStopWritesThreshold
          MaxStSize,       \* Bitree.maxStSize, in halves of an entry
          Rewrites,        \* does the client overwrite and delete its last key?
          MaxFlushes, MaxGets, MaxCompacts, MaxCrashes, MaxCloses  \* bounds

ASSUME SeqAssumption == /\ {MaxKey, MaxSeq, MemCap, MaxStSize} \subseteq Nat \ {0}
                        /\ StopWrites \in Nat /\ StopWrites > 1 /\ Rewrites \in BOOLEAN

VARIABLES
  files,      \* disk: the super tables, file number -> table
  meta,       \* disk: the bitree's metadata, [min, next]
  vers,       \* the index and its older versions still in pages that are not free:
              \* version -> (upper bound -> file number); the last one is on disk
  pool,       \* TxPool.rTx: the version readers load
  stMap,      \* Bitree.stMap: file number -> keyReadable
  stMutable,  \* Bitree.stMutable's file number
  status,     \* closed, open, closing, flushed
  queue,      \* mem.queue, the mutable memtable last: [id, data, refs, used]
  wr,         \* the writer: [pc, key, seq, mem]
  flushPc, fl,    \* the flush goroutine, or Close's own runFlush
  rd,         \* a reader in Get
  cp,         \* a goroutine in CompactTo
  hist,       \* history, see below
  calls       \* counted against the bounds; does a manual flush wait for room?

(***************************************************************************)
(* hist.latest and hist.floor are, for each key, the newest write added to *)
(* a memtable and the one a finished flush or a close left; hist.last is   *)
(* the writer's last key, hist.keyOf the key of each write, hist.dels the  *)
(* writes that delete; hist.cut is the largest key CompactTo was called    *)
(* with, hist.best the newest version the pool had.  hist.rewritten are    *)
(* keys flushed more than once, hist.hidden those of older tables that a   *)
(* switch at such a key, or below one, hides, hist.misplaced those flushed *)
(* into a table with records behind the readable ones, and the keys of     *)
(* these records.                                                          *)
(***************************************************************************)
treeVars == <<files, meta, vers, pool, stMap, stMutable>>
vars == <<treeVars, status, queue, wr, flushPc, fl, rd, cp, hist, calls>>

Keys == 1..MaxKey
BdbMaxKey == MaxKey + 1
Empty == [k \in Keys |-> 0]
NewMem(i) == [id |-> i, data |-> Empty, refs |-> 1, used |-> 0]
NoWrite == [pc |-> "idle", key |-> 0, seq |-> 0, mem |-> 0]
NoFlush == [n |-> 0, buf |-> <<>>, st |-> 0, new |-> 0, ver |-> 0]
NoGet == [pc |-> "idle", key |-> 0, from |-> 0, ver |-> 0, fn |-> 0, res |-> 0,
          stale |-> FALSE]
NoCompact == [pc |-> "idle", keys |-> {}, fn |-> 0, ver |-> 0]

\* One version of the index.
OneVersion(i) == [v \in {1} |-> i]

Init ==
  /\ files = <<>> /\ meta = [min |-> 0, next |-> 1]
  /\ vers = OneVersion(<<>>) /\ pool = 0 /\ stMap = <<>> /\ stMutable = 0
  /\ status = "closed" /\ queue = <<>> /\ wr = NoWrite
  /\ flushPc = "none" /\ fl = NoFlush /\ rd = NoGet /\ cp = NoCompact
  /\ hist = [latest |-> Empty, floor |-> Empty, last |-> 0, dels |-> {},
             keyOf |-> <<>>, cut |-> 0, best |-> 0, rewritten |-> {}, hidden |-> {},
             misplaced |-> {}]
  /\ calls = [flush |-> 0, stalled |-> FALSE, get |-> 0, compact |-> 0, crash |-> 0,
              close |-> 0]

Drop(f, S) == [x \in DOMAIN f \ S |-> f[x]]
Put(f, x, v) == [y \in DOMAIN f \cup {x} |-> IF y = x THEN v ELSE f[y]]

Cur == Max(DOMAIN vers)
Index == vers[Cur]

\* What a reader of write s gets: 0 is "not found".
Value(s) == IF s \in hist.dels THEN 0 ELSE s

-----------------------------------------------------------------------------
(***************************************************************************)
(* The index: bdb transactions and the snapshot pool.                      *)
(***************************************************************************)

\* Cursor.Seek: the file of the first upper bound at or above k, 0 for none.
Seek(i, k) ==
  LET up == {b \in DOMAIN i : b >= k} IN IF up = {} THEN 0 ELSE i[Min(up)]

\* freePages, which every write transaction begins with: the pages of a version no
\* read transaction uses are released, those between two readers only when it is
\* known who allocated them.  p are the versions in use.
Released(p) ==
  LET unused == DOMAIN vers \ (p \cup {Cur}) IN
  {unused, {v \in unused : \A u \in p : v < u}}

\* mutant: the callback does not ask checkStFreed.
FreedUnchecked(F) == UNION {Range(vers[v]) : v \in F}

\* freePagesForTask with checkStFreed: the tables the released pages F name.
Freed(F) == {fn \in UNION {Range(vers[v]) : v \in F} : fn <= meta.min}

\* doStFreed and freeSuperTable.
Free(F) ==
  /\ stMap' = Drop(stMap, Freed(F))
  /\ files' = Drop(files, Freed(F) \cap DOMAIN stMap)

\* The versions in use: the pool's, begun ones not in the pool yet, the reader's.
Pins(ps, f, r, c) == ({ps, f.ver, r.ver, c.ver}) \ {0}

\* A write transaction that makes i the index.
Commit(i) ==
  \E F \in Released(Pins(pool, fl, rd, cp)) :
    /\ Free(F)
    /\ vers' = Put(Drop(vers, F), Cur + 1, i)

\* bdbUpdate's empty transaction; TxPool.Update begins to read after it.
EmptyCommit ==
  \E F \in Released(Pins(pool, fl, rd, cp)) : Free(F) /\ vers' = Drop(vers, F)

\* TxPool.Update puts version v into the pool; the version it replaces is released
\* by a last transaction when nobody else reads it.
Swap(v, f, c) ==
  /\ pool' = v
  /\ \E F \in Released(Pins(v, f, rd, c)) : Free(F) /\ vers' = Drop(vers, F)
  /\ hist' = [hist EXCEPT !.best = IF v > @ THEN v ELSE @]

-----------------------------------------------------------------------------
(***************************************************************************)
(* Flushing.                                                               *)
(***************************************************************************)

\* mutant: one immutable memtable is left waiting.
ScheduleFlushLate(running, q) ==
  IF running = "none" /\ status = "open" /\ Len(q) > 2 THEN "start" ELSE running

\* maybeScheduleFlush
ScheduleFlush(running, q) ==
  IF running = "none" /\ status = "open" /\ Len(q) > 1 THEN "start" ELSE running

\* The leading memtables flush takes: those without writers, never the mutable.
Ready == Min({i \in DOMAIN queue : i = Len(queue) \/ queue[i].refs > 0}) - 1

\* compactionIter over the merged memtables q: the newest write of each key, in the
\* order of the keys; a delete comes out as an empty value.
Entries(q) ==
  LET newest(k) == Max({q[i].data[k] : i \in DOMAIN q})
      keys == Ascending({k \in Keys : newest(k) # 0})
  IN [i \in DOMAIN keys |-> [key |-> keys[i], val |-> Value(newest(keys[i]))]]

\* The keys of the records of st between two places.
KeysOf(st, from, to) == {st.keys[i].key : i \in from..to}

\* The keys finished flushes wrote, and those the super tables hold.
FlushedBefore == {k \in Keys : hist.floor[k] # 0}
                 \cup UNION {KeysOf(files[f], 1, stMap[f]) : f \in DOMAIN stMap}

\* runFlush of the first n memtables up to writer.Finish.
RunFlush(n) ==
  LET buf == Entries(SubSeq(queue, 1, n))
      ks == {buf[i].key : i \in DOMAIN buf}
      st == files[stMutable]
      behind == KeysOf(st, stMap[stMutable] + 1, Len(st.keys)) IN
  /\ fl' = [NoFlush EXCEPT !.n = n, !.buf = buf, !.st = stMutable]
  /\ flushPc' = IF buf = <<>> THEN "end" ELSE "keys"
  /\ hist' = [hist EXCEPT
       !.rewritten = @ \cup (ks \cap FlushedBefore),
       !.misplaced = @ \cup IF behind = {} THEN {} ELSE behind \cup ks]
  /\ UNCHANGED <<treeVars, queue, wr, rd, cp>>

\* flush: without a ready memtable it returns, and its deferred function starts it
\* again.
FlushStart ==
  flushPc = "start" /\ Ready > 0 /\ RunFlush(Ready) /\ UNCHANGED <<status, calls>>

\* flushFinish: the key file is written and synced,
FlushKeys ==
  /\ flushPc = "keys" /\ flushPc' = "vals"
  /\ files' = [files EXCEPT
                 ![fl.st] = WriteKeys(@, Records(@, fl.buf), Len(fl.buf))]
  /\ UNCHANGED <<meta, vers, pool, stMap, stMutable, status, queue, wr, fl, rd, cp,
                 hist, calls>>

\* then the value file,
FlushVals ==
  /\ flushPc = "vals" /\ flushPc' = "num"
  /\ files' = [files EXCEPT ![fl.st] = WriteVals(@, fl.buf, Len(fl.buf))]
  /\ UNCHANGED <<meta, vers, pool, stMap, stMutable, status, queue, wr, fl, rd, cp,
                 hist, calls>>

\* The number of records readable after the flush.
KeyNum == stMap[fl.st] + Len(fl.buf)

\* Flusher.Finish: is the table large enough to be switched?
Finish == IF InUse(files[fl.st]) < MaxStSize THEN "end" ELSE "room"

\* then the header, and Finish goes on.
FlushNum ==
  /\ flushPc = "num"
  /\ files' = [files EXCEPT ![fl.st].num = KeyNum]
  /\ stMap' = [stMap EXCEPT ![fl.st] = KeyNum]
  /\ flushPc' = Finish
  /\ UNCHANGED <<meta, vers, pool, stMutable, status, queue, wr, fl, rd, cp, hist, calls>>

\* makeRoomForWrite: a new super table,
RoomTable ==
  /\ flushPc = "room" /\ flushPc' = "switch"
  /\ meta' = [meta EXCEPT !.next = @ + 1]
  /\ files' = Put(files, meta.next, NewTable)
  /\ fl' = [fl EXCEPT !.new = meta.next]
  /\ UNCHANGED <<vers, pool, stMap, stMutable, status, queue, wr, rd, cp, hist, calls>>

LastKey == fl.buf[Len(fl.buf)].key

\* switchBdbKey: keys up to the flush's last belong to the old table, later ones to
\* the new one.
Switched == [b \in DOMAIN Index \cup {LastKey, BdbMaxKey} |->
   IF b = BdbMaxKey THEN fl.new ELSE IF b = LastKey THEN fl.st ELSE Index[b]]

\* The keys of the older tables whose bounds the flush's last key does not pass: the
\* switch takes such a bound or puts a smaller one before it.
Hidden == {k \in Keys : \E b \in DOMAIN Index \cap Keys :
                          b >= LastKey /\ Seek(Index, k) = Index[b]}

\* switched in the index by one transaction,
RoomSwitch ==
  /\ flushPc = "switch" /\ flushPc' = "begin"
  /\ Commit(Switched)
  /\ hist' = [hist EXCEPT !.hidden = @ \cup Hidden]
  /\ UNCHANGED <<meta, pool, stMutable, status, queue, wr, fl, rd, cp, calls>>

\* (TxPool.Update begins its read transaction)
RoomBegin ==
  /\ flushPc = "begin" /\ flushPc' = "swap"
  /\ EmptyCommit
  /\ fl' = [fl EXCEPT !.ver = Cur]
  /\ UNCHANGED <<meta, pool, stMutable, status, queue, wr, rd, cp, hist, calls>>

\* (and puts it into the pool),
RoomSwap ==
  /\ flushPc = "swap" /\ flushPc' = "map"
  /\ fl' = [fl EXCEPT !.ver = 0]
  /\ Swap(fl.ver, fl', cp)
  /\ UNCHANGED <<meta, stMutable, status, queue, wr, rd, cp, calls>>

\* and only then put into the map.
RoomMap ==
  /\ flushPc = "map" /\ flushPc' = "end"
  /\ stMap' = Put(stMap, fl.new, 0) /\ stMutable' = fl.new
  /\ UNCHANGED <<files, meta, vers, pool, status, queue, wr, fl, rd, cp, hist, calls>>

Flushed == SubSeq(queue, 1, fl.n)
Rest == SubSeq(queue, fl.n + 1, Len(queue))

\* Back under the lock: the memtables are dropped from the queue and the next flush
\* is scheduled.
FlushEnd ==
  /\ flushPc = "end" /\ fl' = NoFlush
  /\ queue' = Rest
  /\ flushPc' = ScheduleFlush("none", Rest)
  /\ hist' = [hist EXCEPT !.floor =
       [k \in Keys |-> Max({@[k]} \cup {Flushed[i].data[k] : i \in DOMAIN Flushed})]]
  /\ status' = IF status = "closing" /\ Rest = <<>> THEN "flushed" ELSE status
  /\ UNCHANGED <<treeVars, wr, rd, cp, calls>>

-----------------------------------------------------------------------------
(***************************************************************************)
(* Clients: Set and Delete, manual flush, Get, CompactTo.                  *)
(***************************************************************************)
Mutable == queue[Len(queue)]

\* makeRoomForWrite's switch: the full memtable loses the queue's reference.
NewQueue == [queue EXCEPT ![Len(queue)].refs = @ - 1] \o <<NewMem(Mutable.id + 1)>>

\* prepareBySize: no room in the mutable memtable,
Full == Mutable.used = MemCap

\* or room taken, and a writer's reference.
PrepareBySize(q) == [q EXCEPT ![Len(q)].refs = @ + 1, ![Len(q)].used = @ + 1]

\* The keys the client writes next, and may delete.
NextKeys == IF Rewrites /\ hist.last > 0 THEN {hist.last, hist.last + 1}
                                         ELSE {hist.last + 1}

\* Set up to mem.Unlock: a number, and room in the mutable memtable or in a new one.
\* A stalled writer waits for a flush to shorten the queue.
Set(k, del) ==
  LET s == Len(hist.keyOf) + 1
      q == PrepareBySize(IF Full THEN NewQueue ELSE queue) IN
  /\ status = "open" /\ wr.pc = "idle" /\ s <= MaxSeq
  /\ k \in NextKeys /\ k <= MaxKey /\ (del => k = hist.last)
  /\ Full => Len(queue) < StopWrites
  /\ queue' = q
  /\ flushPc' = IF Full /\ q[Len(queue)].refs = 0 THEN ScheduleFlush(flushPc, q)
                                                   ELSE flushPc
  /\ wr' = [pc |-> "add", key |-> k, seq |-> s, mem |-> q[Len(q)].id]
  /\ hist' = [hist EXCEPT !.last = k, !.keyOf = Append(@, k),
                          !.dels = IF del THEN @ \cup {s} ELSE @]
  /\ UNCHANGED <<treeVars, status, fl, rd, cp, calls>>

\* The rest of Set: the entry, the writer's reference, a flush if it was the last.
Add ==
  \E i \in DOMAIN queue :
    LET q == [queue EXCEPT ![i].data[wr.key] = wr.seq, ![i].refs = @ - 1] IN
    /\ wr.pc = "add" /\ queue[i].id = wr.mem
    /\ queue' = q
    /\ flushPc' = IF q[i].refs = 0 THEN ScheduleFlush(flushPc, q) ELSE flushPc
    /\ wr' = NoWrite
    /\ hist' = [hist EXCEPT !.latest[wr.key] = wr.seq]
    /\ UNCHANGED <<treeVars, status, fl, rd, cp, calls>>

\* makeRoomForWrite(0).
Switch ==
  /\ Len(queue) < StopWrites
  /\ queue' = NewQueue
  /\ flushPc' = IF NewQueue[Len(queue)].refs = 0 THEN ScheduleFlush(flushPc, NewQueue)
                                                  ELSE flushPc

\* manualAsyncFlush: a switch, unless there is nothing to flush;
Flush ==
  /\ status = "open" /\ calls.flush < MaxFlushes /\ ~calls.stalled
  /\ \E i \in DOMAIN queue : queue[i].data # Empty
  /\ Switch
  /\ calls' = [calls EXCEPT !.flush = @ + 1]
  /\ UNCHANGED <<treeVars, status, wr, fl, rd, cp, hist>>

\* without room for a new memtable it waits,
FlushStall ==
  /\ status = "open" /\ calls.flush < MaxFlushes /\ ~calls.stalled
  /\ Len(queue) >= StopWrites
  /\ \E i \in DOMAIN queue : queue[i].data # Empty
  /\ calls' = [calls EXCEPT !.flush = @ + 1, !.stalled = TRUE]
  /\ UNCHANGED <<treeVars, status, queue, wr, flushPc, fl, rd, cp, hist>>

\* and then switches whatever the mutable memtable holds.
FlushSwitch ==
  /\ calls.stalled /\ Switch
  /\ calls' = [calls EXCEPT !.stalled = FALSE]
  /\ UNCHANGED <<treeVars, status, wr, fl, rd, cp, hist>>

\* Get: the memtables of the read state, newest first,
Get(k) ==
  LET hits == {i \in DOMAIN queue : queue[i].data[k] # 0} IN
  /\ status = "open" /\ rd.pc = "idle" /\ calls.get < MaxGets
  /\ calls' = [calls EXCEPT !.get = @ + 1]
  /\ LET r == [NoGet EXCEPT !.key = k, !.from = hist.latest[k]] IN
     rd' = IF hits = {} THEN [r EXCEPT !.pc = "load"]
           ELSE [r EXCEPT !.pc = "done", !.res = Value(queue[Max(hits)].data[k])]
  /\ UNCHANGED <<treeVars, status, queue, wr, flushPc, fl, cp, hist>>

\* then the file of the key in the pool's version of the index (findKeyFileNum),
GetLoad ==
  /\ rd.pc = "load"
  /\ rd' = [rd EXCEPT !.pc = "table", !.ver = pool, !.fn = Seek(vers[pool], rd.key),
                      !.stale = pool < hist.best]
  /\ UNCHANGED <<treeVars, status, queue, wr, flushPc, fl, cp, hist, calls>>

\* then its table, if the map has it; the version is given back, with a transaction
\* that may free tables if it was the last use.
GetTable ==
  /\ rd.pc = "table"
  /\ rd' = [rd EXCEPT !.pc = "done", !.ver = 0,
              !.res = IF rd.fn \in DOMAIN stMap
                        THEN StGet(files[rd.fn], stMap[rd.fn], rd.key) ELSE 0]
  /\ IF rd.ver \in {pool, fl.ver, cp.ver} THEN UNCHANGED <<vers, stMap, files>>
     ELSE \E F \in Released(Pins(pool, fl, rd', cp)) : Free(F) /\ vers' = Drop(vers, F)
  /\ UNCHANGED <<meta, pool, stMutable, status, queue, wr, flushPc, fl, cp, hist, calls>>

GetDone ==
  /\ rd.pc = "done" /\ rd' = NoGet
  /\ UNCHANGED <<treeVars, status, queue, wr, flushPc, fl, cp, hist, calls>>

\* mutant: the first bound at or above the key goes too.
BoundsToo(i, k) ==
  LET up == Min({b \in DOMAIN i : b >= k}) IN {b \in DOMAIN i : b <= up /\ b # BdbMaxKey}

\* The bounds CompactTo deletes: those below the first one at or above the key.
Bounds(i, k) ==
  LET up == Min({b \in DOMAIN i : b >= k}) IN {b \in DOMAIN i : b < up}

\* CompactTo: the bounds and the largest file number below them in the pool's version,
CompactTo(k) ==
  LET i == vers[pool]
      bs == Bounds(i, k) IN
  /\ status = "open" /\ cp.pc = "idle" /\ calls.compact < MaxCompacts /\ bs # {}
  /\ cp' = [NoCompact EXCEPT !.pc = "min", !.keys = bs, !.fn = Max({i[b] : b \in bs})]
  /\ hist' = [hist EXCEPT !.cut = IF k > @ THEN k ELSE @]
  /\ calls' = [calls EXCEPT !.compact = @ + 1]
  /\ UNCHANGED <<treeVars, status, queue, wr, flushPc, fl, rd>>

\* the number is recorded, from where on the tables up to it may be freed,
CompactMin ==
  /\ cp.pc = "min" /\ cp' = [cp EXCEPT !.pc = "delete"]
  /\ meta' = [meta EXCEPT !.min = cp.fn]
  /\ UNCHANGED <<files, vers, pool, stMap, stMutable, status, queue, wr, flushPc, fl,
                 rd, hist, calls>>

\* the bounds are deleted by one transaction,
CompactDelete ==
  /\ cp.pc = "delete" /\ cp' = [cp EXCEPT !.pc = "begin"]
  /\ Commit(Drop(Index, cp.keys))
  /\ UNCHANGED <<meta, pool, stMutable, status, queue, wr, flushPc, fl, rd, hist, calls>>

\* (TxPool.Update begins its read transaction)
CompactBegin ==
  /\ cp.pc = "begin" /\ cp' = [cp EXCEPT !.pc = "swap", !.ver = Cur]
  /\ EmptyCommit
  /\ UNCHANGED <<meta, pool, stMutable, status, queue, wr, flushPc, fl, rd, hist, calls>>

\* (and puts it into the pool).
CompactSwap ==
  /\ cp.pc = "swap" /\ cp' = NoCompact
  /\ Swap(cp.ver, fl, NoCompact)
  /\ UNCHANGED <<meta, stMutable, status, queue, wr, flushPc, fl, rd, calls>>

-----------------------------------------------------------------------------
(***************************************************************************)
(* Close, kill, open.                                                      *)
(***************************************************************************)

\* DB.Close sets closed: no flush is scheduled any more.
Close ==
  /\ status = "open" /\ calls.close < MaxCloses
  /\ wr.pc = "idle" /\ rd.pc = "idle" /\ cp.pc = "idle" /\ ~calls.stalled
  /\ status' = "closing"
  /\ calls' = [calls EXCEPT !.close = @ + 1]
  /\ UNCHANGED <<treeVars, queue, wr, flushPc, fl, rd, cp, hist>>

\* sequentialDB.Close waits for the flush goroutine and flushes the whole queue.
CloseFlush ==
  /\ status = "closing" /\ flushPc = "none"
  /\ RunFlush(Len(queue)) /\ UNCHANGED <<status, calls>>

\* What a process leaves: the files, the metadata and the committed index.
Forget ==
  /\ status' = "closed" /\ vers' = OneVersion(Index) /\ pool' = 0
  /\ stMap' = <<>> /\ stMutable' = 0 /\ queue' = <<>> /\ wr' = NoWrite
  /\ flushPc' = "none" /\ fl' = NoFlush /\ rd' = NoGet /\ cp' = NoCompact

CloseDone ==
  /\ status = "flushed" /\ Forget
  /\ UNCHANGED <<files, meta, hist, calls>>

\* A kill.  The write buffers have reached the files up to any record while they
\* are filled, up to any value while the value file is flushed.
Crash ==
  /\ status \in {"open", "closing", "flushed"} /\ calls.crash < MaxCrashes
  /\ Forget
  /\ calls' = [calls EXCEPT !.crash = @ + 1, !.stalled = FALSE]
  /\ LET n == 0..Len(fl.buf) IN
     \/ flushPc \notin {"keys", "vals"} /\ files' = files
     \/ flushPc = "keys" /\ \E a, b \in n :
          files' = [files EXCEPT ![fl.st] =
                      WriteVals(WriteKeys(@, Records(@, fl.buf), a), fl.buf, b)]
     \/ flushPc = "vals" /\ \E b \in n :
          files' = [files EXCEPT ![fl.st] = WriteVals(@, fl.buf, b)]
  /\ UNCHANGED <<meta, hist>>

\* openSuperTables: the tables that are not deleted because a compaction passed them,
Kept == {f \in DOMAIN files : f > meta.min}

\* the bounds whose tables are there,
KeptIndex == LET bs == {b \in DOMAIN Index : Index[b] \in Kept} IN [b \in bs |-> Index[b]]

\* and the tables, opened and if need be rebuilt.
KeptFiles == [f \in Kept |-> IF f \in Range(KeptIndex) THEN Rebuilt(files[f]) ELSE files[f]]

\* What a Get would find once the bitree is open.
DiskGet(k) ==
  LET f == Seek(KeptIndex, k) IN
  IF f = 0 THEN 0 ELSE StGet(KeptFiles[f], KeptFiles[f].num, k)

CanOpen == \A f \in Range(KeptIndex) : ~ScanLoops(files[f])

\* newSequentialDB and OpenBitree.  A mutable table is created if there is none.
Open ==
  LET new == BdbMaxKey \notin DOMAIN KeptIndex
      i == IF new THEN Put(KeptIndex, BdbMaxKey, meta.next) ELSE KeptIndex IN
  /\ status = "closed" /\ CanOpen
  /\ status' = "open"
  /\ files' = IF new THEN Put(KeptFiles, meta.next, NewTable) ELSE KeptFiles
  /\ meta' = IF new THEN [meta EXCEPT !.next = @ + 1] ELSE meta
  /\ vers' = OneVersion(i) /\ pool' = 1
  /\ stMap' = [f \in Range(i) |-> files'[f].num] /\ stMutable' = i[BdbMaxKey]
  /\ queue' = <<NewMem(1)>>
  /\ hist' = [hist EXCEPT !.latest = hist.floor, !.best = 1,
       !.last = Max({0} \cup {k \in Keys : DiskGet(k) # 0 \/ hist.floor[k] # 0})]
  /\ UNCHANGED <<wr, flushPc, fl, rd, cp, calls>>

-----------------------------------------------------------------------------
Flusher == \/ FlushStart \/ FlushKeys \/ FlushVals \/ FlushNum \/ RoomTable
           \/ RoomSwitch \/ RoomBegin \/ RoomSwap \/ RoomMap \/ FlushEnd

Reader == GetLoad \/ GetTable \/ GetDone

Compactor == CompactMin \/ CompactDelete \/ CompactBegin \/ CompactSwap

Next ==
  \/ \E k \in Keys : Get(k) \/ CompactTo(k) \/ \E del \in BOOLEAN : Set(k, del)
  \/ Add \/ Flush \/ FlushStall \/ FlushSwitch \/ Flusher \/ Reader \/ Compactor
  \/ Close \/ CloseFlush \/ CloseDone \/ Crash \/ Open

Spec == Init /\ [][Next]_vars

-----------------------------------------------------------------------------
(***************************************************************************)
(* Properties.                                                             *)
(***************************************************************************)

\* What a reader of key k may find from write s on.
Answers(k, s) == {Value(t) : t \in {u \in DOMAIN hist.keyOf : u >= s /\ hist.keyOf[u] = k}}
                 \cup (IF s = 0 THEN {0} ELSE {})

GetOk(excepted) ==
  rd.pc = "done" => \/ rd.key < hist.cut \/ rd.key \in excepted
                    \/ rd.res \in Answers(rd.key, rd.from)

\* A Get finds the newest write added before it began, or a newer one, while
\* memtables are switched and flushed, super tables switched and lower keys
\* compacted away (sequentialDB.Get, Bitree.Get, makeRoomForWrite, CompactTo).
\* Excepted are keys flushed twice, or hidden by that, keys flushed behind stale
\* records, and a Get that meets an old version in the pool.
GetFresh == ~rd.stale => GetOk(hist.rewritten \cup hist.hidden \cup hist.misplaced)

\* After a close, or a kill at any step that leaves whole records, what finished
\* flushes wrote is found again, unless CompactTo was called with a larger key
\* (flushFinish, readKeyFileHeader, openSuperTables).  Excepted are a kill after
\* which the scan of readKeyFileHeader never ends, so that Open does not return and
\* nothing is found (CanOpen: an empty value with others behind it in a table whose
\* header is stale), keys flushed twice, or hidden by that, and keys flushed behind
\* stale records.
FlushedSurvives ==
  status = "closed" /\ CanOpen =>
    \A k \in Keys \ (hist.rewritten \cup hist.hidden \cup hist.misplaced) :
      k < hist.cut \/ DiskGet(k) \in Answers(k, hist.floor[k])

\* A super table goes only with what it holds compacted: none that a key not below
\* the compaction's would be looked up in leaves the map or the disk (freePages,
\* checkStFreed, doStFreed).  Excepted are the keys of tables hidden by a key that was
\* flushed twice: their bounds are not in the order of the tables.
NeededStay ==
  [][status = "open" /\ status' = "open" =>
       \A k \in Keys \ hist.hidden :
         k >= hist.cut /\ Seek(Index, k) \in DOMAIN stMap
           => Seek(Index, k) \in DOMAIN stMap' \cap DOMAIN files']_vars

\* No wakeup is lost: while a memtable waits to be flushed, and writers perhaps for
\* its room, a flush is running or a writer will still give its reference back
\* (Set, makeRoomForWrite, maybeScheduleFlush, flush).
FlushComes ==
  status = "open" /\ Len(queue) > 1 =>
    flushPc # "none" \/ \E i \in 1..(Len(queue) - 1) : queue[i].refs > 0
=============================================================================
