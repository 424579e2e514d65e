----------------------------- MODULE Iterators -----------------------------
(***************************************************************************)
(* Reading a database: the levels an iterator merges (memtables, large     *)
(* batches, the array table or the bitree), the merging iterator over them *)
(* and the Iterator a program moves about, while writers, memtable         *)
(* switches and flushes go on.                                             *)
(*                                                                         *)
(* A call of the iterator is one step.  An iterator holds the tables of    *)
(* its read state, of which the mutable memtable and the last super table  *)
(* still grow.  The value of a write is its sequence number; a delete      *)
(* writes the empty value 0.  An entry is [k, s, d, v]: user key, sequence *)
(* number, whether it is a delete, value.  Entries of array and super      *)
(* tables have sequence number 1 and are never deletes, whatever was       *)
(* flushed (at.set and Writer.Set do not see the kind).                    *)
(***************************************************************************)
EXTENDS Integers, FiniteSets, Sequences, FiniteSetsExt, SequencesExt

CONSTANTS
  MaxKey,       \* user keys are 1..MaxKey
  PrefixLen,    \* Split: this many consecutive keys share a prefix
  Stores,       \* the stores to explore: subset of {"plain", "seq"}
  Bounds,       \* pairs of a lower and an upper bound, None for neither
  Bounded,      \* the stores whose iterators get bounds
  Large,        \* plain writes may come as large batches
  TableKeys,    \* maxStSize in keys: a flush that leaves so many switches the table
  MaxSeq,       \* bound: last sequence number
  MaxSwitches,  \* bound on memtable switches and large batches
  MaxOpen       \* bound on iterators opened

ASSUME IteratorsAssumption ==
  /\ {MaxKey, PrefixLen, TableKeys, MaxSeq, MaxSwitches, MaxOpen} \subseteq Nat
  /\ PrefixLen > 0 /\ TableKeys > 0
  /\ Stores \subseteq {"plain", "seq"} /\ Bounded \subseteq Stores
  /\ Large \in BOOLEAN

VARIABLES
  store,    \* which database
  mems,     \* every memtable and large batch: [batch, log, items]; log is its
            \* logSeqNum
  queue,    \* mem.queue: indices of mems, the last one is mutable
  table,    \* plain: the array table's entries
  tree,     \* seq: the super tables' entries, the last table is stMutable
  mapped,   \* seq: how many of these tables stMap holds
  flush,    \* seq: the flush under way: [n |-> memtables taken, at |-> step]
  seq,      \* the last sequence number
  latest,   \* history: the value the newest write gave each key, 0 for none
  it,       \* the iterator, or NoIter
  opens,    \* iterators opened
  was,      \* history: the values each key had since NewIter, 0 for none
  missed,   \* history: the keys the last call passed over that never were missing
  strayed   \* history: the last call landed where it should not

vars == <<store, mems, queue, table, tree, mapped, flush, seq, latest,
          it, opens, was, missed, strayed>>
stores == <<store, mems, queue, table, tree, mapped, flush, seq, latest>>

Keys == 1..MaxKey
None == 0
NoEntry == [k |-> 0, s |-> 0, d |-> FALSE, v |-> 0]
NoIter == [open |-> FALSE]
NoFlush == [n |-> 0, at |-> "idle"]
Entry(k, s, d) == [k |-> k, s |-> s, d |-> d, v |-> IF d THEN 0 ELSE s]

\* MakeInternalSetKey: what a table returns for a key.
SetEntry(k, v) == [k |-> k, s |-> 1, d |-> FALSE, v |-> v]

\* InternalCompare: by user key, then the newer entry first.
Rank(e) == e.k * (MaxSeq + 2) + (MaxSeq + 1 - e.s)
End == (MaxKey + 1) * (MaxSeq + 2)
Least(S) == CHOOSE e \in S : \A f \in S : e.k < f.k \/ (e.k = f.k /\ e.s >= f.s)
Greatest(S) == CHOOSE e \in S : \A f \in S : e.k > f.k \/ (e.k = f.k /\ e.s <= f.s)

-----------------------------------------------------------------------------
(***************************************************************************)
(* Contents: writes, memtable switches, flushes.                           *)
(***************************************************************************)

Mem(log) == [batch |-> FALSE, log |-> log, items |-> {}]

Init ==
  /\ store \in Stores
  /\ mems = <<Mem(0)>>
  /\ queue = <<1>>
  /\ \E K \in SUBSET Keys :
       /\ latest = [k \in Keys |-> IF k \in K THEN 1 ELSE 0]
       /\ store = "plain" => tree = <<<<>>>> /\ table = {SetEntry(k, 1) : k \in K}
       /\ store = "seq" =>
            /\ table = {}
            /\ LET ks == SetToSortSeq(K, <)
                   full == Len(ks) \div TableKeys
               IN tree = [t \in 1..full + 1 |->
                            [p \in 1..(IF t <= full THEN TableKeys
                                       ELSE Len(ks) % TableKeys) |->
                               SetEntry(ks[(t - 1) * TableKeys + p], 1)]]
  /\ mapped = Len(tree) /\ flush = NoFlush /\ seq = 1 /\ it = NoIter /\ opens = 0
  /\ was = [k \in Keys |-> {}] /\ missed = {} /\ strayed = FALSE

QueueItems == UNION {mems[queue[i]].items : i \in DOMAIN queue}
Stored == table \cup (UNION {ToSet(tree[t]) : t \in DOMAIN tree}) \cup QueueItems

\* The program, not the code, sees to it: the keys of the sequential DB grow; a
\* delete names a key that is there.
MayWrite(k, d) ==
  store = "seq" =>
    IF d THEN k \in {e.k : e \in Stored}
    ELSE \A e \in Stored : e.k < k

\* memTable.apply and sequentialDB.Set; a large batch is queued sorted and a new
\* memtable follows it.
Write ==
  /\ seq < MaxSeq
  /\ \E k \in Keys, d, large \in BOOLEAN :
       LET e == Entry(k, seq + 1, d) IN
       /\ MayWrite(k, d)
       /\ IF large
          THEN /\ Large /\ store = "plain" /\ Len(mems) <= MaxSwitches
               /\ mems' = mems \o <<[batch |-> TRUE, log |-> e.s, items |-> {e}],
                                    Mem(e.s + 1)>>
               /\ queue' = queue \o <<Len(mems) + 1, Len(mems) + 2>>
          ELSE /\ mems' = [mems EXCEPT ![Last(queue)].items = @ \cup {e}]
               /\ UNCHANGED queue
       /\ latest' = [latest EXCEPT ![k] = e.v]
       /\ was' = IF it.open THEN [was EXCEPT ![k] = @ \cup {e.v}] ELSE was
  /\ seq' = seq + 1
  /\ UNCHANGED <<store, table, tree, mapped, flush, it, opens, missed, strayed>>

\* makeRoomForWrite: the mutable memtable becomes immutable.
Switch ==
  /\ Len(mems) <= MaxSwitches /\ mems[Last(queue)].items # {}
  /\ mems' = Append(mems, Mem(seq + 1))
  /\ queue' = Append(queue, Len(mems) + 1)
  /\ UNCHANGED <<store, table, tree, mapped, flush, seq, latest, it, opens, was, missed, strayed>>

\* mutant: a flush also keeps the entries a newer one replaces; of a key's entries
\* the oldest is written last.
CompactOldest(items) ==
  {SetEntry(k, Greatest({e \in items : e.k = k}).v) : k \in {e.k : e \in items}}

\* compactionIter over the flush iterators: the newest entry of each key.
Compact(items) ==
  {SetEntry(k, Least({e \in items : e.k = k}).v) : k \in {e.k : e \in items}}

\* plainDB.flush1: all immutable memtables and the array table become a new
\* array table.
FlushPlain ==
  /\ store = "plain" /\ Len(queue) > 1
  /\ table' = Compact(table \cup (QueueItems \ mems[Last(queue)].items))
  /\ queue' = <<Last(queue)>>
  /\ UNCHANGED <<store, mems, tree, mapped, flush, seq, latest, it, opens, was, missed, strayed>>

\* Flusher.Finish: a table with n keys is kept or switched.
Finish(n) == IF n < TableKeys THEN "done" ELSE "full"

\* sequentialDB.flush and runFlush: all immutable memtables go to the mutable super
\* table, however many keys it has, and flushFinish makes them readable; then
\* Flusher.Finish looks at the size.  A memtable with a delete is left to SeqDB:
\* its record would break the key order.
FlushTree ==
  LET taken == QueueItems \ mems[Last(queue)].items
      es    == SetToSortSeq(Compact(taken), LAMBDA a, b : a.k < b.k)
  IN /\ store = "seq" /\ flush = NoFlush /\ Len(queue) > 1
     /\ \A e \in taken : ~e.d
     /\ tree' = [tree EXCEPT ![Len(tree)] = @ \o es]
     /\ flush' = [n |-> Len(queue) - 1,
                   at |-> Finish(Len(tree[Len(tree)]) + Len(es))]
     /\ UNCHANGED <<store, mems, queue, table, mapped, seq, latest,
                    it, opens, was, missed, strayed>>

\* Bitree.makeRoomForWrite, up to switchBdbKey: the index names the new table,
\* stMap does not have it yet.
SwitchIndex ==
  /\ flush.at = "full"
  /\ tree' = Append(tree, <<>>)
  /\ flush' = [flush EXCEPT !.at = "indexed"]
  /\ UNCHANGED <<store, mems, queue, table, mapped, seq, latest,
                 it, opens, was, missed, strayed>>

\* Bitree.makeRoomForWrite, from setStMap on.
MapTable ==
  /\ flush.at = "indexed"
  /\ mapped' = Len(tree)
  /\ flush' = [flush EXCEPT !.at = "done"]
  /\ UNCHANGED <<store, mems, queue, table, tree, seq, latest,
                 it, opens, was, missed, strayed>>

\* sequentialDB.flush: the memtables taken leave the queue and the read state.
DropFlushed ==
  /\ flush.at = "done"
  /\ queue' = SubSeq(queue, flush.n + 1, Len(queue))
  /\ flush' = NoFlush
  /\ UNCHANGED <<store, mems, table, tree, mapped, seq, latest,
                 it, opens, was, missed, strayed>>

-----------------------------------------------------------------------------
(***************************************************************************)
(* plainDB.Get.                                                            *)
(***************************************************************************)

\* memTable.get and flushableBatch.get: the newest entry of the key; a batch does
\* not find deletes.
MemGet(m, k) ==
  LET es == {e \in mems[m].items : e.k = k /\ (mems[m].batch => ~e.d)} IN
  IF es = {} THEN NoEntry ELSE Least(es)

\* arrayTable.get: the entry findKeyIndexPos stops at, whatever its key.
ArrayGet(k) ==
  LET es == {e \in table : e.k >= k} IN IF es = {} THEN NoEntry ELSE Least(es)

\* plainDB.Get: from the newest memtable to the oldest, then the array table.
Get(k) ==
  LET hits == {i \in DOMAIN queue : MemGet(queue[i], k) # NoEntry} IN
  IF hits = {} THEN ArrayGet(k) ELSE MemGet(queue[Max(hits)], k)

-----------------------------------------------------------------------------
(***************************************************************************)
(* The iterator of one level: [typ, mem, items, tables, num, cur, panic,   *)
(* shut].  mem is its memtable or batch, items its array table, tables the *)
(* number of super tables in its index snapshot; num - 1 is the number of  *)
(* keys it sees of the last of them, 0 until it visits that table.  cur is *)
(* the entry it returned last, NoEntry for nil.                            *)
(***************************************************************************)

Level(typ, m) ==
  [typ |-> typ, mem |-> m, items |-> IF typ = "array" THEN table ELSE {},
   tables |-> Len(tree), num |-> 0, cur |-> NoEntry, panic |-> FALSE,
   shut |-> FALSE]  \* history

\* getStMap: the map has the last table of the index snapshot.
InMap(l) == l.tables <= mapped

\* setStMapIter, newIter: the first visit of a table reads keyReadable.
Visit(l) == IF l.num > 0 THEN l ELSE [l EXCEPT !.num = Len(tree[l.tables]) + 1]

TreeItems(l) ==
  UNION {ToSet(tree[t]) : t \in 1..l.tables - 1}
    \cup {tree[l.tables][p] : p \in 1..l.num - 1}

\* The last entry of the tables before the last one of the index snapshot.
Below(l) == IF l.tables = 1 THEN 0 ELSE Rank(Last(tree[l.tables - 1]))

\* The first entry of es after rank r, unless it is beyond the upper bound; the
\* last one before r, unless it is below the lower bound.
FirstAfter(es, r, o) ==
  LET later == {e \in es : Rank(e) > r}
      e     == IF later = {} THEN NoEntry ELSE Least(later)
  IN IF o.upper # None /\ e.k >= o.upper THEN NoEntry ELSE e
LastBefore(es, r, o) ==
  LET sooner == {e \in es : Rank(e) < r}
      e      == IF sooner = {} THEN NoEntry ELSE Greatest(sooner)
  IN IF e.k < o.lower THEN NoEntry ELSE e

\* First, SeekGE and Next (from rank r on), Last, SeekLT and Prev (before r) of each
\* kind of level.  arenaskl's iterator reads the memtable as it is now.
MemUp(l, r, o) == [l EXCEPT !.cur = FirstAfter(mems[l.mem].items, r, o)]
MemDown(l, r, o) == [l EXCEPT !.cur = LastBefore(mems[l.mem].items, r, o)]

\* flushableBatchIter bisects the sorted offsets of a large batch.
BatchUp(l, r, o) == [l EXCEPT !.cur = FirstAfter(mems[l.mem].items, r, o)]
BatchDown(l, r, o) == [l EXCEPT !.cur = LastBefore(mems[l.mem].items, r, o)]

\* arrayTableIterator compares a bound with the key of an entry that is not there.
ArrayUp(l, r, o) ==
  [l EXCEPT !.cur = FirstAfter(l.items, r, o),
            !.panic = @ \/ (o.upper # None /\ \A e \in l.items : Rank(e) <= r)]
ArrayDown(l, r, o) ==
  [l EXCEPT !.cur = LastBefore(l.items, r, o),
            !.panic = @ \/ (o.lower # None /\ \A e \in l.items : Rank(e) >= r)]

\* BitreeIterator goes on from table to table and opens the last one when it
\* comes there.  While that one is not in stMap, moving up ends before it, but
\* Last and SeekLT, which start in it, find nothing in the whole tree (shut).
TreeUp(level, r, o) ==
  LET l == IF r >= Below(level) /\ InMap(level) THEN Visit(level) ELSE level
  IN [l EXCEPT !.cur = FirstAfter(TreeItems(l), r, o), !.shut = FALSE]
TreeDown(level, r, o) ==
  LET ends == r > Below(level)
      l    == IF ends /\ InMap(level) THEN Visit(level) ELSE level
  IN IF ends /\ ~InMap(level) THEN [l EXCEPT !.cur = NoEntry, !.shut = TRUE]
     ELSE [l EXCEPT !.cur = LastBefore(TreeItems(l), r, o), !.shut = FALSE]

Up(l, r, o) ==
  CASE l.typ = "mem"   -> MemUp(l, r, o)
    [] l.typ = "batch" -> BatchUp(l, r, o)
    [] l.typ = "array" -> ArrayUp(l, r, o)
    [] l.typ = "tree"  -> TreeUp(l, r, o)
Down(l, r, o) ==
  CASE l.typ = "mem"   -> MemDown(l, r, o)
    [] l.typ = "batch" -> BatchDown(l, r, o)
    [] l.typ = "array" -> ArrayDown(l, r, o)
    [] l.typ = "tree"  -> TreeDown(l, r, o)

\* MakeSearchKey: just before all entries of a key.
Before(k) == k * (MaxSeq + 2) - 1

\* SeekPrefixGE: only a memtable's iterator tries its position first; it stays at
\* the end and on a key that is not smaller, else it goes on to the key.
SeekPrefix(l, k, try, o) ==
  IF try /\ l.typ = "mem" /\ (l.cur = NoEntry \/ l.cur.k >= k) THEN l
  ELSE Up(l, Before(k), o)

-----------------------------------------------------------------------------
(***************************************************************************)
(* The merging iterator: dir, heap and levels of the iterator's record o.  *)
(* The heap is the set of levels in it; its top is the level whose entry   *)
(* is least, or greatest when it runs backwards.                           *)
(***************************************************************************)

Top(o) ==
  IF o.heap = {} THEN NoEntry
  ELSE LET es == {o.levels[i].cur : i \in o.heap} IN
       IF o.dir = 1 THEN Least(es) ELSE Greatest(es)

TopLevel(o) == LET t == Top(o) IN CHOOSE i \in o.heap : o.levels[i].cur = t

\* initMinHeap, initMaxHeap, and the entry findNextEntry and findPrevEntry return
\* (appending nothing makes TLC evaluate each level once).
Heap(o, dir, levels) ==
  LET ls == levels \o <<>>
      n  == [o EXCEPT !.dir = dir, !.levels = ls,
                      !.heap = {i \in DOMAIN ls : ls[i].cur # NoEntry}]
  IN [n EXCEPT !.ik = Top(n)]

Each(o, Op(_)) == [i \in DOMAIN o.levels |-> Op(o.levels[i])]

MFirst(o) == Heap(o, 1, Each(o, LAMBDA l : Up(l, 0, o)))
MLast(o) == Heap(o, -1, Each(o, LAMBDA l : Down(l, End, o)))
MSeekGE(o, k) == Heap(o, 1, Each(o, LAMBDA l : Up(l, Before(k), o)))
MSeekLT(o, k) == Heap(o, -1, Each(o, LAMBDA l : Down(l, Before(k) + 1, o)))
MSeekPrefixGE(o, k, try) == Heap(o, 1, Each(o, LAMBDA l : SeekPrefix(l, k, try, o)))

\* First and Last of the Iterator seek to its bounds.
MLow(o) == IF o.lower # None THEN MSeekGE(o, o.lower) ELSE MFirst(o)
MHigh(o) == IF o.upper # None THEN MSeekLT(o, o.upper) ELSE MLast(o)

\* mutant: the levels at their end stay there when the direction changes.
TurnUpEnded(l, r, o) ==
  IF l.cur = NoEntry \/ Rank(l.cur) > r THEN l ELSE Up(l, r, o)

\* switchToMinHeap for a level other than the top: from the lower bound if it is
\* at its end, forward past the top.
TurnUp(l, r, o) ==
  LET s == IF l.cur # NoEntry THEN l
           ELSE Up(l, IF o.lower # None THEN Before(o.lower) ELSE 0, o)
  IN IF s.cur = NoEntry \/ Rank(s.cur) > r THEN s ELSE Up(s, r, o)

TurnDown(l, r, o) ==
  LET s == IF l.cur # NoEntry THEN l
           ELSE Down(l, IF o.upper # None THEN Before(o.upper) + 1 ELSE End, o)
  IN IF s.cur = NoEntry \/ Rank(s.cur) < r THEN s ELSE Down(s, r, o)

\* Next and Prev: a level leaves the heap when it is at its end; on a change of
\* direction every level is moved to the other side of the top.
MNext(o) ==
  LET top == TopLevel(o)
      r   == Rank(Top(o))
  IN IF o.heap = {} THEN IF o.dir = 1 THEN [o EXCEPT !.ik = NoEntry] ELSE MLow(o)
     ELSE Heap(o, 1,
            [i \in DOMAIN o.levels |->
               IF i = top THEN Up(o.levels[i], r, o)
               ELSE IF o.dir = 1 THEN o.levels[i] ELSE TurnUp(o.levels[i], r, o)])

MPrev(o) ==
  LET top == TopLevel(o)
      r   == Rank(Top(o))
  IN IF o.heap = {} THEN IF o.dir = -1 THEN [o EXCEPT !.ik = NoEntry] ELSE MHigh(o)
     ELSE Heap(o, -1,
            [i \in DOMAIN o.levels |->
               IF i = top THEN Down(o.levels[i], r, o)
               ELSE IF o.dir = -1 THEN o.levels[i] ELSE TurnDown(o.levels[i], r, o)])

-----------------------------------------------------------------------------
(***************************************************************************)
(* The Iterator: ik is the merging iterator's entry, key and val what the  *)
(* program sees, pos where ik is relative to key.                          *)
(***************************************************************************)

\* The key of an exhausted iterator is not read again, nor the seek key once another
\* call came between: both are 0 then.
Exhausted(o) == [o EXCEPT !.valid = FALSE, !.key = 0, !.val = 0]

Prefix(k) == (k - 1) \div PrefixLen

\* nextUserKey and prevUserKey: on to another user key.
RECURSIVE Leave(_, _, _)
Leave(o, k, dir) ==
  LET n == IF dir = 1 THEN MNext(o) ELSE MPrev(o)
  IN IF n.ik # NoEntry /\ n.ik.k = k THEN Leave(n, k, dir) ELSE n

NextUserKey(o) ==
  IF o.ik = NoEntry THEN o
  ELSE Leave(o, IF o.valid THEN o.key ELSE o.ik.k, 1)
PrevUserKey(o) ==
  IF o.ik = NoEntry THEN o
  ELSE Leave(o, IF o.valid THEN o.key ELSE o.ik.k, -1)

\* findNextEntry: the first key, at its newest entry, that is not deleted.
RECURSIVE FindNext(_)
FindNext(arg) ==
  LET o == [Exhausted(arg) EXCEPT !.pos = "cur"] IN
  IF o.ik = NoEntry \/ (o.hasPrefix /\ Prefix(o.ik.k) # Prefix(o.seekKey)) THEN o
  ELSE IF o.ik.d THEN FindNext(NextUserKey(o))
  ELSE [o EXCEPT !.key = o.ik.k, !.val = o.ik.v, !.valid = TRUE]

\* findPrevEntry: backwards a key's newest entry comes last, so ik ends one key
\* further back.
RECURSIVE FindPrevLoop(_)
FindPrevLoop(o) ==
  IF o.ik = NoEntry \/ (o.valid /\ o.ik.k # o.key)
  THEN [o EXCEPT !.pos = IF o.valid THEN "prev" ELSE "curReverse"]
  ELSE IF o.ik.d THEN FindPrevLoop(MPrev(Exhausted(o)))
  ELSE FindPrevLoop(MPrev([o EXCEPT !.key = o.ik.k, !.val = o.ik.v, !.valid = TRUE]))

FindPrev(o) == FindPrevLoop(Exhausted(o))

Clamp(o, k) ==
  IF o.lower # None /\ k < o.lower THEN o.lower
  ELSE IF o.upper # None /\ k > o.upper THEN o.upper
  ELSE k

Fresh(o) ==
  [o EXCEPT !.err = FALSE, !.hasPrefix = FALSE, !.lastOp = "unknown", !.seekKey = 0]

\* SeekGE after SeekGE of a key that is not greater: nothing to do if the iterator
\* is exhausted or already there.
StaysGE(o, k) == o.lastOp = "seekGE" /\ o.seekKey <= k /\ (~o.valid \/ k <= o.key)
StaysLT(o, k) == o.lastOp = "seekLT" /\ k <= o.seekKey /\ (~o.valid \/ o.key < k)

SeekGEOf(o, arg) ==
  LET k == Clamp(o, arg) IN
  IF StaysGE(o, k) THEN [o EXCEPT !.err = FALSE]
  ELSE [FindNext(MSeekGE(Fresh(o), k)) EXCEPT !.seekKey = k, !.lastOp = "seekGE"]

SeekLTOf(o, arg) ==
  LET k == Clamp(o, arg) IN
  IF StaysLT(o, k) THEN [o EXCEPT !.err = FALSE]
  ELSE [FindPrev(MSeekLT(Fresh(o), k)) EXCEPT !.seekKey = k, !.lastOp = "seekLT"]

\* SeekPrefixGE: a key out of the bounds with another prefix than the bound is an
\* error, which leaves the iterator as valid as it was.
SeekPrefixGEOf(o, arg) ==
  LET k   == Clamp(o, arg)
      try == o.lastOp = "prefix" /\ Prefix(o.seekKey) < Prefix(arg)
      n   == [Fresh(o) EXCEPT !.hasPrefix = TRUE, !.seekKey = arg]
  IN IF Prefix(k) # Prefix(arg) THEN [n EXCEPT !.err = TRUE]
     ELSE [FindNext(MSeekPrefixGE(n, k, try)) EXCEPT !.lastOp = "prefix"]

FirstOf(o) == FindNext(MLow(Fresh(o)))
LastOf(o) == FindPrev(MHigh(Fresh(o)))

Stepped(o) ==
  [o EXCEPT !.lastOp = "unknown", !.seekKey = IF o.hasPrefix THEN @ ELSE 0]

\* mutant: coming from a backwards step the iterator leaves one key only.
NextOfOnce(arg) ==
  LET o == Stepped(arg) IN
  IF arg.err THEN arg
  ELSE FindNext(CASE o.pos = "cur" -> NextUserKey(o)
                  [] o.pos = "curReverse" -> MLow(o)
                  [] OTHER -> IF o.ik = NoEntry THEN MLow(o) ELSE NextUserKey(o))

\* NextWithLimit: after a backwards step ik is before the key, so two user keys
\* are left.
NextOf(arg) ==
  LET o == Stepped(arg)
      p == Exhausted(o)
  IN IF arg.err THEN arg
     ELSE FindNext(CASE o.pos = "cur" -> NextUserKey(o)
                     [] o.pos = "curReverse" -> MLow(o)
                     [] OTHER -> NextUserKey(IF p.ik = NoEntry THEN MLow(p)
                                             ELSE NextUserKey(p)))

\* PrevWithLimit.
PrevOf(arg) ==
  LET o == Stepped(arg)
      p == Exhausted(o)
  IN IF arg.err THEN arg
     ELSE IF o.hasPrefix THEN [Exhausted(o) EXCEPT !.err = TRUE]
     ELSE FindPrev(CASE o.pos = "cur" -> IF p.ik = NoEntry THEN MHigh(p) ELSE PrevUserKey(p)
                     [] o.pos = "curReverse" -> PrevUserKey(o)
                     [] OTHER -> o)

-----------------------------------------------------------------------------
(***************************************************************************)
(* Calls of the program.                                                   *)
(***************************************************************************)

Where(o) == IF o.valid THEN o.key ELSE IF o.pos = "cur" THEN MaxKey + 1 ELSE 0

BoundsOf == IF store \in Bounded THEN Bounds ELSE {<<None, None>>}

Usable == it.open /\ \A i \in DOMAIN it.levels : ~it.levels[i].panic

\* plainDB.NewIter leaves out memtables without a visible entry; both put the
\* newest first and the tables last.
LevelsNow ==
  LET ms == SelectSeq(Reverse(queue), LAMBDA m : store = "seq" \/ mems[m].log <= seq)
  IN [i \in DOMAIN ms |-> Level(IF mems[ms[i]].batch THEN "batch" ELSE "mem", ms[i])]
       \o IF store = "seq" THEN <<Level("tree", 0)>>
          ELSE IF table # {} THEN <<Level("array", 0)>> ELSE <<>>

NewIter ==
  /\ ~it.open /\ opens < MaxOpen
  /\ \E b \in BoundsOf :
       it' = [open |-> TRUE, lower |-> b[1], upper |-> b[2], ik |-> NoEntry,
              key |-> 0, val |-> 0, valid |-> FALSE, pos |-> "cur", err |-> FALSE,
              hasPrefix |-> FALSE, seekKey |-> 0, lastOp |-> "unknown",
              dir |-> 0, heap |-> {}, levels |-> LevelsNow,
              born |-> seq]  \* history
  /\ opens' = opens + 1
  /\ was' = [k \in Keys |-> {latest[k]}] /\ UNCHANGED <<missed, strayed>>
  /\ UNCHANGED stores

Close ==
  /\ Usable
  /\ it' = NoIter /\ was' = [k \in Keys |-> {}] /\ UNCHANGED <<missed, strayed>>
  /\ UNCHANGED <<stores, opens>>

\* Some level moved back into a table that was not in stMap.
Shut == \E i \in DOMAIN it.levels : it.levels[i].shut

InBounds(o, k) == k >= o.lower /\ (o.upper = None \/ k < o.upper)

\* The keys between lo and hi that a call in direction dir passed over.
Passed(o, lo, hi, dir) ==
  {k \in Keys : /\ lo < k /\ k < hi /\ InBounds(o, k)
                /\ o.valid => IF dir = 1 THEN k < o.key ELSE k > o.key}

\* A call that looks for a key between lo and hi, excluded, in direction dir, and
\* leaves the iterator as op.  A Next after a step back lands somewhere in the
\* bounds once something was written or the step back did not see the tree.
Call(op, lo, hi, dir) ==
  /\ Usable
  /\ \E o \in {op} :
       /\ it' = o
       /\ missed' = IF o.err THEN {} ELSE {k \in Passed(o, lo, hi, dir) : 0 \notin was[k]}
       /\ strayed' = /\ o.valid /\ ~o.err
                     /\ \/ ~InBounds(o, o.key) \/ o.val \notin was[o.key]
                        \/ /\ o.key <= lo \/ o.key >= hi
                           /\ (o.born = seq /\ ~Shut) \/ it.pos # "prev" \/ dir # 1
  /\ UNCHANGED <<stores, opens, was>>

SeekGE(k) == Call(SeekGEOf(it, k), k - 1, MaxKey + 1, 1)
SeekLT(k) == Call(SeekLTOf(it, k), 0, k, -1)
SeekPrefixGE(k) ==
  Call(SeekPrefixGEOf(it, k), k - 1, (Prefix(k) + 1) * PrefixLen + 1, 1)
First == Call(FirstOf(it), 0, MaxKey + 1, 1)
Last_ == Call(LastOf(it), 0, MaxKey + 1, -1)
Next_ ==
  Call(NextOf(it), Where(it),
       IF it.hasPrefix THEN (Prefix(it.seekKey) + 1) * PrefixLen + 1 ELSE MaxKey + 1, 1)
Prev_ == Call(PrevOf(it), 0, Where(it), -1)

\* SetBounds: the heap is cleared, the levels keep their positions.
SetBounds ==
  /\ Usable
  /\ \E b \in BoundsOf :
       it' = [Exhausted(it) EXCEPT !.lastOp = "unknown", !.hasPrefix = FALSE,
                        !.seekKey = 0, !.ik = NoEntry,
                        !.pos = IF @ = "cur" THEN "cur" ELSE "curReverse",
                        !.lower = b[1], !.upper = b[2], !.heap = {}]
  /\ UNCHANGED <<stores, opens, was, missed, strayed>>

Next ==
  \/ Write \/ Switch \/ FlushPlain
  \/ FlushTree \/ SwitchIndex \/ MapTable \/ DropFlushed
  \/ NewIter \/ Close \/ SetBounds
  \/ it.open /\ \E k \in Keys : SeekGE(k) \/ SeekLT(k) \/ SeekPrefixGE(k)
  \/ it.open /\ (First \/ Last_ \/ Next_ \/ Prev_)

Spec == Init /\ [][Next]_vars

-----------------------------------------------------------------------------
(***************************************************************************)
(* Properties.                                                             *)
(***************************************************************************)

\* Where a call lands: on a key in the direction it went, within the bounds, with
\* a value that was the key's newest at some time since NewIter; a delete that was
\* flushed shows as an empty value.  Only a Next after a step back may land on the
\* same key again or before it, once something was written or when the step back met
\* a table not yet in stMap: it leaves the key before and then one key, whichever is
\* next by then (Iterator.findNextEntry, findPrevEntry, NextWithLimit,
\* PrevWithLimit over mergingIter).
LandsRight == ~strayed

\* What a call passes over: every key between where it started and where it landed
\* was missing or deleted at some time since NewIter, whatever was written, switched
\* or flushed meanwhile and however the iterator was moved before (the seek
\* optimisations, mergingIter.switchToMinHeap and switchToMaxHeap).  Excepted is an
\* iterator opened after a flush named the new super table in the index and moved
\* back from its end before stMap had that table: it finds nothing in the tree until
\* its next seek or turn (Bitree.makeRoomForWrite, BitreeIterator.Last and SeekLT).
NoneSkipped == Usable /\ ~Shut => missed = {}

\* plainDB.Get of a key that was written and is not deleted finds its newest value,
\* whatever was switched and flushed, as long as no large batch deletes.
GetNewest ==
  store = "plain" /\ (\A m \in DOMAIN mems : mems[m].batch => \A e \in mems[m].items : ~e.d)
    => \A k \in Keys : latest[k] # 0 => Get(k).v = latest[k]
=============================================================================
