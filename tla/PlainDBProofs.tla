---------------------------- MODULE PlainDBProofs ----------------------------
(***************************************************************************)
(* What PlainDB promises in every instance: the queue always has a flush   *)
(* coming for what can be flushed (FlushScheduled), and a reader finds the *)
(* newest applied write of a key (ReadLatest).                             *)
(***************************************************************************)
EXTENDS PlainDB, NumberFacts, FiniteSetTheorems, SequenceTheorems, TLAPS

-----------------------------------------------------------------------------
(***************************************************************************)
(* The first inductive invariant: types, who may be where, and the         *)
(* writers' references.                                                    *)
(***************************************************************************)
Data == [Keys -> Nat]
Table == [mem : Nat, log : Nat, refs : Int, used : Int, data : Data]
Record == [key : Keys, seq : Nat, large : BOOLEAN]
Kinds == {"none", "small", "large", "flush"}
Op == [kind : Kinds, key : Keys \cup {NONE}, seq : Nat, sync : BOOLEAN, mem : Nat,
       new : Nat]
FileSets == SUBSET Nat
Flushes == [n : Nat, min : Nat, num : Nat, logs : FileSets, old : Nat, ok : BOOLEAN]
Metas == [min : Nat, next : Nat, last : Nat, at : Nat]
Statuses == {"closed", "replay", "recovered", "open", "closing"}
ClientPcs == {"idle", "room", "switch", "apply", "ack", "flushing"}
FlushPcs == {"none", "start", "number", "build", "install", "delete", "release"}

\* The types of what is in memory.
TypeInv ==
  /\ status \in Statuses
  /\ nextFileNum \in Nat \ {0}
  /\ logSeqNum \in Nat \ {0}
  /\ arr \in Nat
  /\ queue \in Seq(Table)
  /\ logQueue \in Seq(Nat)
  /\ pc \in [Clients -> ClientPcs]
  /\ op \in [Clients -> Op]
  /\ flushPc \in FlushPcs
  /\ fl \in Flushes

\* The types of what is on disk; a file number has its bound, so that newPlainDB
\* finds one that is free.
Bounded(S) == \E b \in Nat : \A f \in S : f \in Nat /\ f <= b
DiskInv ==
  /\ meta \in Metas
  /\ \A f \in DOMAIN logs : logs[f] \in Seq(Record)
  /\ Bounded(DOMAIN logs) /\ Bounded(DOMAIN ats)
  /\ pending \subseteq DOMAIN logs
  /\ status # "replay" => pending = {}
  /\ status = "replay" => \A t \in trash : t[1] # "log"

Live == status \in {"open", "closing"}

\* Memtables and clients exist while the DB is open; whoever makes room for a write
\* holds the commit mutex.
ModeInv ==
  /\ Live <=> queue # <<>>
  /\ ~Live => flushPc = "none"
  /\ status # "open" => \A c \in Clients : pc[c] = "idle"
  /\ \A c \in Clients : pc[c] \in {"room", "switch"} => commitMu = c
  /\ status = "recovered" => logQueue # <<>>

\* What a client has in hand: a write being placed or applied is a real one, and the
\* memtable a batch is applied to is in the queue.
OpInv ==
  \A c \in Clients :
    /\ pc[c] \in {"room", "switch"} =>
         /\ op[c].kind # "none"
         /\ op[c].kind # "flush" => op[c].key \in Keys /\ op[c].seq > 0
    /\ pc[c] = "apply" => /\ op[c].key \in Keys /\ op[c].seq > 0
                          /\ op[c].mem > 0 /\ InQueue(op[c].mem)

\* Memtables are queued in the order of their creation, large batches (mem = 0)
\* between them, a memtable last.
IdsInv ==
  /\ queue # <<>> => Mutable.mem > 0
  /\ \A i, j \in DOMAIN queue :
       i < j /\ queue[i].mem # 0 /\ queue[j].mem # 0 => queue[i].mem < queue[j].mem

\* The batches being applied to memtable m.
Writers(m) == {c \in Clients : pc[c] = "apply" /\ op[c].mem = m}

\* writerRefs: one for each batch being applied and one while the memtable is mutable.
RefsInv ==
  /\ IsFiniteSet({c \in Clients : pc[c] = "apply"})
  /\ \A i \in DOMAIN queue :
       queue[i].refs = Cardinality(Writers(queue[i].mem)) + (IF i = Len(queue) THEN 1 ELSE 0)

\* A flush is coming for a queue whose first table can be flushed, and what a flush
\* has taken stays where it is, without writers.
FlushInv ==
  /\ status = "open" /\ Len(queue) > 1 /\ queue[1].refs = 0 => flushPc # "none"
  /\ flushPc \in {"number", "build", "install"} =>
       fl.n > 0 /\ fl.n < Len(queue) /\ \A i \in 1..fl.n : queue[i].refs = 0

QInv == TypeInv /\ DiskInv /\ ModeInv /\ OpInv /\ IdsInv /\ RefsInv /\ FlushInv
-----------------------------------------------------------------------------
(***************************************************************************)
(* The second one: file numbers, and the order of the writes in the        *)
(* tables, with the clients and in the logs.                               *)
(***************************************************************************)
AtsInv ==
  /\ 0 \notin DOMAIN ats /\ \A f \in DOMAIN ats : ats[f] \in Data
  /\ latest \in Data

\* Array tables are numbered upwards although the flush takes its number without the
\* lock, so that none is overwritten and the one in use is not deleted.
NumInv ==
  /\ arr < nextFileNum
  /\ status # "closed" => meta.at < nextFileNum /\ meta.last < logSeqNum
  /\ meta.at = 0 \/ meta.at < meta.next
  /\ flushPc = "build" => fl.num <= nextFileNum
  /\ flushPc = "install" => fl.num < nextFileNum
  /\ flushPc \in {"build", "install"} => arr < fl.num /\ meta.at < fl.num
  /\ flushPc \in {"delete", "release"} /\ fl.ok => arr = fl.num /\ fl.old < arr
TrashInv ==
  \A t \in trash : t[1] = "at" =>
    /\ t[2] \in Nat /\ t[2] < nextFileNum /\ t[2] # arr
    /\ flushPc \in {"build", "install"} => t[2] < fl.num
MetaInv == meta.at \in DOMAIN ats => \A k \in Keys : ats[meta.at][k] <= meta.last

\* A table has older writes of a key than the tables after it, the array table older
\* ones than all.
OrderInv ==
  \A k \in Keys :
    /\ At(arr)[k] < logSeqNum
    /\ \A i \in DOMAIN queue :
         /\ queue[i].data[k] < logSeqNum
         /\ queue[i].data[k] = 0 \/ At(arr)[k] < queue[i].data[k]
         /\ \A j \in DOMAIN queue :
              i < j => queue[j].data[k] = 0 \/ queue[i].data[k] < queue[j].data[k]

\* That stays so when the batches on their way are applied, whatever the order.
PendingInv ==
  \A c \in Clients : pc[c] = "apply" =>
    LET k == op[c].key
        s == op[c].seq IN
    /\ s < logSeqNum /\ At(arr)[k] < s
    /\ \A i, j \in DOMAIN queue : queue[i].mem = op[c].mem =>
         /\ j < i => queue[j].data[k] < s
         /\ i < j => queue[j].data[k] = 0 \/ s < queue[j].data[k]
    /\ \A d \in Clients : pc[d] = "apply" /\ op[c].mem < op[d].mem => s < op[d].seq

\* Whoever makes room has the newest write.
Making(c) == pc[c] \in {"room", "switch"} /\ op[c].kind # "flush"
HolderInv ==
  \A c \in Clients : Making(c) =>
    LET s == op[c].seq IN
    /\ s < logSeqNum
    /\ \A k \in Keys : At(arr)[k] < s /\ \A i \in DOMAIN queue : queue[i].data[k] < s
    /\ \A d \in Clients : pc[d] = "apply" => op[d].seq < s

\* The logs recovery would read are in order; all their writes are below the next
\* sequence number, and below that of a batch still to be logged.
LogInv ==
  /\ \A f \in DOMAIN logs : f >= meta.min =>
       /\ \A i, j \in DOMAIN logs[f] : i < j => logs[f][i].seq < logs[f][j].seq
       /\ status \in {"recovered", "open", "closing"} =>
            \A i \in DOMAIN logs[f] : logs[f][i].seq < logSeqNum
       /\ \A c \in Clients : Making(c) /\ op[c].kind = "small" =>
            \A i \in DOMAIN logs[f] : logs[f][i].seq < op[c].seq
  /\ status = "replay" => /\ \A f \in DOMAIN logs : f < nextFileNum
                          /\ \A f \in pending : f >= meta.min

\* The newest write of k in the tables q over the array table a is v.
Top(q, a, k, v) ==
  \/ v # 0 /\ \E i \in DOMAIN q :
       q[i].data[k] = v /\ \A j \in DOMAIN q : i < j => q[j].data[k] = 0
  \/ v = a[k] /\ \A i \in DOMAIN q : q[i].data[k] = 0
LatestInv == Live => \A k \in Keys : Top(queue, At(arr), k, latest[k])

\* The array table a flush has built holds what it is about to replace.
InstallInv ==
  flushPc = "install" => /\ fl.num \in DOMAIN ats
                         /\ ats[fl.num] = Merge(SubSeq(queue, 1, fl.n), At(arr))

RInv == /\ QInv /\ AtsInv /\ NumInv /\ TrashInv /\ MetaInv /\ OrderInv /\ PendingInv
        /\ HolderInv /\ LogInv /\ LatestInv /\ InstallInv
-----------------------------------------------------------------------------
(***************************************************************************)
(* The operators of the model.                                             *)
(***************************************************************************)

\* Skiplist.Add keeps the newest write of a key.
LEMMA UpdFact ==
  ASSUME NEW t \in Data, NEW k \in Keys, NEW s \in Nat
  PROVE  /\ Upd(t, k, s) \in Data
         /\ Upd(t, k, s)[k] = IF s > t[k] THEN s ELSE t[k]
         /\ \A j \in Keys : j # k => Upd(t, k, s)[j] = t[j]
BY DEF Upd, Data

\* A memtable starts empty.
LEMMA EmptyFact == Empty \in Data /\ \A k \in Keys : Empty[k] = 0
BY DEF Empty, Data

\* flush1 takes a prefix without writers, never the mutable memtable, and takes
\* something exactly when the first table has no writer and is not the mutable one.
LEMMA ReadyFact ==
  ASSUME NEW q \in Seq(Table), Len(q) > 0
  PROVE  /\ Ready(q) \in Nat /\ Ready(q) < Len(q)
         /\ \A i \in 1..Ready(q) : ~(q[i].refs > 0)
         /\ Len(q) > 1 /\ ~(q[1].refs > 0) => Ready(q) > 0
<1> DEFINE stop == {i \in 1..Len(q) : i = Len(q) \/ q[i].refs > 0}
<1>1. Len(q) \in Nat
  OBVIOUS
<1>2. stop \subseteq Nat /\ Len(q) \in stop
  BY <1>1
<1>3. Min(stop) \in stop /\ \A y \in stop : Min(stop) <= y
  <2> HIDE DEF stop
  <2> QED BY <1>2, MinFact
<1>4. Ready(q) = Min(stop) - 1
  BY DEF Ready
<1> DEFINE m == Min(stop)
<1>5. m \in 1..Len(q) /\ (m = Len(q) \/ q[m].refs > 0) /\ m <= Len(q)
  BY <1>2, <1>3
<1>6. \A i \in 1..Len(q) : i < m => ~(q[i].refs > 0)
  <2> TAKE i \in 1..Len(q)
  <2>1. q[i].refs > 0 => i \in stop
    OBVIOUS
  <2> HIDE DEF stop
  <2> QED BY <1>1, <1>3, <1>5, <2>1
<1> HIDE DEF stop, m
<1>7. Ready(q) = m - 1
  BY <1>4 DEF m
<1>8. Ready(q) \in Nat /\ Ready(q) < Len(q)
  BY <1>1, <1>5, <1>7
<1>9. \A i \in 1..Ready(q) : ~(q[i].refs > 0)
  BY <1>1, <1>5, <1>6, <1>7
<1>10. Len(q) > 1 /\ ~(q[1].refs > 0) => m # 1
  BY <1>1, <1>5
<1> QED
  BY <1>1, <1>5, <1>7, <1>8, <1>9, <1>10

\* maybeScheduleFlush leaves a running flush alone and an open DB whose queue can be
\* flushed with one.
LEMMA ScheduleFact ==
  ASSUME NEW r \in FlushPcs, NEW q
  PROVE  /\ ScheduleFlush(r, q) \in FlushPcs
         /\ r # "none" => ScheduleFlush(r, q) = r
         /\ ScheduleFlush(r, q) \in {r, "start"}
         /\ status # "open" => ScheduleFlush(r, q) = r
         /\ status = "open" /\ Ready(q) > 0 => ScheduleFlush(r, q) # "none"
BY DEF ScheduleFlush, FlushPcs

\* openMetadata and markFileNumUsed leave a number above every file found.
LEMMA FirstFreeFact ==
  ASSUME meta \in Metas, NEW S, Bounded(S)
  PROVE  /\ FirstFree(S) \in Nat \ {0}
         /\ meta.next <= FirstFree(S)
         /\ \A f \in S : f < FirstFree(S)
<1>1. PICK b \in Nat : \A f \in S : f \in Nat /\ f <= b
  BY DEF Bounded
<1> DEFINE T == {meta.next, 1} \cup {f + 1 : f \in S}
           m == b + 1 + meta.next + 1
<1>2. meta.next \in Nat
  BY DEF Metas
<1>3. T \subseteq Nat /\ 1 \in T /\ meta.next \in T /\ \A f \in S : f + 1 \in T
  BY <1>1, <1>2
<1>4. m \in Nat /\ \A y \in T : y <= m
  BY <1>1, <1>2
<1>5. FirstFree(S) = Max(T)
  BY DEF FirstFree
<1> HIDE DEF T, m
<1>6. Max(T) \in T /\ \A y \in T : Max(T) >= y
  BY <1>3, <1>4, MaxFact
<1>7. Max(T) \in Nat /\ Max(T) >= 1 /\ Max(T) >= meta.next
  BY <1>3, <1>6
<1>8. \A f \in S : f < Max(T)
  <2> TAKE f \in S
  <2>1. f \in Nat /\ Max(T) >= f + 1
    BY <1>1, <1>3, <1>6
  <2> QED BY <1>7, <2>1
<1> QED
  BY <1>2, <1>5, <1>7, <1>8

\* Two sets of file numbers with a bound have one together; so has a smaller set.
LEMMA BoundedFact ==
  /\ \A S, T : Bounded(S) /\ Bounded(T) => Bounded(S \cup T)
  /\ \A S, T : Bounded(S) /\ T \subseteq S => Bounded(T)
  /\ \A n \in Nat : Bounded({n})
<1>1. ASSUME NEW S, NEW T, Bounded(S), Bounded(T) PROVE Bounded(S \cup T)
  <2>1. PICK a \in Nat : \A f \in S : f \in Nat /\ f <= a
    BY <1>1 DEF Bounded
  <2>2. PICK b \in Nat : \A f \in T : f \in Nat /\ f <= b
    BY <1>1 DEF Bounded
  <2>3. a + b \in Nat /\ \A f \in S \cup T : f \in Nat /\ f <= a + b
    BY <2>1, <2>2
  <2> QED BY <2>3 DEF Bounded
<1>2. ASSUME NEW S, NEW T, Bounded(S), T \subseteq S PROVE Bounded(T)
  BY <1>2 DEF Bounded
<1>3. ASSUME NEW n \in Nat PROVE Bounded({n})
  BY DEF Bounded
<1> QED
  BY <1>1, <1>2, <1>3

-----------------------------------------------------------------------------
(***************************************************************************)
(* What the actions make of the queue, entry by entry.                     *)
(***************************************************************************)

\* prepare pins the mutable memtable.
LEMMA PrepareShape ==
  ASSUME TypeInv, queue # <<>>, NEW c \in Clients, Prepare(c)
  PROVE  /\ queue' \in Seq(Table) /\ Len(queue') = Len(queue)
         /\ \A i \in 1..Len(queue) :
              /\ queue'[i].mem = queue[i].mem /\ queue'[i].log = queue[i].log
              /\ queue'[i].data = queue[i].data
              /\ queue'[i].refs = IF i = Len(queue) THEN queue[i].refs + 1 ELSE queue[i].refs
         /\ \A i \in 1..Len(queue) : i # Len(queue) => queue'[i] = queue[i]
<1> DEFINE n == Len(queue)
           e == [queue[n] EXCEPT !.refs = queue[n].refs + 1, !.used = queue[n].used + 1]
<1>1. n \in Nat /\ n > 0 /\ n \in 1..n /\ DOMAIN queue = 1..n
  BY DEF TypeInv
<1>2. queue[n] \in Table
  BY <1>1 DEF TypeInv
<1>3. queue[n].refs + 1 \in Int /\ queue[n].used + 1 \in Int
  BY <1>2 DEF Table
<1>4. e \in Table
  BY <1>2, <1>3 DEF Table
<1>5. /\ e.mem = queue[n].mem /\ e.log = queue[n].log /\ e.data = queue[n].data
      /\ e.refs = queue[n].refs + 1
  BY <1>2 DEF Table
<1>6. queue' = [queue EXCEPT ![n] = e]
  BY DEF Prepare
<1> HIDE DEF e
<1>7. /\ queue' \in Seq(Table) /\ Len(queue') = n
      /\ \A i \in 1..n : queue'[i] = IF i = n THEN e ELSE queue[i]
  BY <1>1, <1>4, <1>6 DEF TypeInv
<1> QED
  BY <1>1, <1>5, <1>7

\* commitApply: the entry of the batch's memtable gets the write and gives the
\* writer's reference back.
LEMMA ApplyShape ==
  ASSUME TypeInv, OpInv, NEW c \in Clients, Apply(c)
  PROVE  /\ queue' \in Seq(Table) /\ Len(queue') = Len(queue)
         /\ \A i \in 1..Len(queue) :
              /\ queue'[i].mem = queue[i].mem /\ queue'[i].log = queue[i].log
              /\ queue[i].mem # op[c].mem => queue'[i] = queue[i]
              /\ queue[i].mem = op[c].mem =>
                   /\ queue'[i].refs = queue[i].refs - 1
                   /\ queue'[i].data = Upd(queue[i].data, op[c].key, op[c].seq)
<1>1. Len(queue) \in Nat /\ DOMAIN queue = 1..Len(queue)
  BY DEF TypeInv
<1>2. op[c].key \in Keys /\ op[c].seq \in Nat
  BY DEF OpInv, Apply, TypeInv, Op
<1> DEFINE E(i) == [queue[i] EXCEPT !.data = Upd(queue[i].data, op[c].key, op[c].seq),
                                   !.refs = queue[i].refs - 1]
<1>3. ASSUME NEW i \in 1..Len(queue)
      PROVE  /\ E(i) \in Table /\ E(i).mem = queue[i].mem /\ E(i).log = queue[i].log
             /\ E(i).refs = queue[i].refs - 1
             /\ E(i).data = Upd(queue[i].data, op[c].key, op[c].seq)
             /\ queue[i] \in Table
  <2>1. queue[i] \in Table
    BY <1>1 DEF TypeInv
  <2>2. queue[i].refs - 1 \in Int /\ queue[i].data \in Data
    BY <2>1 DEF Table
  <2>3. Upd(queue[i].data, op[c].key, op[c].seq) \in Data
    BY <1>2, <2>2, UpdFact
  <2> QED
    BY <2>1, <2>2, <2>3 DEF Table
<1>4. queue' = [i \in 1..Len(queue) |-> IF queue[i].mem = op[c].mem THEN E(i) ELSE queue[i]]
  BY <1>1 DEF Apply
<1> HIDE DEF E
<1>5. queue' \in Seq(Table) /\ Len(queue') = Len(queue)
  BY <1>1, <1>3, <1>4
<1> QED
  BY <1>3, <1>4, <1>5

\* Two queues one after the other.
LEMMA JoinFact ==
  ASSUME NEW s \in Seq(Table), NEW t \in Seq(Table)
  PROVE  /\ s \o t \in Seq(Table) /\ Len(s \o t) = Len(s) + Len(t)
         /\ \A i \in 1..Len(s) : (s \o t)[i] = s[i]
         /\ \A i \in 1..Len(t) : (s \o t)[Len(s) + i] = t[i]
<1>1. Len(s) \in Nat /\ Len(t) \in Nat
  OBVIOUS
<1>2. /\ s \o t \in Seq(Table) /\ Len(s \o t) = Len(s) + Len(t)
      /\ \A i \in 1 .. Len(s) + Len(t) : (s \o t)[i] =
                     IF i <= Len(s) THEN s[i] ELSE t[i - Len(s)]
  BY ConcatProperties
<1>3. \A i \in 1..Len(s) : i \in 1..(Len(s) + Len(t)) /\ i <= Len(s)
  BY <1>1
<1>4. \A i \in 1..Len(t) : /\ Len(s) + i \in 1..(Len(s) + Len(t)) /\ ~(Len(s) + i <= Len(s))
                           /\ (Len(s) + i) - Len(s) = i
  BY <1>1
<1> QED
  BY <1>2, <1>3, <1>4, Zenon

\* A queue of one table.
LEMMA OneFact ==
  ASSUME NEW e \in Table
  PROVE  <<e>> \in Seq(Table) /\ Len(<<e>>) = 1 /\ <<e>>[1] = e
OBVIOUS

\* makeRoomForWrite: the mutable memtable becomes immutable, a large batch follows
\* it, and a new memtable is last.
LEMMA SwitchShape ==
  ASSUME TypeInv, OpInv, queue # <<>>, NEW c \in Clients, SwitchMem(c)
  PROVE  LET n == Len(queue)
             large == op[c].kind = "large" IN
         /\ queue' \in Seq(Table) /\ Len(queue') = IF large THEN n + 2 ELSE n + 1
         /\ \A i \in 1..(n - 1) : queue'[i] = queue[i]
         /\ queue'[n].mem = queue[n].mem /\ queue'[n].refs = queue[n].refs - 1
         /\ queue'[n].data = queue[n].data
         /\ large => /\ queue'[n + 1].mem = 0 /\ queue'[n + 1].refs = 0
                     /\ queue'[n + 1].data = Upd(Empty, op[c].key, op[c].seq)
         /\ queue'[Len(queue')].mem = queue[n].mem + 1 /\ queue'[Len(queue')].refs = 1
         /\ queue'[Len(queue')].data = Empty
         /\ queue'[n].log = IF large THEN 0 ELSE queue[n].log
         /\ large => queue'[n + 1].log = queue[n].log
         /\ queue'[Len(queue')].log = op[c].new
         /\ flushPc' = IF queue'[n].refs = 0 THEN ScheduleFlush(flushPc, queue') ELSE flushPc
<1> DEFINE n == Len(queue)
           large == op[c].kind = "large"
           imm == [queue[n] EXCEPT !.refs = queue[n].refs - 1,
                                   !.log = IF large THEN 0 ELSE queue[n].log]
           batch == [mem |-> 0, log |-> queue[n].log, refs |-> 0, used |-> 1,
                     data |-> Upd(Empty, op[c].key, op[c].seq)]
           new == Mem(queue[n].mem + 1, op[c].new)
           front == SubSeq(queue, 1, n - 1)
           mid == IF large THEN <<batch>> ELSE <<>>
           q == front \o <<imm>> \o mid \o <<new>>
<1>1. n \in Nat /\ n > 0 /\ n \in 1..n /\ DOMAIN queue = 1..n /\ queue \in Seq(Table)
  BY DEF TypeInv
<1>2. queue[n] \in Table
  BY <1>1 DEF TypeInv
<1>3. /\ queue[n].refs - 1 \in Int /\ queue[n].log \in Nat /\ queue[n].mem + 1 \in Nat
      /\ (IF large THEN 0 ELSE queue[n].log) \in Nat
  BY <1>2 DEF Table
<1>4. imm \in Table /\ imm.mem = queue[n].mem /\ imm.refs = queue[n].refs - 1
      /\ imm.data = queue[n].data /\ imm.log = IF large THEN 0 ELSE queue[n].log
  BY <1>2, <1>3 DEF Table
<1>5. op[c].new \in Nat /\ op[c].seq \in Nat
  BY DEF TypeInv, Op
<1>6. /\ new \in Table /\ new.mem = queue[n].mem + 1 /\ new.refs = 1 /\ new.data = Empty
      /\ new.log = op[c].new
  BY <1>3, <1>5, EmptyFact DEF Mem, Table
<1>7. large => batch \in Table /\ batch.mem = 0 /\ batch.refs = 0 /\ batch.log = queue[n].log
                 /\ batch.data = Upd(Empty, op[c].key, op[c].seq)
  <2>1. large => op[c].key \in Keys
    BY DEF OpInv, SwitchMem
  <2>2. large => Upd(Empty, op[c].key, op[c].seq) \in Data
    BY <2>1, <1>5, EmptyFact, UpdFact
  <2> QED BY <1>3, <2>2 DEF Table
<1>8. queue' = q /\ flushPc' = IF imm.refs = 0 THEN ScheduleFlush(flushPc, q) ELSE flushPc
  BY DEF SwitchMem, Mutable
<1> HIDE DEF imm, batch, new
<1>9. /\ front \in Seq(Table) /\ Len(front) = n - 1
      /\ \A i \in 1..(n - 1) : front[i] = queue[i]
  BY <1>1
<1>10. mid \in Seq(Table) /\ Len(mid) = IF large THEN 1 ELSE 0
  BY <1>7
<1>11. large => mid[1] = batch
  OBVIOUS
<1> HIDE DEF front, mid, large
<1>12. /\ q \in Seq(Table) /\ Len(q) = n + 1 + Len(mid)
       /\ \A i \in 1..(n - 1) : q[i] = queue[i]
       /\ q[n] = imm /\ q[Len(q)] = new
       /\ Len(mid) = 1 => q[n + 1] = mid[1]
  <2> DEFINE a == front \o <<imm>>
             b == a \o mid
  <2>1. /\ a \in Seq(Table) /\ Len(a) = n /\ a[n] = imm
        /\ \A i \in 1..(n - 1) : a[i] = queue[i]
    <3>1. <<imm>> \in Seq(Table) /\ Len(<<imm>>) = 1 /\ <<imm>>[1] = imm
      BY <1>4, OneFact
    <3>2. /\ a \in Seq(Table) /\ Len(a) = Len(front) + 1
          /\ \A i \in 1..Len(front) : a[i] = front[i]
          /\ a[Len(front) + 1] = imm
      BY <1>9, <3>1, JoinFact
    <3> HIDE DEF a
    <3>3. Len(front) + 1 = n
      BY <1>1, <1>9
    <3> QED BY <1>9, <3>2, <3>3
  <2>2. q = b \o <<new>>
    OBVIOUS
  <2> HIDE DEF a, q
  <2>3. /\ b \in Seq(Table) /\ Len(b) = n + Len(mid) /\ \A i \in 1..n : b[i] = a[i]
        /\ Len(mid) = 1 => b[n + 1] = mid[1]
    <3>1. /\ b \in Seq(Table) /\ Len(b) = Len(a) + Len(mid)
          /\ \A i \in 1..Len(a) : b[i] = a[i]
          /\ \A i \in 1..Len(mid) : b[Len(a) + i] = mid[i]
      BY <1>10, <2>1, JoinFact
    <3> HIDE DEF b
    <3>2. Len(mid) = 1 => 1 \in 1..Len(mid)
      OBVIOUS
    <3> QED BY <2>1, <3>1, <3>2
  <2> HIDE DEF b
  <2>4. /\ q \in Seq(Table) /\ Len(q) = Len(b) + 1 /\ q[Len(q)] = new
        /\ \A i \in 1..Len(b) : q[i] = b[i]
    <3>1. <<new>> \in Seq(Table) /\ Len(<<new>>) = 1 /\ <<new>>[1] = new
      BY <1>6, OneFact
    <3>2. /\ q \in Seq(Table) /\ Len(q) = Len(b) + Len(<<new>>)
          /\ \A i \in 1..Len(b) : q[i] = b[i]
          /\ \A i \in 1..Len(<<new>>) : q[Len(b) + i] = <<new>>[i]
      BY <2>2, <2>3, <3>1, JoinFact
    <3> QED BY <3>1, <3>2
  <2>5. Len(mid) \in {0, 1}
    BY <1>10
  <2>6. n + Len(mid) \in Nat /\ n \in 1..(n + Len(mid)) /\ \A i \in 1..(n - 1) : i \in 1..n /\ i \in 1..(n + Len(mid))
    BY <1>1, <2>5
  <2>7. Len(mid) = 1 => n + 1 \in 1..(n + Len(mid))
    BY <1>1
  <2>8. /\ \A i \in 1..(n - 1) : q[i] = queue[i]
        /\ q[n] = imm
    BY <1>1, <2>1, <2>3, <2>4, <2>6
  <2>9. Len(q) = n + 1 + Len(mid)
    BY <1>1, <2>3, <2>4, <2>5
  <2>10. Len(mid) = 1 => q[n + 1] = mid[1]
    BY <2>3, <2>4, <2>7
  <2> QED BY <2>4, <2>8, <2>9, <2>10
<1> HIDE DEF q
<1>13. Len(queue') = IF large THEN n + 2 ELSE n + 1
  BY <1>1, <1>8, <1>10, <1>12
<1>14. large => queue'[n + 1] = batch
  BY <1>8, <1>10, <1>11, <1>12
<1> QED
  BY <1>4, <1>6, <1>7, <1>8, <1>12, <1>13, <1>14 DEF large

\* What is left of a sequence when its first n members are dropped.
LEMMA Dropped ==
  ASSUME NEW S, NEW s \in Seq(S), NEW n \in Nat, n < Len(s)
  PROVE  LET t == SubSeq(s, n + 1, Len(s)) IN
         /\ t \in Seq(S) /\ Len(t) = Len(s) - n
         /\ Len(t) > 0 /\ Len(t) \in Nat /\ DOMAIN t = 1..Len(t)
         /\ \A i \in 1..Len(t) : t[i] = s[i + n] /\ i + n \in DOMAIN s
<1> DEFINE t == SubSeq(s, n + 1, Len(s))
<1>0. Len(s) \in Nat /\ DOMAIN s = 1..Len(s)
  OBVIOUS
<1>1. n + 1 \in 1..Len(s) + 1 /\ Len(s) \in (n + 1) - 1..Len(s)
  BY <1>0
<1>2. /\ t \in Seq(S)
      /\ Len(t) = IF n + 1 <= Len(s) THEN Len(s) - (n + 1) + 1 ELSE 0
      /\ \A i \in 1..(Len(s) - (n + 1) + 1) : t[i] = s[(n + 1) + i - 1]
  BY <1>1, SubSeqProperties
<1> HIDE DEF t
<1>3. Len(s) - (n + 1) + 1 = Len(s) - n /\ n + 1 <= Len(s) /\ Len(s) - n \in Nat
  BY <1>0
<1>4. Len(t) = Len(s) - n /\ Len(t) \in Nat /\ Len(t) > 0
  BY <1>0, <1>2, <1>3
<1>5. DOMAIN t = 1..Len(t)
  BY <1>2
<1>6. ASSUME NEW i \in 1..Len(t) PROVE t[i] = s[i + n] /\ i + n \in DOMAIN s
  <2>1. i \in 1..(Len(s) - (n + 1) + 1) /\ (n + 1) + i - 1 = i + n /\ i + n \in 1..Len(s)
    BY <1>0, <1>3, <1>4
  <2> QED BY <1>0, <1>2, <2>1
<1> QED
  BY <1>2, <1>4, <1>5, <1>6 DEF t

\* flush1 drops the tables it has flushed.
LEMMA InstallShape ==
  ASSUME TypeInv, FlushInv, FlushInstall
  PROVE  \/ queue' = queue
         \/ /\ MetaOk(fl.min)
            /\ queue' = SubSeq(queue, fl.n + 1, Len(queue))
            /\ queue' \in Seq(Table) /\ Len(queue') = Len(queue) - fl.n
            /\ Len(queue') > 0
            /\ \A i \in 1..Len(queue') : queue'[i] = queue[i + fl.n]
<1>1. CASE ~MetaOk(fl.min)
  BY <1>1 DEF FlushInstall
<1>2. CASE MetaOk(fl.min)
  <2>1. queue' = SubSeq(queue, fl.n + 1, Len(queue))
    BY <1>2 DEF FlushInstall
  <2>2. fl.n \in Nat /\ fl.n > 0 /\ fl.n < Len(queue) /\ Len(queue) \in Nat
    BY DEF FlushInstall, FlushInv, TypeInv, Flushes
  <2>3. queue \in Seq(Table)
    BY DEF TypeInv
  <2>4. /\ queue' \in Seq(Table) /\ Len(queue') = Len(queue) - fl.n
        /\ \A i \in 1..Len(queue') : queue'[i] = queue[i + fl.n]
    BY <2>1, <2>2, <2>3, Dropped
  <2> QED BY <1>2, <2>1, <2>2, <2>4
<1> QED
  BY <1>1, <1>2
-----------------------------------------------------------------------------
(***************************************************************************)
(* The first invariant is kept.                                            *)
(***************************************************************************)

\* Batch.Reset leaves nothing behind.
LEMMA NoOpFact == NoOp \in Op
BY DEF NoOp, Op, Kinds

\* The mutable memtable is an entry of the queue.
LEMMA MutableFact ==
  ASSUME TypeInv, queue # <<>>
  PROVE  /\ Mutable = queue[Len(queue)] /\ Mutable \in Table /\ Mutable.mem \in Nat
         /\ Len(queue) \in Nat /\ Len(queue) > 0 /\ DOMAIN queue = 1..Len(queue)
<1>1. Mutable \in Table
  BY DEF TypeInv, Mutable
<1> QED
  BY <1>1 DEF TypeInv, Mutable, Table

\* An entry of the queue.
LEMMA EntryFact ==
  ASSUME TypeInv
  PROVE  \A i \in DOMAIN queue :
           /\ queue[i] \in Table /\ queue[i].mem \in Nat /\ queue[i].refs \in Int
           /\ queue[i].data \in Data
<1>1. \A i \in DOMAIN queue : queue[i] \in Table
  BY DEF TypeInv
<1> QED
  BY <1>1 DEF Table

\* A closed or killed process has its initial state in memory (plainDB's fields).
LEMMA ForgetType ==
  ASSUME Forget
  PROVE  TypeInv'
<1>1. fl' \in Flushes
  BY DEF Forget, NoFlush, Flushes, FileSets
<1>2. op' \in [Clients -> Op]
  BY NoOpFact DEF Forget
<1> QED
  BY <1>1, <1>2 DEF Forget, TypeInv, Statuses, ClientPcs, FlushPcs

\* newPlainDB takes numbers above every file on disk.
LEMMA OpenNumber ==
  ASSUME DiskInv, Open
  PROVE  /\ nextFileNum' \in Nat \ {0} /\ meta.next <= nextFileNum'
         /\ \A f \in DOMAIN logs \cup DOMAIN ats : f < nextFileNum'
<1> DEFINE used == {meta.min} \cup DOMAIN logs \cup DOMAIN ats
<1>1. Bounded(used)
  BY BoundedFact DEF DiskInv, Metas
<1>2. nextFileNum' = FirstFree(used)
  BY DEF Open
<1> QED
  BY <1>1, <1>2, FirstFreeFact DEF DiskInv

\* replayWAL reads a log that is there; the sequence number moves past its last record.
LEMMA ReplaySeq ==
  ASSUME DiskInv, TypeInv, ReplayWAL, ~UNCHANGED <<ats, arr, nextFileNum, logSeqNum, trash, lapse>>
  PROVE  LET f == Min(pending) IN
         /\ f \in pending /\ f \in DOMAIN logs /\ logs[f] \in Seq(Record) /\ logs[f] # <<>>
         /\ logSeqNum' \in Nat \ {0} /\ logSeqNum <= logSeqNum'
         /\ logs[f][Len(logs[f])].seq < logSeqNum'
<1> DEFINE f == Min(pending)
           last == logs[f][Len(logs[f])]
<1>1. pending \subseteq Nat /\ pending # {} /\ pending \subseteq DOMAIN logs
  BY DEF DiskInv, ReplayWAL, Bounded
<1>2. f \in pending
  BY <1>1, MinFact
<1>3. logs[f] \in Seq(Record) /\ f \in DOMAIN logs
  BY <1>1, <1>2 DEF DiskInv
<1>4. logs[f] # <<>> /\ logSeqNum' = Max({logSeqNum, last.seq + 1})
  BY DEF ReplayWAL
<1>5. last \in Record
  BY <1>3, <1>4
<1>6. last.seq \in Nat
  BY <1>5 DEF Record
<1> HIDE DEF f, last
<1>7. logSeqNum \in Nat \ {0}
  BY DEF TypeInv
<1> DEFINE T == {logSeqNum, last.seq + 1}
<1>8. /\ T \subseteq Nat /\ T # {} /\ logSeqNum + last.seq + 1 \in Nat
      /\ \A y \in T : y <= logSeqNum + last.seq + 1
  BY <1>6, <1>7
<1>9. Max(T) \in T /\ \A y \in T : Max(T) >= y
  <2> HIDE DEF T
  <2> QED BY <1>8, MaxFact
<1> QED
  BY <1>2, <1>3, <1>4, <1>6, <1>7, <1>9 DEF f, last

\* The types in memory, whatever action is taken.
LEMMA TypeStep ==
  ASSUME QInv, [Next]_vars
  PROVE  TypeInv'
<1> USE DEF QInv
<1>1. ASSUME FlushStart PROVE TypeInv'
  <2> DEFINE n == Ready(queue)
             e == [NoFlush EXCEPT !.n = n, !.min = MinUnflushed(n)]
  <2>1. CASE fl' = fl
    <3>1. flushPc' \in FlushPcs
      BY <1>1, ScheduleFact DEF FlushStart, FlushPcs
    <3> QED BY <1>1, <2>1, <3>1 DEF FlushStart, TypeInv, diskVars, logVars, clientVars, histVars
  <2>2. CASE flushPc' = "number" /\ fl' = e /\ n > 0
    <3>1. queue \in Seq(Table) /\ Len(queue) > 0
      BY <1>1 DEF FlushStart, QInv, ModeInv, TypeInv
    <3>2. n \in Nat /\ n < Len(queue)
      BY <3>1, ReadyFact
    <3>3. queue[n + 1] \in Table
      BY <3>1, <3>2
    <3>4. MinUnflushed(n) \in Nat
      BY <3>3 DEF MinUnflushed, Table
    <3> HIDE DEF n
    <3>5. e \in Flushes
      BY <3>2, <3>4 DEF NoFlush, Flushes, FileSets
    <3> QED BY <1>1, <2>2, <3>5 DEF FlushStart, TypeInv, FlushPcs, diskVars, logVars, clientVars, histVars
  <2> QED BY <1>1, <2>1, <2>2 DEF FlushStart
<1>2. ASSUME FlushNumber PROVE TypeInv'
  <2>1. fl' \in Flushes
    BY <1>2 DEF FlushNumber, TypeInv, Flushes
  <2> QED BY <1>2, <2>1 DEF FlushNumber, TypeInv, FlushPcs, diskVars, logVars, clientVars, histVars
<1>3. ASSUME FlushBuild PROVE TypeInv'
  <2>1. nextFileNum' \in Nat \ {0}
    BY <1>3 DEF FlushBuild, TypeInv, Flushes
  <2> QED BY <1>3, <2>1 DEF FlushBuild, TypeInv, FlushPcs, diskVars, logVars, clientVars, histVars
<1>4. ASSUME FlushInstall PROVE TypeInv'
  <2> DEFINE s == {logQueue[i] : i \in Obsolete(meta'.min)}
  <2>1. queue' \in Seq(Table)
    BY <1>4, InstallShape DEF TypeInv, QInv
  <2>2. fl' = [fl EXCEPT !.logs = s, !.old = arr, !.ok = MetaOk(fl.min)]
    BY <1>4 DEF FlushInstall
  <2>3. logQueue \in Seq(Nat) /\ DOMAIN logQueue = 1..Len(logQueue)
    BY DEF TypeInv
  <2>4. Obsolete(meta'.min) \subseteq 1..Len(logQueue)
    BY <2>3 DEF Obsolete
  <2>5. s \in FileSets
    BY <2>3, <2>4 DEF FileSets
  <2>6. MetaOk(fl.min) \in BOOLEAN
    BY DEF MetaOk
  <2> HIDE DEF s
  <2>7. fl' \in Flushes
    BY <2>2, <2>5, <2>6 DEF TypeInv, Flushes
  <2>8. Cardinality(Obsolete(meta'.min)) \in Nat
    <3>1. IsFiniteSet(1..Len(logQueue))
      BY <2>3, FS_Interval
    <3> QED BY <2>4, <3>1, FS_Subset, FS_CardinalityType
  <2>9. logQueue' \in Seq(Nat)
    <3>1. logQueue' = SubSeq(logQueue, Cardinality(Obsolete(meta'.min)) + 1, Len(logQueue))
      BY <1>4 DEF FlushInstall
    <3> QED BY <2>3, <2>8, <3>1
  <2>10. arr' \in Nat /\ flushPc' \in FlushPcs
    BY <1>4 DEF FlushInstall, TypeInv, Flushes, FlushPcs
  <2> QED BY <1>4, <2>1, <2>7, <2>9, <2>10 DEF FlushInstall, TypeInv, clientVars
<1>5. ASSUME FlushDelete PROVE TypeInv'
  BY <1>5 DEF FlushDelete, TypeInv, FlushPcs, diskVars, logVars, clientVars, histVars
<1>6. ASSUME FlushEnd PROVE TypeInv'
  <2>1. fl' \in Flushes
    BY <1>6 DEF FlushEnd, NoFlush, Flushes, FileSets
  <2>2. flushPc' \in FlushPcs
    BY <1>6, ScheduleFact DEF FlushEnd, FlushPcs
  <2>3. pc' \in [Clients -> ClientPcs]
    BY <1>6 DEF FlushEnd, TypeInv, ClientPcs
  <2>4. op' \in [Clients -> Op]
    BY <1>6, NoOpFact DEF FlushEnd, TypeInv
  <2> QED BY <1>6, <2>1, <2>2, <2>3, <2>4 DEF FlushEnd, TypeInv, logVars
<1>7. ASSUME DeleteFile PROVE TypeInv'
  BY <1>7 DEF DeleteFile, TypeInv, diskVars, logVars, clientVars, flushVars, histVars
<1>8. ASSUME NEW c \in Clients, NEW k \in Keys, Set(c, k) PROVE TypeInv'
  <2>1. pc' \in [Clients -> ClientPcs]
    BY <1>8 DEF Set, TypeInv, ClientPcs
  <2>2. op' \in [Clients -> Op]
    <3>1. PICK kind \in Kinds, sync \in BOOLEAN :
            op' = [op EXCEPT ![c] = [NoOp EXCEPT !.kind = kind, !.key = k, !.seq = logSeqNum,
                                                 !.sync = sync]]
      BY <1>8 DEF Set, Kinds
    <3>2. [NoOp EXCEPT !.kind = kind, !.key = k, !.seq = logSeqNum, !.sync = sync] \in Op
      BY <3>1 DEF NoOp, Op, TypeInv
    <3> QED BY <3>1, <3>2 DEF TypeInv
  <2>3. logSeqNum' \in Nat \ {0}
    BY <1>8 DEF Set, TypeInv
  <2> QED BY <1>8, <2>1, <2>2, <2>3 DEF Set, TypeInv, logVars, flushVars
<1>9. ASSUME NEW c \in Clients, Flush(c) PROVE TypeInv'
  <2>1. pc' \in [Clients -> ClientPcs]
    BY <1>9 DEF Flush, TypeInv, ClientPcs
  <2>2. op' \in [Clients -> Op]
    <3>1. queue # <<>>
      BY <1>9 DEF Flush, QInv, ModeInv, Live
    <3>2. Mutable.mem \in Nat
      BY <3>1, MutableFact
    <3>3. [NoOp EXCEPT !.kind = "flush", !.mem = Mutable.mem] \in Op
      BY <3>2 DEF NoOp, Op, Kinds
    <3> QED BY <1>9, <3>3 DEF Flush, TypeInv
  <2> QED BY <1>9, <2>1, <2>2 DEF Flush, TypeInv, logVars, flushVars
<1>10. ASSUME NEW c \in Clients, Prepare(c) PROVE TypeInv'
  <2>1. pc' \in [Clients -> ClientPcs]
    BY <1>10 DEF Prepare, TypeInv, ClientPcs
  <2>0. queue # <<>>
    BY <1>10 DEF Prepare, QInv, ModeInv, Live
  <2>2. op' \in [Clients -> Op]
    <3>2. Mutable.mem \in Nat
      BY <2>0, MutableFact
    <3>3. [op[c] EXCEPT !.mem = Mutable.mem] \in Op
      BY <3>2 DEF Op, TypeInv
    <3> QED BY <1>10, <3>3 DEF Prepare, TypeInv
  <2>3. queue' \in Seq(Table)
    BY <1>10, <2>0, PrepareShape
  <2> QED BY <1>10, <2>1, <2>2, <2>3 DEF Prepare, TypeInv, logVars, flushVars
<1>11. ASSUME NEW c \in Clients, SwitchLog(c) PROVE TypeInv'
  <2>1. pc' \in [Clients -> ClientPcs]
    BY <1>11 DEF SwitchLog, TypeInv, ClientPcs
  <2>2. op' \in [Clients -> Op]
    <3>3. [op[c] EXCEPT !.new = nextFileNum] \in Op
      BY DEF Op, TypeInv
    <3> QED BY <1>11, <3>3 DEF SwitchLog, TypeInv
  <2>3. nextFileNum' \in Nat \ {0}
    BY <1>11 DEF SwitchLog, TypeInv
  <2> QED BY <1>11, <2>1, <2>2, <2>3 DEF SwitchLog, TypeInv, flushVars
<1>12. ASSUME NEW c \in Clients, SwitchMem(c) PROVE TypeInv'
  <2>1. pc' \in [Clients -> ClientPcs]
    <3>1. op[c].kind \in {"small", "large", "flush"}
      BY <1>12 DEF SwitchMem, QInv, OpInv, TypeInv, Op, Kinds
    <3>2. \E p \in ClientPcs : pc' = [pc EXCEPT ![c] = p]
      BY <1>12, <3>1 DEF SwitchMem, ClientPcs
    <3> QED BY <3>2 DEF TypeInv
  <2>0. queue # <<>>
    BY <1>12 DEF SwitchMem, QInv, ModeInv, Live
  <2>2. queue' \in Seq(Table)
    BY <1>12, <2>0, SwitchShape DEF QInv
  <2>3. flushPc' \in FlushPcs
    <3>1. \E q : flushPc' \in {ScheduleFlush(flushPc, q), flushPc}
      BY <1>12 DEF SwitchMem
    <3> QED BY <3>1, ScheduleFact DEF TypeInv
  <2>4. logQueue' \in Seq(Nat)
    <3>1. op[c].new \in Nat
      BY DEF TypeInv, Op
    <3> QED BY <1>12, <3>1 DEF SwitchMem, TypeInv
  <2> QED BY <1>12, <2>1, <2>2, <2>3, <2>4 DEF SwitchMem, TypeInv
<1>13. ASSUME NEW c \in Clients, Apply(c) PROVE TypeInv'
  <2>1. pc' \in [Clients -> ClientPcs]
    BY <1>13 DEF Apply, TypeInv, ClientPcs
  <2>2. queue' \in Seq(Table)
    BY <1>13, ApplyShape DEF QInv
  <2>3. flushPc' \in FlushPcs
    <3>1. \E q : flushPc' \in {ScheduleFlush(flushPc, q), flushPc}
      BY <1>13 DEF Apply
    <3> QED BY <3>1, ScheduleFact DEF TypeInv
  <2> QED BY <1>13, <2>1, <2>2, <2>3 DEF Apply, TypeInv, logVars
<1>14. ASSUME NEW c \in Clients, Ack(c) PROVE TypeInv'
  <2>1. pc' \in [Clients -> ClientPcs]
    BY <1>14 DEF Ack, TypeInv, ClientPcs
  <2>2. op' \in [Clients -> Op]
    BY <1>14, NoOpFact DEF Ack, TypeInv
  <2> QED BY <1>14, <2>1, <2>2 DEF Ack, TypeInv, logVars, flushVars
<1>15. ASSUME SyncLog PROVE TypeInv'
  BY <1>15 DEF SyncLog, TypeInv, diskVars, logVars, clientVars, flushVars, histVars
<1>16. ASSUME Close PROVE TypeInv'
  BY <1>16 DEF Close, TypeInv, Statuses, logVars, clientVars, flushVars
<1>17. ASSUME CloseDone PROVE TypeInv'
  BY <1>17, ForgetType DEF CloseDone
<1>18. ASSUME Crash PROVE TypeInv'
  BY <1>18, ForgetType DEF Crash
<1>19. ASSUME CrashInMetaEdit PROVE TypeInv'
  BY <1>19, ForgetType DEF CrashInMetaEdit
<1>20. ASSUME OpenFails PROVE TypeInv'
  BY <1>20, ForgetType DEF OpenFails
<1>21. ASSUME Open PROVE TypeInv'
  <2>1. nextFileNum' \in Nat \ {0}
    BY <1>21, OpenNumber
  <2>2. arr' \in Nat /\ logSeqNum' \in Nat \ {0}
    BY <1>21 DEF Open, QInv, DiskInv, Metas
  <2> QED BY <1>21, <2>1, <2>2 DEF Open, TypeInv, Statuses, clientVars, flushVars
<1>22. ASSUME ReplayWAL PROVE TypeInv'
  <2>1. CASE UNCHANGED <<ats, arr, nextFileNum, logSeqNum, trash, lapse>>
    BY <1>22, <2>1 DEF ReplayWAL, TypeInv, logVars, clientVars, flushVars
  <2>2. CASE ~UNCHANGED <<ats, arr, nextFileNum, logSeqNum, trash, lapse>>
    <3>1. arr' \in Nat /\ nextFileNum' \in Nat \ {0}
      BY <1>22, <2>2 DEF ReplayWAL, TypeInv
    <3>2. logSeqNum' \in Nat \ {0}
      BY <1>22, <2>2, ReplaySeq DEF TypeInv
    <3> QED BY <1>22, <3>1, <3>2 DEF ReplayWAL, TypeInv, logVars, clientVars, flushVars
  <2> QED BY <2>1, <2>2
<1>23. ASSUME Recovered PROVE TypeInv'
  <2>1. nextFileNum' \in Nat \ {0} /\ logQueue' \in Seq(Nat)
    BY <1>23 DEF Recovered, TypeInv
  <2> QED BY <1>23, <2>1 DEF Recovered, TypeInv, Statuses, clientVars, flushVars
<1>24. ASSUME OpenDone PROVE TypeInv'
  <2>1. queue' \in Seq(Table)
    <3>1. CurLog \in Nat
      BY <1>24 DEF OpenDone, QInv, ModeInv, CurLog, TypeInv
    <3>2. Mem(1, CurLog) \in Table
      BY <3>1, EmptyFact DEF Mem, Table
    <3> QED BY <1>24, <3>2 DEF OpenDone
  <2> QED BY <1>24, <2>1 DEF OpenDone, TypeInv, Statuses, logVars, clientVars, flushVars
<1>25. ASSUME UNCHANGED vars PROVE TypeInv'
  BY <1>25 DEF vars, TypeInv, diskVars, logVars, clientVars, flushVars, histVars
<1> QED
  BY <1>1, <1>2, <1>3, <1>4, <1>5, <1>6, <1>7, <1>8, <1>9, <1>10, <1>11, <1>12, <1>13, <1>14, <1>15, <1>16, <1>17, <1>18, <1>19, <1>20, <1>21, <1>22, <1>23, <1>24, <1>25 DEF Next, Client, Flusher, Recovery
\* A record is added to the log being written.
LEMMA LoggedFact ==
  ASSUME DiskInv, NEW r \in Record, NEW x,
         logs' = logs \/ logs' = [logs EXCEPT ![x] = Append(logs[x], r)]
  PROVE  /\ DOMAIN logs' = DOMAIN logs
         /\ \A f \in DOMAIN logs : logs'[f] \in Seq(Record)
         /\ \A f \in DOMAIN logs : logs'[f] = logs[f] \/ logs'[f] = Append(logs[f], r)
BY DEF DiskInv

\* A kill leaves a prefix of the log being written.
LEMMA TailFact ==
  ASSUME DiskInv, LoseTail
  PROVE  /\ DOMAIN logs' = DOMAIN logs
         /\ \A f \in DOMAIN logs :
              /\ logs'[f] \in Seq(Record) /\ Len(logs'[f]) <= Len(logs[f])
              /\ \A i \in 1..Len(logs'[f]) : logs'[f][i] = logs[f][i]
<1>1. CASE logs' = logs
  BY <1>1 DEF DiskInv
<1>2. CASE logs' # logs
  <2>1. CurLog \in DOMAIN logs
    BY <1>2 DEF LoseTail
  <2> DEFINE s == logs[CurLog]
  <2>2. s \in Seq(Record) /\ Len(s) \in Nat
    BY <2>1 DEF DiskInv
  <2>3. PICK n \in Int : n <= Len(s) /\ logs' = [logs EXCEPT ![CurLog] = SubSeq(s, 1, n)]
    BY <1>2, <2>2 DEF LoseTail
  <2> HIDE DEF s
  <2>4. /\ SubSeq(s, 1, n) \in Seq(Record) /\ Len(SubSeq(s, 1, n)) <= Len(s)
        /\ \A i \in 1..Len(SubSeq(s, 1, n)) : SubSeq(s, 1, n)[i] = s[i]
    <3>1. \A i \in 1..n : s[i] \in Record
      BY <2>2, <2>3
    <3>2. /\ SubSeq(s, 1, n) \in Seq(Record)
          /\ Len(SubSeq(s, 1, n)) = IF 1 <= n THEN n - 1 + 1 ELSE 0
          /\ \A i \in 1..(n - 1 + 1) : SubSeq(s, 1, n)[i] = s[1 + i - 1]
      BY <3>1, <2>3, SubSeqProperties
    <3>3. CASE n < 1
      BY <2>2, <2>3, <3>2, <3>3
    <3>4. CASE 1 <= n
      <4>1. Len(SubSeq(s, 1, n)) = n /\ n - 1 + 1 = n
        BY <2>3, <3>2, <3>4
      <4>2. \A i \in 1..n : 1 + i - 1 = i
        OBVIOUS
      <4> QED BY <2>3, <3>2, <4>1, <4>2
    <3> QED BY <2>3, <3>3, <3>4
  <2> QED BY <2>1, <2>3, <2>4 DEF DiskInv, s
<1> QED
  BY <1>1, <1>2

\* The types on disk, whatever action is taken or whenever the process is killed.
LEMMA DiskStep ==
  ASSUME QInv, [Next]_vars
  PROVE  DiskInv'
<1> USE DEF QInv
<1>1. ASSUME FlushStart PROVE DiskInv'
  BY <1>1 DEF FlushStart, DiskInv, diskVars
<1>2. ASSUME FlushNumber PROVE DiskInv'
  BY <1>2 DEF FlushNumber, DiskInv, diskVars
<1>3. ASSUME FlushBuild PROVE DiskInv'
  <2>1. fl.num \in Nat
    BY DEF TypeInv, Flushes
  <2>2. Bounded(DOMAIN ats')
    <3>1. DOMAIN ats' = DOMAIN ats \cup {fl.num}
      BY <1>3 DEF FlushBuild, Put
    <3> QED BY <2>1, <3>1, BoundedFact DEF DiskInv
  <2> QED BY <1>3, <2>2 DEF FlushBuild, DiskInv
<1>4. ASSUME FlushInstall PROVE DiskInv'
  <2>1. meta' \in Metas
    <3>1. MetaSet(fl.min, nextFileNum, fl.num) \in Metas
      BY DEF MetaSet, Metas, DiskInv, TypeInv, Flushes
    <3> QED BY <1>4, <3>1 DEF FlushInstall, DiskInv
  <2> QED BY <1>4, <2>1 DEF FlushInstall, DiskInv
<1>5. ASSUME FlushDelete PROVE DiskInv'
  <2>1. status # "replay"
    BY <1>5 DEF FlushDelete, ModeInv, Live
  <2> QED BY <1>5, <2>1 DEF FlushDelete, DiskInv, diskVars
<1>6. ASSUME FlushEnd PROVE DiskInv'
  <2>1. status # "replay"
    BY <1>6 DEF FlushEnd, ModeInv, Live
  <2> QED BY <1>6, <2>1 DEF FlushEnd, DiskInv, diskVars
<1>7. ASSUME DeleteFile PROVE DiskInv'
  <2>1. PICK t \in trash : /\ logs' = IF t[1] = "log" THEN Drop(logs, {t[2]}) ELSE logs
                           /\ ats' = IF t[1] = "at" THEN Drop(ats, {t[2]}) ELSE ats
                           /\ trash' = trash \ {t}
    BY <1>7 DEF DeleteFile
  <2>2. /\ DOMAIN logs' \subseteq DOMAIN logs /\ \A f \in DOMAIN logs' : logs'[f] = logs[f]
        /\ DOMAIN ats' \subseteq DOMAIN ats
    BY <2>1 DEF Drop, Put
  <2>3. pending' \subseteq DOMAIN logs'
    BY <1>7, <2>1, <2>2 DEF DeleteFile, DiskInv
  <2>4. Bounded(DOMAIN logs') /\ Bounded(DOMAIN ats')
    BY <2>2, BoundedFact DEF DiskInv
  <2> QED BY <1>7, <2>1, <2>2, <2>3, <2>4 DEF DeleteFile, DiskInv
<1>8. ASSUME NEW c \in Clients, NEW k \in Keys, Set(c, k) PROVE DiskInv'
  <2>1. \/ logs' = logs
        \/ logs' = [logs EXCEPT ![CurLog] = Append(logs[CurLog],
                      [key |-> k, seq |-> logSeqNum, large |-> TRUE])]
    BY <1>8 DEF Set
  <2>2. [key |-> k, seq |-> logSeqNum, large |-> TRUE] \in Record
    BY DEF TypeInv, Record
  <2>3. /\ DOMAIN logs' = DOMAIN logs
        /\ \A f \in DOMAIN logs : logs'[f] \in Seq(Record)
    BY <2>1, <2>2, LoggedFact
  <2> QED BY <1>8, <2>3 DEF Set, DiskInv
<1>9. ASSUME NEW c \in Clients, Flush(c) PROVE DiskInv'
  BY <1>9 DEF Flush, DiskInv, diskVars
<1>10. ASSUME NEW c \in Clients, Prepare(c) PROVE DiskInv'
  <2> DEFINE r == [key |-> op[c].key, seq |-> op[c].seq, large |-> FALSE]
  <2>1. logs' = [logs EXCEPT ![CurLog] = Append(logs[CurLog], r)]
    BY <1>10 DEF Prepare
  <2>2. r \in Record
    BY <1>10 DEF TypeInv, Record, OpInv, Prepare, Op
  <2> HIDE DEF r
  <2>3. /\ DOMAIN logs' = DOMAIN logs
        /\ \A f \in DOMAIN logs : logs'[f] \in Seq(Record)
    BY <2>1, <2>2, LoggedFact
  <2> QED BY <1>10, <2>3 DEF Prepare, DiskInv
<1>11. ASSUME NEW c \in Clients, SwitchLog(c) PROVE DiskInv'
  BY <1>11 DEF SwitchLog, DiskInv, diskVars
<1>12. ASSUME NEW c \in Clients, SwitchMem(c) PROVE DiskInv'
  <2>1. PICK old : /\ old = logs \/ \E S : old = Drop(logs, S)
                   /\ logs' = Put(old, op[c].new, <<>>)
    BY <1>12 DEF SwitchMem
  <2>2. DOMAIN old \subseteq DOMAIN logs /\ \A f \in DOMAIN old : old[f] = logs[f]
    BY <2>1 DEF Drop, Put
  <2>3. DOMAIN logs' = DOMAIN old \cup {op[c].new}
    BY <2>1 DEF Drop, Put
  <2>4. \A f \in DOMAIN logs' : logs'[f] = <<>> \/ (f \in DOMAIN logs /\ logs'[f] = logs[f])
    <3>1. \A f \in DOMAIN logs' : logs'[f] = <<>> \/ (f \in DOMAIN old /\ logs'[f] = old[f])
      <4>1. PICK v : v = <<>> /\ logs' = Put(old, op[c].new, v)
        BY <2>1
      <4> QED BY <4>1 DEF Put
    <3> QED BY <2>2, <3>1, Zenon
  <2>5. \A f \in DOMAIN logs' : logs'[f] \in Seq(Record)
    <3>1. <<>> \in Seq(Record)
      OBVIOUS
    <3>2. \A f \in DOMAIN logs : logs[f] \in Seq(Record)
      BY DEF DiskInv
    <3> QED BY <2>4, <3>1, <3>2, Zenon
  <2>6. op[c].new \in Nat
    BY DEF TypeInv, Op
  <2>7. Bounded(DOMAIN logs')
    <3>1. Bounded(DOMAIN old)
      BY <2>2, BoundedFact DEF DiskInv
    <3>2. Bounded({op[c].new})
      BY <2>6, BoundedFact
    <3> QED BY <2>3, <3>1, <3>2, BoundedFact
  <2>8. status # "replay" /\ pending = {}
    BY <1>12 DEF SwitchMem, ModeInv, DiskInv
  <2> QED BY <1>12, <2>5, <2>7, <2>8 DEF SwitchMem, DiskInv
<1>13. ASSUME NEW c \in Clients, Apply(c) PROVE DiskInv'
  BY <1>13 DEF Apply, DiskInv, diskVars
<1>14. ASSUME NEW c \in Clients, Ack(c) PROVE DiskInv'
  BY <1>14 DEF Ack, DiskInv, diskVars
<1>15. ASSUME SyncLog PROVE DiskInv'
  BY <1>15 DEF SyncLog, DiskInv, diskVars
<1>16. ASSUME Close PROVE DiskInv'
  BY <1>16 DEF Close, DiskInv, diskVars
<1>17. ASSUME CloseDone PROVE DiskInv'
  <2>1. /\ DOMAIN logs' \subseteq DOMAIN logs /\ \A f \in DOMAIN logs' : logs'[f] = logs[f]
        /\ DOMAIN ats' \subseteq DOMAIN ats
    BY <1>17 DEF CloseDone, Drop
  <2>2. Bounded(DOMAIN logs') /\ Bounded(DOMAIN ats')
    BY <2>1, BoundedFact DEF DiskInv
  <2> QED BY <1>17, <2>1, <2>2 DEF CloseDone, Forget, DiskInv
<1>18. ASSUME Crash PROVE DiskInv'
  <2>1. /\ DOMAIN logs' = DOMAIN logs
        /\ \A f \in DOMAIN logs : logs'[f] \in Seq(Record)
    BY <1>18, TailFact DEF Crash
  <2> QED BY <1>18, <2>1 DEF Crash, Forget, DiskInv
<1>19. ASSUME CrashInMetaEdit PROVE DiskInv'
  <2>1. /\ DOMAIN logs' = DOMAIN logs
        /\ \A f \in DOMAIN logs : logs'[f] \in Seq(Record)
    BY <1>19, TailFact DEF CrashInMetaEdit
  <2>2. meta' \in Metas
    <3>1. PICK n \in 1..3 :
         meta' = [meta EXCEPT !.min = fl.min,
                              !.next = IF n > 1 THEN nextFileNum ELSE @,
                              !.last = IF n > 2 THEN logSeqNum - 1 ELSE @]
      BY <1>19 DEF CrashInMetaEdit
    <3>2. fl.min \in Nat /\ nextFileNum \in Nat /\ logSeqNum - 1 \in Nat
      BY DEF TypeInv, Flushes
    <3> QED BY <3>1, <3>2 DEF DiskInv, Metas
  <2> QED BY <1>19, <2>1, <2>2 DEF CrashInMetaEdit, Forget, DiskInv
<1>20. ASSUME OpenFails PROVE DiskInv'
  <2>1. DOMAIN ats' \subseteq DOMAIN ats
    BY <1>20 DEF OpenFails, Drop
  <2>2. Bounded(DOMAIN ats')
    BY <2>1, BoundedFact DEF DiskInv
  <2> QED BY <1>20, <2>2 DEF OpenFails, Forget, DiskInv
<1>21. ASSUME Open PROVE DiskInv'
  <2>1. \A t \in trash' : t[1] # "log"
    BY <1>21 DEF Open
  <2>2. pending' \subseteq DOMAIN logs
    BY <1>21 DEF Open, ToReplay
  <2> QED BY <1>21, <2>1, <2>2 DEF Open, DiskInv, diskVars
<1>22. ASSUME ReplayWAL PROVE DiskInv'
  <2>1. Bounded(DOMAIN ats')
    <3>1. ats' = ats \/ \E v : ats' = Put(ats, nextFileNum, v)
      BY <1>22 DEF ReplayWAL
    <3>2. DOMAIN ats' \subseteq DOMAIN ats \cup {nextFileNum}
      BY <3>1 DEF Put
    <3> QED BY <3>2, BoundedFact DEF DiskInv, TypeInv
  <2>2. status = "replay" /\ \A t \in trash' : t[1] # "log"
    BY <1>22 DEF ReplayWAL, DiskInv
  <2>3. pending' \subseteq DOMAIN logs
    BY <1>22 DEF ReplayWAL, DiskInv
  <2> QED BY <1>22, <2>1, <2>2, <2>3 DEF ReplayWAL, DiskInv
<1>23. ASSUME Recovered PROVE DiskInv'
  <2>1. meta' \in Metas
    BY <1>23 DEF Recovered, MetaSet, Metas, DiskInv, TypeInv
  <2> QED BY <1>23, <2>1 DEF Recovered, DiskInv
<1>24. ASSUME OpenDone PROVE DiskInv'
  <2>1. logs' = Put(logs, CurLog, <<>>)
    BY <1>24 DEF OpenDone
  <2>2. CurLog \in Nat
    BY <1>24 DEF OpenDone, ModeInv, CurLog, TypeInv
  <2>3. DOMAIN logs' = DOMAIN logs \cup {CurLog}
    BY <2>1 DEF Drop, Put
  <2>4. \A f \in DOMAIN logs' : logs'[f] = <<>> \/ (f \in DOMAIN logs /\ logs'[f] = logs[f])
    <3>1. PICK v : v = <<>> /\ logs' = Put(logs, CurLog, v)
      BY <2>1
    <3> QED BY <3>1 DEF Put
  <2>5. \A f \in DOMAIN logs' : logs'[f] \in Seq(Record)
    <3>1. <<>> \in Seq(Record)
      OBVIOUS
    <3>2. \A f \in DOMAIN logs : logs[f] \in Seq(Record)
      BY DEF DiskInv
    <3> QED BY <2>4, <3>1, <3>2, Zenon
  <2>6. Bounded(DOMAIN logs')
    BY <2>2, <2>3, BoundedFact DEF DiskInv
  <2> QED BY <1>24, <2>5, <2>6 DEF OpenDone, DiskInv
<1>25. ASSUME UNCHANGED vars PROVE DiskInv'
  BY <1>25 DEF vars, DiskInv, diskVars, logVars, clientVars, flushVars, histVars
<1> QED
  BY <1>1, <1>2, <1>3, <1>4, <1>5, <1>6, <1>7, <1>8, <1>9, <1>10, <1>11, <1>12, <1>13, <1>14, <1>15, <1>16, <1>17, <1>18, <1>19, <1>20, <1>21, <1>22, <1>23, <1>24, <1>25 DEF Next, Client, Flusher, Recovery
\* Who may be where: the commit mutex has one holder, and a closed DB has neither
\* memtables nor clients (DB.Close, commitPipeline.mu).
LEMMA ModeStep ==
  ASSUME QInv, [Next]_vars
  PROVE  ModeInv'
<1> USE DEF QInv
<1>1. ASSUME FlushStart PROVE ModeInv'
  BY <1>1 DEF FlushStart, ModeInv, Live, diskVars, logVars, clientVars, flushVars, histVars
<1>2. ASSUME FlushNumber PROVE ModeInv'
  BY <1>2 DEF FlushNumber, ModeInv, Live, diskVars, logVars, clientVars, flushVars, histVars
<1>3. ASSUME FlushBuild PROVE ModeInv'
  BY <1>3 DEF FlushBuild, ModeInv, Live, diskVars, logVars, clientVars, flushVars, histVars
<1>4. ASSUME FlushInstall PROVE ModeInv'
  <2>1. Live /\ queue # <<>>
    BY <1>4 DEF FlushInstall, ModeInv
  <2>2. queue' # <<>>
    <3>1. queue' = queue \/ Len(queue') > 0
      BY <1>4, InstallShape
    <3>2. Len(<<>>) = 0
      OBVIOUS
    <3> QED BY <2>1, <3>1, <3>2
  <2> QED BY <1>4, <2>1, <2>2 DEF FlushInstall, ModeInv, Live, clientVars
<1>5. ASSUME FlushDelete PROVE ModeInv'
  BY <1>5 DEF FlushDelete, ModeInv, Live, diskVars, logVars, clientVars, flushVars, histVars
<1>6. ASSUME FlushEnd PROVE ModeInv'
  <2>1. Live /\ queue # <<>>
    BY <1>6 DEF FlushEnd, ModeInv
  <2>2. \A c \in Clients : pc'[c] \in {pc[c], "idle"}
    BY <1>6 DEF FlushEnd
  <2>3. UNCHANGED <<status, queue, commitMu, logQueue>>
    BY <1>6 DEF FlushEnd, logVars
  <2> QED BY <2>1, <2>2, <2>3 DEF ModeInv, Live
<1>7. ASSUME DeleteFile PROVE ModeInv'
  BY <1>7 DEF DeleteFile, ModeInv, Live, diskVars, logVars, clientVars, flushVars, histVars
<1>8. ASSUME NEW c \in Clients, NEW k \in Keys, Set(c, k) PROVE ModeInv'
  <2>1. status = "open" /\ commitMu = NONE /\ commitMu' = c /\ UNCHANGED <<status, queue, flushPc>>
    BY <1>8 DEF Set, flushVars
  <2>2. pc' = [pc EXCEPT ![c] = "room"]
    BY <1>8 DEF Set
  <2>3. \A d \in Clients : d # c => pc'[d] \notin {"room", "switch"}
    BY <2>1, <2>2, ClientsAssumption DEF ModeInv, TypeInv
  <2> QED BY <2>1, <2>2, <2>3 DEF ModeInv, Live
<1>9. ASSUME NEW c \in Clients, Flush(c) PROVE ModeInv'
  <2>1. status = "open" /\ commitMu = NONE /\ commitMu' = c /\ UNCHANGED <<status, queue, flushPc>>
    BY <1>9 DEF Flush, flushVars
  <2>2. pc' = [pc EXCEPT ![c] = "room"]
    BY <1>9 DEF Flush
  <2>3. \A d \in Clients : d # c => pc'[d] \notin {"room", "switch"}
    BY <2>1, <2>2, ClientsAssumption DEF ModeInv, TypeInv
  <2> QED BY <2>1, <2>2, <2>3 DEF ModeInv, Live
<1>10. ASSUME NEW c \in Clients, Prepare(c) PROVE ModeInv'
  <2>1. status = "open" /\ commitMu = c /\ UNCHANGED <<status, flushPc>> /\ queue # <<>>
    BY <1>10 DEF Prepare, flushVars, ModeInv, Live
  <2>2. pc' = [pc EXCEPT ![c] = "apply"]
    BY <1>10 DEF Prepare
  <2>3. \A d \in Clients : pc'[d] \notin {"room", "switch"}
    BY <2>1, <2>2, ClientsAssumption DEF ModeInv, TypeInv
  <2>4. queue' # <<>>
    <3>1. Len(queue') = Len(queue)
      BY <1>10, <2>1, PrepareShape
    <3>2. Len(queue) \in Nat /\ Len(queue) > 0 /\ Len(<<>>) = 0
      BY <2>1, MutableFact
    <3> QED BY <3>1, <3>2
  <2> QED BY <2>1, <2>2, <2>3, <2>4 DEF ModeInv, Live
<1>11. ASSUME NEW c \in Clients, SwitchLog(c) PROVE ModeInv'
  <2>1. status = "open" /\ commitMu = c /\ UNCHANGED <<status, commitMu, queue, flushPc>>
    BY <1>11 DEF SwitchLog, flushVars, ModeInv
  <2>2. pc' = [pc EXCEPT ![c] = "switch"]
    BY <1>11 DEF SwitchLog
  <2>3. \A d \in Clients : d # c => pc'[d] \notin {"room", "switch"}
    BY <2>1, <2>2, ClientsAssumption DEF ModeInv, TypeInv
  <2> QED BY <2>1, <2>2, <2>3 DEF ModeInv, Live
<1>12. ASSUME NEW c \in Clients, SwitchMem(c) PROVE ModeInv'
  <2>1. status = "open" /\ commitMu = c /\ UNCHANGED status /\ queue # <<>>
    BY <1>12 DEF SwitchMem, ModeInv, Live
  <2>2. /\ op[c].kind = "small" => pc' = [pc EXCEPT ![c] = "room"] /\ commitMu' = c
        /\ op[c].kind = "large" => pc' = [pc EXCEPT ![c] = "ack"]
        /\ op[c].kind = "flush" => pc' = [pc EXCEPT ![c] = "flushing"]
    BY <1>12 DEF SwitchMem
  <2>3. op[c].kind \in {"small", "large", "flush"}
    BY <1>12 DEF SwitchMem, OpInv, TypeInv, Op, Kinds
  <2>4. \A d \in Clients : d # c => pc'[d] \notin {"room", "switch"}
    BY <2>1, <2>2, <2>3, ClientsAssumption DEF ModeInv, TypeInv
  <2>5. pc'[c] \in {"room", "switch"} => commitMu' = c
    BY <2>2, <2>3 DEF TypeInv
  <2>6. queue' # <<>>
    <3>1. Len(queue) \in Nat /\ Len(queue') \in {Len(queue) + 2, Len(queue) + 1}
      BY <1>12, <2>1, SwitchShape, MutableFact
    <3>2. Len(<<>>) = 0
      OBVIOUS
    <3> QED BY <3>1, <3>2
  <2> QED BY <2>1, <2>4, <2>5, <2>6 DEF ModeInv, Live
<1>13. ASSUME NEW c \in Clients, Apply(c) PROVE ModeInv'
  <2>1. status = "open" /\ UNCHANGED <<status, commitMu>> /\ queue # <<>>
    BY <1>13 DEF Apply, ModeInv, Live
  <2>2. pc' = [pc EXCEPT ![c] = "ack"]
    BY <1>13 DEF Apply
  <2>4. queue' # <<>>
    BY <1>13, <2>1, ApplyShape, MutableFact
  <2> QED BY <2>1, <2>2, <2>4 DEF ModeInv, Live, TypeInv
<1>14. ASSUME NEW c \in Clients, Ack(c) PROVE ModeInv'
  <2>1. UNCHANGED <<status, commitMu, queue, flushPc, logQueue>>
    BY <1>14 DEF Ack, flushVars, logVars
  <2>2. pc' = [pc EXCEPT ![c] = "idle"]
    BY <1>14 DEF Ack
  <2> QED BY <2>1, <2>2 DEF ModeInv, Live, TypeInv
<1>15. ASSUME SyncLog PROVE ModeInv'
  BY <1>15 DEF SyncLog, ModeInv, Live, diskVars, logVars, clientVars, flushVars, histVars
<1>16. ASSUME Close PROVE ModeInv'
  BY <1>16 DEF Close, ModeInv, Live, diskVars, logVars, clientVars, flushVars, histVars
<1>17. ASSUME CloseDone PROVE ModeInv'
  BY <1>17 DEF CloseDone, Forget, ModeInv, Live
<1>18. ASSUME Crash PROVE ModeInv'
  BY <1>18 DEF Crash, Forget, ModeInv, Live
<1>19. ASSUME CrashInMetaEdit PROVE ModeInv'
  BY <1>19 DEF CrashInMetaEdit, Forget, ModeInv, Live
<1>20. ASSUME OpenFails PROVE ModeInv'
  BY <1>20 DEF OpenFails, Forget, ModeInv, Live
<1>21. ASSUME Open PROVE ModeInv'
  BY <1>21 DEF Open, ModeInv, Live, diskVars, logVars, clientVars, flushVars, histVars
<1>22. ASSUME ReplayWAL PROVE ModeInv'
  BY <1>22 DEF ReplayWAL, ModeInv, Live, diskVars, logVars, clientVars, flushVars, histVars
<1>23. ASSUME Recovered PROVE ModeInv'
  BY <1>23 DEF Recovered, ModeInv, Live, diskVars, logVars, clientVars, flushVars, histVars
<1>24. ASSUME OpenDone PROVE ModeInv'
  <2>1. queue' # <<>>
    BY <1>24 DEF OpenDone
  <2> QED BY <1>24, <2>1 DEF OpenDone, ModeInv, Live, clientVars, flushVars
<1>25. ASSUME UNCHANGED vars PROVE ModeInv'
  BY <1>25 DEF vars, ModeInv, Live, diskVars, logVars, clientVars, flushVars, histVars
<1> QED
  BY <1>1, <1>2, <1>3, <1>4, <1>5, <1>6, <1>7, <1>8, <1>9, <1>10, <1>11, <1>12, <1>13, <1>14, <1>15, <1>16, <1>17, <1>18, <1>19, <1>20, <1>21, <1>22, <1>23, <1>24, <1>25 DEF Next, Client, Flusher, Recovery

\* A memtable a batch is being applied to has a reference.
LEMMA WritersCount ==
  ASSUME TypeInv, RefsInv, NEW c \in Clients, pc[c] = "apply",
         NEW i \in DOMAIN queue, queue[i].mem = op[c].mem
  PROVE  queue[i].refs > 0
<1> DEFINE W == Writers(queue[i].mem)
<1>1. IsFiniteSet(W)
  <2>1. W \subseteq {d \in Clients : pc[d] = "apply"}
    BY DEF Writers
  <2> QED BY <2>1, FS_Subset DEF RefsInv
<1>2. c \in W
  BY DEF Writers
<1> HIDE DEF W
<1>3. Cardinality(W) \in Nat /\ Cardinality(W) # 0
  BY <1>1, <1>2, FS_CardinalityType, FS_EmptySet
<1>4. queue[i].refs = Cardinality(W) + (IF i = Len(queue) THEN 1 ELSE 0)
  BY DEF RefsInv, W
<1> QED
  BY <1>3, <1>4

\* What the clients have in hand; flush1 does not take a memtable that a batch is
\* still being applied to.
LEMMA OpStep ==
  ASSUME QInv, [Next]_vars
  PROVE  OpInv'
<1> USE DEF QInv
<1>1. ASSUME FlushStart PROVE OpInv'
  BY <1>1 DEF FlushStart, OpInv, InQueue, diskVars, logVars, clientVars, flushVars, histVars
<1>2. ASSUME FlushNumber PROVE OpInv'
  BY <1>2 DEF FlushNumber, OpInv, InQueue, diskVars, logVars, clientVars, flushVars, histVars
<1>3. ASSUME FlushBuild PROVE OpInv'
  BY <1>3 DEF FlushBuild, OpInv, InQueue, diskVars, logVars, clientVars, flushVars, histVars
<1>4. ASSUME FlushInstall PROVE OpInv'
  <2>1. UNCHANGED <<pc, op>>
    BY <1>4 DEF FlushInstall, clientVars
  <2>2. ASSUME NEW c \in Clients, pc[c] = "apply"
        PROVE  \E i \in DOMAIN queue' : queue'[i].mem = op[c].mem
    <3>1. CASE queue' = queue
      BY <3>1, <2>2 DEF OpInv, InQueue
    <3>2. CASE queue' # queue
      <4>1. /\ queue' \in Seq(Table) /\ Len(queue') = Len(queue) - fl.n
            /\ \A i \in 1..Len(queue') : queue'[i] = queue[i + fl.n]
        BY <1>4, <3>2, InstallShape
      <4>2. PICK i \in DOMAIN queue : queue[i].mem = op[c].mem
        BY <2>2 DEF OpInv, InQueue
      <4>3. queue # <<>> /\ fl.n \in Nat /\ fl.n < Len(queue) /\ \A j \in 1..fl.n : queue[j].refs = 0
        BY <1>4 DEF FlushInstall, FlushInv, TypeInv, Flushes, ModeInv
      <4>4. Len(queue) \in Nat /\ i \in 1..Len(queue)
        BY <4>2 DEF TypeInv
      <4>5. queue[i].refs > 0
        BY <2>2, <4>2, WritersCount
      <4>6. ~(i <= fl.n)
        BY <4>3, <4>4, <4>5
      <4>7. i - fl.n \in 1..Len(queue') /\ (i - fl.n) + fl.n = i
        BY <4>1, <4>3, <4>4, <4>6
      <4>8. queue'[i - fl.n] = queue[i] /\ i - fl.n \in DOMAIN queue'
        BY <4>1, <4>7
      <4> QED BY <4>2, <4>8
    <3> QED BY <3>1, <3>2
  <2> QED BY <2>1, <2>2 DEF OpInv, InQueue
<1>5. ASSUME FlushDelete PROVE OpInv'
  BY <1>5 DEF FlushDelete, OpInv, InQueue, diskVars, logVars, clientVars, flushVars, histVars
<1>6. ASSUME FlushEnd PROVE OpInv'
  <2>1. UNCHANGED queue
    BY <1>6 DEF FlushEnd
  <2>2. \A c \in Clients : (pc'[c] = pc[c] /\ op'[c] = op[c]) \/ pc'[c] = "idle"
    BY <1>6 DEF FlushEnd
  <2> QED BY <2>1, <2>2 DEF OpInv, InQueue
<1>7. ASSUME DeleteFile PROVE OpInv'
  BY <1>7 DEF DeleteFile, OpInv, InQueue, diskVars, logVars, clientVars, flushVars, histVars
<1>8. ASSUME NEW c \in Clients, NEW k \in Keys, Set(c, k) PROVE OpInv'
  <2>1. PICK kind \in {"small", "large"}, sync \in BOOLEAN :
          op' = [op EXCEPT ![c] = [NoOp EXCEPT !.kind = kind, !.key = k, !.seq = logSeqNum,
                                               !.sync = sync]]
    BY <1>8 DEF Set
  <2>2. /\ op'[c].kind = kind /\ op'[c].key = k /\ op'[c].seq = logSeqNum
        /\ \A d \in Clients : d # c => op'[d] = op[d]
    BY <2>1 DEF NoOp, TypeInv
  <2>3. pc' = [pc EXCEPT ![c] = "room"] /\ UNCHANGED queue
    BY <1>8 DEF Set
  <2> QED BY <2>1, <2>2, <2>3 DEF OpInv, InQueue, TypeInv
<1>9. ASSUME NEW c \in Clients, Flush(c) PROVE OpInv'
  <2>1. op' = [op EXCEPT ![c] = [NoOp EXCEPT !.kind = "flush", !.mem = Mutable.mem]]
    BY <1>9 DEF Flush
  <2>2. /\ op'[c].kind = "flush"
        /\ \A d \in Clients : d # c => op'[d] = op[d]
    BY <2>1 DEF NoOp, TypeInv
  <2>3. pc' = [pc EXCEPT ![c] = "room"] /\ UNCHANGED queue
    BY <1>9 DEF Flush
  <2> QED BY <2>1, <2>2, <2>3 DEF OpInv, InQueue, TypeInv
<1>10. ASSUME NEW c \in Clients, Prepare(c) PROVE OpInv'
  <2>0. queue # <<>>
    BY <1>10 DEF Prepare, ModeInv, Live
  <2>1. /\ op'[c].key = op[c].key /\ op'[c].seq = op[c].seq /\ op'[c].mem = Mutable.mem
        /\ \A d \in Clients : d # c => op'[d] = op[d]
    BY <1>10 DEF Prepare, TypeInv, Op
  <2>2. pc' = [pc EXCEPT ![c] = "apply"]
    BY <1>10 DEF Prepare
  <2>3. /\ DOMAIN queue = 1..Len(queue) /\ DOMAIN queue' = 1..Len(queue)
        /\ \A i \in 1..Len(queue) : queue'[i].mem = queue[i].mem
    <3>1. /\ queue' \in Seq(Table) /\ Len(queue') = Len(queue)
          /\ \A i \in 1..Len(queue) : queue'[i].mem = queue[i].mem
      BY <1>10, <2>0, PrepareShape
    <3>2. DOMAIN queue' = 1..Len(queue')
      BY <3>1
    <3>3. DOMAIN queue = 1..Len(queue)
      BY DEF TypeInv
    <3> QED BY <3>1, <3>2, <3>3
  <2>4. \A m : InQueue(m) => InQueue(m)'
    BY <2>3 DEF InQueue
  <2>5. Mutable.mem > 0 /\ \E i \in DOMAIN queue' : queue'[i].mem = Mutable.mem
    BY <2>0, <2>3, MutableFact DEF IdsInv
  <2>6. op[c].key \in Keys /\ op[c].seq > 0
    BY <1>10 DEF Prepare, OpInv
  <2>7. \A d \in Clients : d # c => pc'[d] = pc[d]
    BY <2>2 DEF TypeInv
  <2>8. pc'[c] = "apply"
    BY <2>2 DEF TypeInv
  <2>9. ASSUME NEW d \in Clients, d # c, pc[d] = "apply" PROVE \E i \in DOMAIN queue' : queue'[i].mem = op[d].mem
    BY <2>3, <2>9 DEF OpInv, InQueue
  <2> QED BY <2>1, <2>5, <2>6, <2>7, <2>8, <2>9 DEF OpInv, InQueue
<1>11. ASSUME NEW c \in Clients, SwitchLog(c) PROVE OpInv'
  <2>1. /\ op'[c].key = op[c].key /\ op'[c].seq = op[c].seq /\ op'[c].kind = op[c].kind
        /\ \A d \in Clients : d # c => op'[d] = op[d]
    BY <1>11 DEF SwitchLog, TypeInv, Op
  <2>2. pc' = [pc EXCEPT ![c] = "switch"] /\ pc[c] = "room" /\ UNCHANGED queue
    BY <1>11 DEF SwitchLog
  <2> QED BY <2>1, <2>2 DEF OpInv, InQueue, TypeInv
<1>12. ASSUME NEW c \in Clients, SwitchMem(c) PROVE OpInv'
  <2>0. queue # <<>>
    BY <1>12 DEF SwitchMem, ModeInv, Live
  <2>1. UNCHANGED op /\ pc[c] = "switch"
    BY <1>12 DEF SwitchMem
  <2>2. /\ op[c].kind = "small" => pc' = [pc EXCEPT ![c] = "room"] /\ commitMu' = c
        /\ op[c].kind = "large" => pc' = [pc EXCEPT ![c] = "ack"]
        /\ op[c].kind = "flush" => pc' = [pc EXCEPT ![c] = "flushing"]
    BY <1>12 DEF SwitchMem
  <2>3. op[c].kind \in {"small", "large", "flush"}
    BY <1>12 DEF SwitchMem, OpInv, TypeInv, Op, Kinds
  <2>4. pc'[c] \in {"room", "ack", "flushing"} /\ \A d \in Clients : d # c => pc'[d] = pc[d]
    BY <2>2, <2>3 DEF TypeInv
  <2>5. /\ Len(queue) \in Nat /\ Len(queue) > 0 /\ DOMAIN queue = 1..Len(queue) /\ queue' \in Seq(Table)
        /\ Len(queue') \in Nat /\ Len(queue') > Len(queue)
        /\ \A i \in 1..(Len(queue) - 1) : queue'[i] = queue[i]
        /\ queue'[Len(queue)].mem = queue[Len(queue)].mem
    <3>1. Len(queue) \in Nat /\ Len(queue) > 0 /\ DOMAIN queue = 1..Len(queue)
      BY <2>0, MutableFact
    <3>2. /\ queue' \in Seq(Table)
          /\ Len(queue') = IF op[c].kind = "large" THEN Len(queue) + 2 ELSE Len(queue) + 1
          /\ \A i \in 1..(Len(queue) - 1) : queue'[i] = queue[i]
          /\ queue'[Len(queue)].mem = queue[Len(queue)].mem
      BY <1>12, <2>0, SwitchShape
    <3>3. Len(queue') \in Nat /\ Len(queue') > Len(queue)
      BY <3>1, <3>2
    <3> QED BY <3>1, <3>2, <3>3
  <2>6. \A i \in DOMAIN queue : i \in DOMAIN queue' /\ queue'[i].mem = queue[i].mem
    <3> TAKE i \in DOMAIN queue
    <3>1. i \in 1..(Len(queue) - 1) \/ i = Len(queue)
      BY <2>5
    <3>2. DOMAIN queue' = 1..Len(queue')
      BY <2>5
    <3> QED BY <2>5, <3>1, <3>2
  <2>7. \A m : InQueue(m) => \E i \in DOMAIN queue' : queue'[i].mem = m
    BY <2>6 DEF InQueue
  <2> QED BY <2>1, <2>4, <2>7 DEF OpInv, InQueue
<1>13. ASSUME NEW c \in Clients, Apply(c) PROVE OpInv'
  <2>1. UNCHANGED op /\ pc' = [pc EXCEPT ![c] = "ack"]
    BY <1>13 DEF Apply
  <2>2. /\ queue' \in Seq(Table) /\ Len(queue') = Len(queue)
        /\ \A i \in 1..Len(queue) : queue'[i].mem = queue[i].mem
    BY <1>13, ApplyShape
  <2>3. DOMAIN queue = 1..Len(queue) /\ DOMAIN queue' = 1..Len(queue)
    BY <2>2 DEF TypeInv
  <2>4. \A m : InQueue(m) => \E i \in DOMAIN queue' : queue'[i].mem = m
    BY <2>2, <2>3 DEF InQueue
  <2>5. pc'[c] = "ack" /\ \A d \in Clients : d # c => pc'[d] = pc[d]
    BY <2>1 DEF TypeInv
  <2> QED BY <2>1, <2>4, <2>5 DEF OpInv, InQueue
<1>14. ASSUME NEW c \in Clients, Ack(c) PROVE OpInv'
  <2>1. pc'[c] = "idle" /\ \A d \in Clients : d # c => pc'[d] = pc[d] /\ op'[d] = op[d]
    BY <1>14 DEF Ack, TypeInv
  <2>2. UNCHANGED queue
    BY <1>14 DEF Ack
  <2> QED BY <2>1, <2>2 DEF OpInv, InQueue
<1>15. ASSUME SyncLog PROVE OpInv'
  BY <1>15 DEF SyncLog, OpInv, InQueue, diskVars, logVars, clientVars, flushVars, histVars
<1>16. ASSUME Close PROVE OpInv'
  BY <1>16 DEF Close, OpInv, InQueue, diskVars, logVars, clientVars, flushVars, histVars
<1>17. ASSUME CloseDone PROVE OpInv'
  BY <1>17 DEF CloseDone, Forget, OpInv
<1>18. ASSUME Crash PROVE OpInv'
  BY <1>18 DEF Crash, Forget, OpInv
<1>19. ASSUME CrashInMetaEdit PROVE OpInv'
  BY <1>19 DEF CrashInMetaEdit, Forget, OpInv
<1>20. ASSUME OpenFails PROVE OpInv'
  BY <1>20 DEF OpenFails, Forget, OpInv
<1>21. ASSUME Open PROVE OpInv'
  BY <1>21 DEF Open, OpInv, InQueue, diskVars, logVars, clientVars, flushVars, histVars
<1>22. ASSUME ReplayWAL PROVE OpInv'
  BY <1>22 DEF ReplayWAL, OpInv, InQueue, diskVars, logVars, clientVars, flushVars, histVars
<1>23. ASSUME Recovered PROVE OpInv'
  BY <1>23 DEF Recovered, OpInv, InQueue, diskVars, logVars, clientVars, flushVars, histVars
<1>24. ASSUME OpenDone PROVE OpInv'
  <2>1. \A c \in Clients : pc'[c] = "idle"
    BY <1>24 DEF OpenDone, ModeInv, clientVars
  <2> QED BY <2>1 DEF OpInv
<1>25. ASSUME UNCHANGED vars PROVE OpInv'
  BY <1>25 DEF vars, OpInv, InQueue, diskVars, logVars, clientVars, flushVars, histVars
<1> QED
  BY <1>1, <1>2, <1>3, <1>4, <1>5, <1>6, <1>7, <1>8, <1>9, <1>10, <1>11, <1>12, <1>13, <1>14, <1>15, <1>16, <1>17, <1>18, <1>19, <1>20, <1>21, <1>22, <1>23, <1>24, <1>25 DEF Next, Client, Flusher, Recovery
\* Memtables keep their place in the queue.
LEMMA SameIds ==
  ASSUME TypeInv, IdsInv, queue' \in Seq(Table), Len(queue') = Len(queue),
         \A i \in 1..Len(queue) : queue'[i].mem = queue[i].mem
  PROVE  IdsInv'
<1>1. DOMAIN queue = 1..Len(queue) /\ DOMAIN queue' = 1..Len(queue) /\ Len(queue) \in Nat
  BY DEF TypeInv
<1>2. queue' # <<>> => queue # <<>> /\ Len(queue) \in 1..Len(queue)
  BY <1>1
<1> QED
  BY <1>1, <1>2 DEF IdsInv, Mutable

\* Memtables stay in the order of their creation.
LEMMA IdsStep ==
  ASSUME QInv, [Next]_vars
  PROVE  IdsInv'
<1> USE DEF QInv
<1>1. ASSUME FlushStart PROVE IdsInv'
  BY <1>1 DEF FlushStart, IdsInv, Mutable, diskVars, logVars, clientVars, flushVars, histVars
<1>2. ASSUME FlushNumber PROVE IdsInv'
  BY <1>2 DEF FlushNumber, IdsInv, Mutable, diskVars, logVars, clientVars, flushVars, histVars
<1>3. ASSUME FlushBuild PROVE IdsInv'
  BY <1>3 DEF FlushBuild, IdsInv, Mutable, diskVars, logVars, clientVars, flushVars, histVars
<1>4. ASSUME FlushInstall PROVE IdsInv'
  <2>1. CASE queue' = queue
    BY <2>1 DEF IdsInv, Mutable
  <2>2. CASE queue' # queue
    <3>1. /\ queue' \in Seq(Table) /\ Len(queue') = Len(queue) - fl.n /\ Len(queue') > 0
          /\ \A i \in 1..Len(queue') : queue'[i] = queue[i + fl.n]
      BY <1>4, <2>2, InstallShape
    <3>2. fl.n \in Nat /\ Len(queue) \in Nat /\ DOMAIN queue = 1..Len(queue) /\ DOMAIN queue' = 1..Len(queue')
      BY <3>1 DEF TypeInv, Flushes
    <3>3. queue'[Len(queue')] = queue[Len(queue)]
      <4>1. Len(queue') \in 1..Len(queue') /\ Len(queue') + fl.n = Len(queue)
        BY <3>1, <3>2
      <4> QED BY <3>1, <4>1
    <3>4. ASSUME NEW i \in DOMAIN queue', NEW j \in DOMAIN queue', i < j,
                 queue'[i].mem # 0, queue'[j].mem # 0
          PROVE  queue'[i].mem < queue'[j].mem
      <4>1. i + fl.n \in DOMAIN queue /\ j + fl.n \in DOMAIN queue /\ i + fl.n < j + fl.n
        BY <3>1, <3>2, <3>4
      <4>2. queue'[i] = queue[i + fl.n] /\ queue'[j] = queue[j + fl.n]
        BY <3>1, <3>2
      <4> QED BY <3>4, <4>1, <4>2 DEF IdsInv
    <3>5. Len(queue) > 0 /\ queue # <<>>
      BY <3>1, <3>2
    <3> QED BY <3>3, <3>4, <3>5 DEF IdsInv, Mutable
  <2> QED BY <2>1, <2>2
<1>5. ASSUME FlushDelete PROVE IdsInv'
  BY <1>5 DEF FlushDelete, IdsInv, Mutable, diskVars, logVars, clientVars, flushVars, histVars
<1>6. ASSUME FlushEnd PROVE IdsInv'
  BY <1>6 DEF FlushEnd, IdsInv, Mutable, diskVars, logVars, clientVars, flushVars, histVars
<1>7. ASSUME DeleteFile PROVE IdsInv'
  BY <1>7 DEF DeleteFile, IdsInv, Mutable, diskVars, logVars, clientVars, flushVars, histVars
<1>8. ASSUME NEW c \in Clients, NEW k \in Keys, Set(c, k) PROVE IdsInv'
  BY <1>8 DEF Set, IdsInv, Mutable, diskVars, logVars, clientVars, flushVars, histVars
<1>9. ASSUME NEW c \in Clients, Flush(c) PROVE IdsInv'
  BY <1>9 DEF Flush, IdsInv, Mutable, diskVars, logVars, clientVars, flushVars, histVars
<1>10. ASSUME NEW c \in Clients, Prepare(c) PROVE IdsInv'
  <2>1. queue # <<>>
    BY <1>10 DEF Prepare, ModeInv, Live
  <2>2. /\ queue' \in Seq(Table) /\ Len(queue') = Len(queue)
        /\ \A i \in 1..Len(queue) : queue'[i].mem = queue[i].mem
    BY <1>10, <2>1, PrepareShape
  <2> QED BY <2>2, SameIds
<1>11. ASSUME NEW c \in Clients, SwitchLog(c) PROVE IdsInv'
  BY <1>11 DEF SwitchLog, IdsInv, Mutable, diskVars, logVars, clientVars, flushVars, histVars
<1>12. ASSUME NEW c \in Clients, SwitchMem(c) PROVE IdsInv'
  <2> DEFINE n == Len(queue)
             m == Len(queue')
             large == op[c].kind = "large"
  <2>1. queue # <<>>
    BY <1>12 DEF SwitchMem, ModeInv, Live
  <2>2. /\ queue' \in Seq(Table) /\ m = IF large THEN n + 2 ELSE n + 1
        /\ \A i \in 1..(n - 1) : queue'[i] = queue[i]
        /\ queue'[n].mem = queue[n].mem
        /\ large => queue'[n + 1].mem = 0
        /\ queue'[m].mem = queue[n].mem + 1
    BY <1>12, <2>1, SwitchShape
  <2>3. n \in Nat /\ n > 0 /\ queue[n].mem \in Nat /\ queue[n].mem > 0 /\ DOMAIN queue = 1..n
    BY <2>1, MutableFact DEF IdsInv
  <2>4. DOMAIN queue' = 1..m /\ m \in Nat
    BY <2>2
  <2>9. \A i \in 1..n : queue[i].mem \in Nat
    BY <2>3, EntryFact
  <2> HIDE DEF n, m, large
  <2>5. \A i \in 1..n : queue'[i].mem = queue[i].mem
    BY <2>2, <2>3
  <2>6. ASSUME NEW i \in 1..n, queue[i].mem # 0 PROVE queue[i].mem <= queue[n].mem
    <3>1. queue[i].mem \in Nat
      BY <2>9
    <3>2. CASE i = n
      BY <2>3, <3>2
    <3>3. CASE i # n
      <4>1. i < n /\ n \in DOMAIN queue /\ i \in DOMAIN queue
        BY <2>3, <3>3
      <4>2. queue[i].mem < queue[n].mem
        BY <2>3, <2>6, <4>1 DEF IdsInv
      <4> QED BY <2>3, <3>1, <4>2
    <3> QED BY <3>2, <3>3
  <2>7. ASSUME NEW i \in 1..m, NEW j \in 1..m, i < j, queue'[i].mem # 0, queue'[j].mem # 0
        PROVE  queue'[i].mem < queue'[j].mem
    <3>1. i \in 1..n \/ (large /\ i = n + 1) \/ i = m
      BY <2>2, <2>3
    <3>2. j \in 1..n \/ (large /\ j = n + 1) \/ j = m
      BY <2>2, <2>3
    <3>3. i \in 1..n
      BY <2>2, <2>3, <2>7, <3>1
    <3>4. CASE j \in 1..n
      BY <2>3, <2>5, <2>7, <3>3, <3>4 DEF IdsInv
    <3>5. CASE j = m
      <4>1. queue[i].mem \in Nat
        BY <2>9, <3>3
      <4> QED BY <2>2, <2>3, <2>5, <2>6, <2>7, <3>3, <3>5, <4>1
    <3> QED BY <2>2, <2>7, <3>2, <3>4, <3>5
  <2>8. queue'[m].mem > 0
    BY <2>2, <2>3
  <2> QED BY <2>4, <2>7, <2>8 DEF IdsInv, Mutable, m
<1>13. ASSUME NEW c \in Clients, Apply(c) PROVE IdsInv'
  <2>2. /\ queue' \in Seq(Table) /\ Len(queue') = Len(queue)
        /\ \A i \in 1..Len(queue) : queue'[i].mem = queue[i].mem
    BY <1>13, ApplyShape
  <2> QED BY <2>2, SameIds
<1>14. ASSUME NEW c \in Clients, Ack(c) PROVE IdsInv'
  BY <1>14 DEF Ack, IdsInv, Mutable, diskVars, logVars, clientVars, flushVars, histVars
<1>15. ASSUME SyncLog PROVE IdsInv'
  BY <1>15 DEF SyncLog, IdsInv, Mutable, diskVars, logVars, clientVars, flushVars, histVars
<1>16. ASSUME Close PROVE IdsInv'
  BY <1>16 DEF Close, IdsInv, Mutable, diskVars, logVars, clientVars, flushVars, histVars
<1>17. ASSUME CloseDone PROVE IdsInv'
  BY <1>17 DEF CloseDone, Forget, IdsInv
<1>18. ASSUME Crash PROVE IdsInv'
  BY <1>18 DEF Crash, Forget, IdsInv
<1>19. ASSUME CrashInMetaEdit PROVE IdsInv'
  BY <1>19 DEF CrashInMetaEdit, Forget, IdsInv
<1>20. ASSUME OpenFails PROVE IdsInv'
  BY <1>20 DEF OpenFails, Forget, IdsInv
<1>21. ASSUME Open PROVE IdsInv'
  BY <1>21 DEF Open, IdsInv, Mutable, diskVars, logVars, clientVars, flushVars, histVars
<1>22. ASSUME ReplayWAL PROVE IdsInv'
  BY <1>22 DEF ReplayWAL, IdsInv, Mutable, diskVars, logVars, clientVars, flushVars, histVars
<1>23. ASSUME Recovered PROVE IdsInv'
  BY <1>23 DEF Recovered, IdsInv, Mutable, diskVars, logVars, clientVars, flushVars, histVars
<1>24. ASSUME OpenDone PROVE IdsInv'
  <2>1. queue' = <<Mem(1, CurLog)>>
    BY <1>24 DEF OpenDone
  <2>2. Len(queue') = 1 /\ DOMAIN queue' = 1..1 /\ queue'[1].mem = 1
    BY <2>1 DEF Mem
  <2> QED BY <2>2 DEF IdsInv, Mutable
<1>25. ASSUME UNCHANGED vars PROVE IdsInv'
  BY <1>25 DEF vars, IdsInv, Mutable, diskVars, logVars, clientVars, flushVars, histVars
<1> QED
  BY <1>1, <1>2, <1>3, <1>4, <1>5, <1>6, <1>7, <1>8, <1>9, <1>10, <1>11, <1>12, <1>13, <1>14, <1>15, <1>16, <1>17, <1>18, <1>19, <1>20, <1>21, <1>22, <1>23, <1>24, <1>25 DEF Next, Client, Flusher, Recovery

\* The batches being applied are the same.
LEMMA SameWriters ==
  ASSUME \A d \in Clients : /\ pc'[d] = "apply" <=> pc[d] = "apply"
                            /\ pc[d] = "apply" => op'[d].mem = op[d].mem
  PROVE  /\ \A m : Writers(m)' = Writers(m)
         /\ {d \in Clients : pc'[d] = "apply"} = {d \in Clients : pc[d] = "apply"}
BY DEF Writers

\* References while the queue and the batches being applied are the same.
LEMMA SameRefs ==
  ASSUME RefsInv, queue' = queue,
         \A d \in Clients : \/ pc'[d] = pc[d] /\ op'[d].mem = op[d].mem
                            \/ pc[d] # "apply" /\ pc'[d] # "apply"
  PROVE  RefsInv'
<1>1. {d \in Clients : pc'[d] = "apply"} = {d \in Clients : pc[d] = "apply"}
  OBVIOUS
<1>2. \A m : {d \in Clients : pc'[d] = "apply" /\ op'[d].mem = m} = Writers(m)
  BY DEF Writers
<1>3. \A i \in DOMAIN queue : Writers(queue[i].mem)' = Writers(queue[i].mem)
  BY <1>2 DEF Writers
<1> QED
  BY <1>1, <1>3 DEF RefsInv

\* writerRefs counts the batches being applied, exactly (prepare, writerUnref,
\* makeRoomForWrite).
LEMMA RefsStep ==
  ASSUME QInv, [Next]_vars
  PROVE  RefsInv'
<1> USE DEF QInv
<1>1. ASSUME FlushStart PROVE RefsInv'
  BY <1>1 DEF FlushStart, RefsInv, Writers, diskVars, logVars, clientVars, flushVars, histVars
<1>2. ASSUME FlushNumber PROVE RefsInv'
  BY <1>2 DEF FlushNumber, RefsInv, Writers, diskVars, logVars, clientVars, flushVars, histVars
<1>3. ASSUME FlushBuild PROVE RefsInv'
  BY <1>3 DEF FlushBuild, RefsInv, Writers, diskVars, logVars, clientVars, flushVars, histVars
<1>4. ASSUME FlushInstall PROVE RefsInv'
  <2>1. UNCHANGED <<pc, op>>
    BY <1>4 DEF FlushInstall, clientVars
  <2>2. CASE queue' = queue
    BY <2>1, <2>2 DEF RefsInv, Writers
  <2>3. CASE queue' # queue
    <3>1. /\ queue' \in Seq(Table) /\ Len(queue') = Len(queue) - fl.n
          /\ \A i \in 1..Len(queue') : queue'[i] = queue[i + fl.n]
      BY <1>4, <2>3, InstallShape
    <3>2. fl.n \in Nat /\ Len(queue) \in Nat /\ DOMAIN queue = 1..Len(queue) /\ DOMAIN queue' = 1..Len(queue')
      BY <3>1 DEF TypeInv, Flushes
    <3>3. ASSUME NEW i \in DOMAIN queue'
          PROVE queue'[i].refs = Cardinality(Writers(queue'[i].mem)) + (IF i = Len(queue') THEN 1 ELSE 0)
      <4>1. i + fl.n \in DOMAIN queue /\ (i + fl.n = Len(queue) <=> i = Len(queue'))
        BY <3>1, <3>2
      <4>2. queue'[i] = queue[i + fl.n]
        BY <3>1, <3>2
      <4> QED BY <4>1, <4>2 DEF RefsInv
    <3> QED BY <2>1, <3>3 DEF RefsInv, Writers
  <2> QED BY <2>2, <2>3
<1>5. ASSUME FlushDelete PROVE RefsInv'
  BY <1>5 DEF FlushDelete, RefsInv, Writers, diskVars, logVars, clientVars, flushVars, histVars
<1>6. ASSUME FlushEnd PROVE RefsInv'
  <2>1. \A d \in Clients : (pc'[d] = pc[d] /\ op'[d] = op[d]) \/ (pc[d] = "flushing" /\ pc'[d] = "idle")
    BY <1>6 DEF FlushEnd
  <2>2. UNCHANGED queue
    BY <1>6 DEF FlushEnd
  <2> QED BY <2>1, <2>2, SameRefs
<1>7. ASSUME DeleteFile PROVE RefsInv'
  BY <1>7 DEF DeleteFile, RefsInv, Writers, diskVars, logVars, clientVars, flushVars, histVars
<1>8. ASSUME NEW c \in Clients, NEW k \in Keys, Set(c, k) PROVE RefsInv'
  <2>1. pc \in [Clients -> ClientPcs] /\ op \in [Clients -> Op]
    BY DEF TypeInv
  <2>2. \A d \in Clients : d # c => pc'[d] = pc[d] /\ op'[d].mem = op[d].mem
    BY <1>8, <2>1 DEF Set, Op
  <2>3. pc[c] # "apply" /\ pc'[c] # "apply" /\ UNCHANGED queue
    BY <1>8, <2>1 DEF Set
  <2> QED BY <2>2, <2>3, SameRefs
<1>9. ASSUME NEW c \in Clients, Flush(c) PROVE RefsInv'
  <2>1. pc \in [Clients -> ClientPcs] /\ op \in [Clients -> Op]
    BY DEF TypeInv
  <2>2. \A d \in Clients : d # c => pc'[d] = pc[d] /\ op'[d].mem = op[d].mem
    BY <1>9, <2>1 DEF Flush, Op
  <2>3. pc[c] # "apply" /\ pc'[c] # "apply" /\ UNCHANGED queue
    BY <1>9, <2>1 DEF Flush
  <2> QED BY <2>2, <2>3, SameRefs
<1>10. ASSUME NEW c \in Clients, Prepare(c) PROVE RefsInv'
  <2> DEFINE n == Len(queue)
             A == {d \in Clients : pc[d] = "apply"}
             W == Writers(queue[n].mem)
             WP(x) == {d \in Clients : pc'[d] = "apply" /\ op'[d].mem = x}
  <2>0. queue # <<>>
    BY <1>10 DEF Prepare, ModeInv, Live
  <2>1. /\ queue' \in Seq(Table) /\ Len(queue') = n
        /\ \A i \in 1..n : /\ queue'[i].mem = queue[i].mem
                           /\ queue'[i].refs = IF i = n THEN queue[i].refs + 1 ELSE queue[i].refs
    BY <1>10, <2>0, PrepareShape
  <2>2. DOMAIN queue = 1..n /\ DOMAIN queue' = 1..n /\ n \in Nat /\ n > 0
    BY <2>0, <2>1, MutableFact
  <2>3. pc[c] = "room" /\ pc'[c] = "apply" /\ op'[c].mem = queue[n].mem
    BY <1>10 DEF Prepare, TypeInv, Op, Mutable
  <2>4. \A d \in Clients : d # c => pc'[d] = pc[d] /\ op'[d] = op[d]
    BY <1>10 DEF Prepare, TypeInv
  <2>5. {d \in Clients : pc'[d] = "apply"} = A \cup {c}
    BY <2>3, <2>4
  <2>6. IsFiniteSet(A \cup {c}) /\ IsFiniteSet(A)
    <3>1. IsFiniteSet(A)
      BY DEF RefsInv
    <3> HIDE DEF A
    <3> QED BY <3>1, FS_AddElement
  <2>7. WP(queue[n].mem) = W \cup {c} /\ c \notin W
    BY <2>1, <2>2, <2>3, <2>4 DEF Writers
  <2>8. \A i \in 1..n : i # n => WP(queue[i].mem) = Writers(queue[i].mem)
    <3> SUFFICES ASSUME NEW i \in 1..n, i # n PROVE WP(queue[i].mem) = Writers(queue[i].mem)
      OBVIOUS
    <3>0. DOMAIN queue = 1..n /\ n \in Nat
      BY <2>2
    <3>1. queue[i].mem # queue[n].mem
      <4>1. i < n /\ i \in DOMAIN queue /\ n \in DOMAIN queue /\ queue[n].mem > 0 /\ queue[i].mem \in Nat
        <5>1. i < n /\ i \in DOMAIN queue /\ n \in DOMAIN queue
          <6> HIDE DEF n
          <6> QED BY <3>0
        <5>2. queue[n].mem > 0
          BY <2>0, MutableFact DEF IdsInv
        <5>3. queue[i].mem \in Nat
          BY <5>1, EntryFact
        <5> QED BY <5>1, <5>2, <5>3
      <4> QED BY <4>1, <2>0, MutableFact DEF IdsInv
    <3> QED BY <2>1, <2>2, <2>3, <2>4, <3>1 DEF Writers
  <2>9. IsFiniteSet(W)
    <3>1. W \subseteq A
      BY DEF Writers
    <3> QED BY <2>6, <3>1, FS_Subset
  <2> HIDE DEF W, WP
  <2>10. Cardinality(W \cup {c}) = Cardinality(W) + 1 /\ Cardinality(W) \in Nat
    BY <2>7, <2>9, FS_AddElement, FS_CardinalityType
  <2>11. ASSUME NEW i \in 1..n
         PROVE  queue'[i].refs = Cardinality(WP(queue[i].mem)) + (IF i = n THEN 1 ELSE 0)
    <3>1. queue[i].refs = Cardinality(Writers(queue[i].mem)) + (IF i = n THEN 1 ELSE 0)
      BY <2>2 DEF RefsInv
    <3>2. CASE i = n
      BY <2>1, <2>2, <2>7, <2>10, <3>1, <3>2 DEF W
    <3>3. CASE i # n
      BY <2>1, <2>8, <3>1, <3>3
    <3> QED BY <3>2, <3>3
  <2>12. \A i \in 1..n : Writers(queue[i].mem)' = WP(queue[i].mem)
    BY <2>1 DEF Writers, WP
  <2>13. \A i \in DOMAIN queue' :
           queue'[i].refs = Cardinality(Writers(queue[i].mem)') + (IF i = Len(queue') THEN 1 ELSE 0)
    BY <2>1, <2>2, <2>11, <2>12
  <2>14. IsFiniteSet({d \in Clients : pc'[d] = "apply"})
    BY <2>5, <2>6
  <2> QED BY <2>13, <2>14 DEF RefsInv
<1>11. ASSUME NEW c \in Clients, SwitchLog(c) PROVE RefsInv'
  <2>1. pc \in [Clients -> ClientPcs] /\ op \in [Clients -> Op]
    BY DEF TypeInv
  <2>2. \A d \in Clients : d # c => pc'[d] = pc[d] /\ op'[d].mem = op[d].mem
    BY <1>11, <2>1 DEF SwitchLog, Op
  <2>3. pc[c] # "apply" /\ pc'[c] # "apply" /\ UNCHANGED queue
    BY <1>11, <2>1 DEF SwitchLog
  <2> QED BY <2>2, <2>3, SameRefs
<1>12. ASSUME NEW c \in Clients, SwitchMem(c) PROVE RefsInv'
  <2> DEFINE n == Len(queue)
             m == Len(queue')
             large == op[c].kind = "large"
  <2>0. queue # <<>>
    BY <1>12 DEF SwitchMem, ModeInv, Live
  <2>1. /\ queue' \in Seq(Table) /\ m = IF large THEN n + 2 ELSE n + 1
        /\ \A i \in 1..(n - 1) : queue'[i] = queue[i]
        /\ queue'[n].mem = queue[n].mem /\ queue'[n].refs = queue[n].refs - 1
        /\ large => queue'[n + 1].mem = 0 /\ queue'[n + 1].refs = 0
        /\ queue'[m].mem = queue[n].mem + 1 /\ queue'[m].refs = 1
    BY <1>12, <2>0, SwitchShape
  <2>2. n \in Nat /\ n > 0 /\ queue[n].mem \in Nat /\ queue[n].mem > 0 /\ DOMAIN queue = 1..n
    BY <2>0, MutableFact DEF IdsInv
  <2>3. DOMAIN queue' = 1..m /\ m \in Nat
    BY <2>1
  <2>4. \A d \in Clients : /\ pc'[d] = "apply" <=> pc[d] = "apply"
                           /\ op'[d] = op[d]
    <3>1. op[c].kind \in {"small", "large", "flush"}
      BY <1>12 DEF SwitchMem, OpInv, TypeInv, Op, Kinds
    <3> QED BY <1>12, <3>1 DEF SwitchMem, TypeInv
  <2>5. \A x : Writers(x)' = Writers(x)
    BY <2>4, SameWriters
  <2>6. {d \in Clients : pc'[d] = "apply"} = {d \in Clients : pc[d] = "apply"}
    BY <2>4, SameWriters
  <2>7. Writers(0) = {}
    BY DEF Writers, OpInv
  <2>8. Writers(queue[n].mem + 1) = {}
    <3> SUFFICES ASSUME NEW d \in Clients, pc[d] = "apply", op[d].mem = queue[n].mem + 1
                 PROVE  FALSE
      BY DEF Writers
    <3>1. PICK i \in DOMAIN queue : queue[i].mem = op[d].mem
      BY DEF OpInv, InQueue
    <3>2. i # n /\ i < n /\ n \in DOMAIN queue
      BY <2>2, <3>1
    <3>3. queue[i].mem < queue[n].mem
      BY <2>2, <3>1, <3>2 DEF IdsInv
    <3> QED BY <2>2, <3>1, <3>3
  <2>9. Cardinality({}) = 0
    BY FS_EmptySet
  <2>10. \A i \in 1..n : queue[i].refs = Cardinality(Writers(queue[i].mem)) + (IF i = n THEN 1 ELSE 0)
    BY <2>2 DEF RefsInv
  <2>11. Cardinality(Writers(queue[n].mem)) \in Nat
    <3>1. IsFiniteSet(Writers(queue[n].mem))
      BY FS_Subset DEF RefsInv, Writers
    <3> QED BY <3>1, FS_CardinalityType
  <2>12. ASSUME NEW i \in 1..m
        PROVE  queue'[i].refs = Cardinality(Writers(queue'[i].mem)) + (IF i = m THEN 1 ELSE 0)
    <3> HIDE DEF n, m, large
    <3>1. i \in 1..(n - 1) \/ i = n \/ (large /\ i = n + 1) \/ i = m
      BY <2>1, <2>2
    <3>2. CASE i \in 1..(n - 1)
      <4>1. i # m /\ i # n /\ i \in 1..n
        BY <2>1, <2>2, <3>2
      <4>2. queue'[i] = queue[i]
        BY <2>1, <3>2
      <4> QED BY <2>10, <4>1, <4>2
    <3>3. CASE i = n
      <4>1. n # m /\ n \in 1..n
        BY <2>1, <2>2
      <4>2. queue[n].refs = Cardinality(Writers(queue[n].mem)) + 1
        BY <2>10, <4>1
      <4> QED BY <2>1, <2>11, <3>3, <4>1, <4>2
    <3>4. CASE large /\ i = n + 1
      <4>1. n + 1 # m
        BY <2>1, <2>2, <3>4
      <4>2. queue'[i].mem = 0 /\ queue'[i].refs = 0
        BY <2>1, <3>4
      <4> QED BY <2>7, <2>9, <3>4, <4>1, <4>2
    <3>5. CASE i = m
      <4>1. queue'[i].mem = queue[n].mem + 1 /\ queue'[i].refs = 1
        BY <2>1, <3>5
      <4> QED BY <2>8, <2>9, <3>5, <4>1
    <3> QED BY <3>1, <3>2, <3>3, <3>4, <3>5
  <2>13. \A i \in DOMAIN queue' :
           queue'[i].refs = Cardinality(Writers(queue[i].mem)') + (IF i = Len(queue') THEN 1 ELSE 0)
    <3>1. \A x : {d \in Clients : pc'[d] = "apply" /\ op'[d].mem = x} = Writers(x)
      BY <2>4 DEF Writers
    <3>2. \A i : Writers(queue[i].mem)' = Writers(queue'[i].mem)
      BY <3>1 DEF Writers
    <3> QED BY <2>3, <2>12, <3>2
  <2> QED BY <2>6, <2>13 DEF RefsInv
<1>13. ASSUME NEW c \in Clients, Apply(c) PROVE RefsInv'
  <2> DEFINE n == Len(queue)
             A == {d \in Clients : pc[d] = "apply"}
             W == Writers(op[c].mem)
  <2>1. /\ queue' \in Seq(Table) /\ Len(queue') = n
        /\ \A i \in 1..n : /\ queue'[i].mem = queue[i].mem
                           /\ queue[i].mem # op[c].mem => queue'[i] = queue[i]
                           /\ queue[i].mem = op[c].mem => queue'[i].refs = queue[i].refs - 1
    BY <1>13, ApplyShape
  <2>2. DOMAIN queue = 1..n /\ DOMAIN queue' = 1..n /\ n \in Nat
    BY <2>1 DEF TypeInv
  <2>3. pc[c] = "apply" /\ pc'[c] = "ack" /\ op' = op
    BY <1>13 DEF Apply, TypeInv
  <2>4. \A d \in Clients : d # c => pc'[d] = pc[d]
    BY <1>13 DEF Apply, TypeInv
  <2>5. {d \in Clients : pc'[d] = "apply"} = A \ {c}
    BY <2>3, <2>4
  <2>6. IsFiniteSet(A) /\ IsFiniteSet(A \ {c})
    <3>1. IsFiniteSet(A)
      BY DEF RefsInv
    <3> HIDE DEF A
    <3> QED BY <3>1, FS_RemoveElement, FS_Subset
  <2>7. \A i \in 1..n : queue[i].mem = op[c].mem => Writers(queue[i].mem)' = W \ {c}
    BY <2>1, <2>3, <2>4 DEF Writers
  <2>8. \A i \in 1..n : queue[i].mem # op[c].mem => Writers(queue[i].mem)' = Writers(queue[i].mem)
    BY <2>1, <2>3, <2>4 DEF Writers
  <2>9. IsFiniteSet(W) /\ c \in W
    BY <2>3, <2>6, FS_Subset DEF Writers
  <2> HIDE DEF W
  <2>10. Cardinality(W \ {c}) = Cardinality(W) - 1 /\ Cardinality(W) \in Nat
    BY <2>9, FS_RemoveElement, FS_CardinalityType
  <2>11. ASSUME NEW i \in 1..n
         PROVE  queue'[i].refs = Cardinality(Writers(queue[i].mem)') + (IF i = n THEN 1 ELSE 0)
    <3>1. queue[i].refs = Cardinality(Writers(queue[i].mem)) + (IF i = n THEN 1 ELSE 0)
      BY <2>2 DEF RefsInv
    <3>2. CASE queue[i].mem = op[c].mem
      <4>1. queue[i].refs = Cardinality(W) + (IF i = n THEN 1 ELSE 0)
        BY <3>1, <3>2 DEF W
      <4>2. queue'[i].refs = queue[i].refs - 1 /\ Writers(queue[i].mem)' = W \ {c}
        BY <2>1, <2>7, <3>2
      <4>3. (IF i = n THEN 1 ELSE 0) \in Nat
        OBVIOUS
      <4> QED BY <2>10, <4>1, <4>2, <4>3
    <3>3. CASE queue[i].mem # op[c].mem
      BY <2>1, <2>8, <3>1, <3>3
    <3> QED BY <3>2, <3>3
  <2> QED BY <2>1, <2>2, <2>5, <2>6, <2>11 DEF RefsInv, Writers
<1>14. ASSUME NEW c \in Clients, Ack(c) PROVE RefsInv'
  <2>1. pc \in [Clients -> ClientPcs] /\ op \in [Clients -> Op]
    BY DEF TypeInv
  <2>2. \A d \in Clients : d # c => pc'[d] = pc[d] /\ op'[d].mem = op[d].mem
    BY <1>14, <2>1 DEF Ack, Op
  <2>3. pc[c] # "apply" /\ pc'[c] # "apply" /\ UNCHANGED queue
    BY <1>14, <2>1 DEF Ack
  <2> QED BY <2>2, <2>3, SameRefs
<1>15. ASSUME SyncLog PROVE RefsInv'
  BY <1>15 DEF SyncLog, RefsInv, Writers, diskVars, logVars, clientVars, flushVars, histVars
<1>16. ASSUME Close PROVE RefsInv'
  BY <1>16 DEF Close, RefsInv, Writers, diskVars, logVars, clientVars, flushVars, histVars
<1>17. ASSUME CloseDone PROVE RefsInv'
  <2>1. {c \in Clients : pc'[c] = "apply"} = {} /\ queue' = <<>>
    BY <1>17 DEF CloseDone, Forget
  <2>2. IsFiniteSet({c \in Clients : pc'[c] = "apply"}) /\ DOMAIN queue' = {}
    BY <2>1, FS_EmptySet
  <2> QED BY <2>2 DEF RefsInv
<1>18. ASSUME Crash PROVE RefsInv'
  <2>1. {c \in Clients : pc'[c] = "apply"} = {} /\ queue' = <<>>
    BY <1>18 DEF Crash, Forget
  <2>2. IsFiniteSet({c \in Clients : pc'[c] = "apply"}) /\ DOMAIN queue' = {}
    BY <2>1, FS_EmptySet
  <2> QED BY <2>2 DEF RefsInv
<1>19. ASSUME CrashInMetaEdit PROVE RefsInv'
  <2>1. {c \in Clients : pc'[c] = "apply"} = {} /\ queue' = <<>>
    BY <1>19 DEF CrashInMetaEdit, Forget
  <2>2. IsFiniteSet({c \in Clients : pc'[c] = "apply"}) /\ DOMAIN queue' = {}
    BY <2>1, FS_EmptySet
  <2> QED BY <2>2 DEF RefsInv
<1>20. ASSUME OpenFails PROVE RefsInv'
  <2>1. {c \in Clients : pc'[c] = "apply"} = {} /\ queue' = <<>>
    BY <1>20 DEF OpenFails, Forget
  <2>2. IsFiniteSet({c \in Clients : pc'[c] = "apply"}) /\ DOMAIN queue' = {}
    BY <2>1, FS_EmptySet
  <2> QED BY <2>2 DEF RefsInv
<1>21. ASSUME Open PROVE RefsInv'
  BY <1>21 DEF Open, RefsInv, Writers, diskVars, logVars, clientVars, flushVars, histVars
<1>22. ASSUME ReplayWAL PROVE RefsInv'
  BY <1>22 DEF ReplayWAL, RefsInv, Writers, diskVars, logVars, clientVars, flushVars, histVars
<1>23. ASSUME Recovered PROVE RefsInv'
  BY <1>23 DEF Recovered, RefsInv, Writers, diskVars, logVars, clientVars, flushVars, histVars
<1>24. ASSUME OpenDone PROVE RefsInv'
  <2>1. queue' = <<Mem(1, CurLog)>>
    BY <1>24 DEF OpenDone
  <2>2. Len(queue') = 1 /\ DOMAIN queue' = 1..1 /\ queue'[1].mem = 1 /\ queue'[1].refs = 1
    BY <2>1 DEF Mem
  <2>3. {c \in Clients : pc'[c] = "apply"} = {} /\ \A m : {c \in Clients : pc'[c] = "apply" /\ op'[c].mem = m} = {}
    BY <1>24 DEF OpenDone, ModeInv, clientVars
  <2>4. IsFiniteSet({c \in Clients : pc'[c] = "apply"}) /\ Cardinality({}) = 0
    BY <2>3, FS_EmptySet
  <2>5. \A i \in DOMAIN queue' : i = 1 /\ Writers(queue[i].mem)' = {}
    BY <2>2, <2>3 DEF Writers
  <2>6. \A i \in DOMAIN queue' :
           queue'[i].refs = Cardinality(Writers(queue[i].mem)') + (IF i = Len(queue') THEN 1 ELSE 0)
    <3> TAKE i \in DOMAIN queue'
    <3>1. i = 1 /\ Cardinality(Writers(queue[i].mem)') = 0
      BY <2>4, <2>5
    <3> QED BY <2>2, <3>1
  <2> QED BY <2>4, <2>6 DEF RefsInv
<1>25. ASSUME UNCHANGED vars PROVE RefsInv'
  BY <1>25 DEF vars, RefsInv, Writers, diskVars, logVars, clientVars, flushVars, histVars
<1> QED
  BY <1>1, <1>2, <1>3, <1>4, <1>5, <1>6, <1>7, <1>8, <1>9, <1>10, <1>11, <1>12, <1>13, <1>14, <1>15, <1>16, <1>17, <1>18, <1>19, <1>20, <1>21, <1>22, <1>23, <1>24, <1>25 DEF Next, Client, Flusher, Recovery

\* A memtable has no fewer references than none.
LEMMA RefsNat ==
  ASSUME TypeInv, RefsInv, NEW i \in DOMAIN queue
  PROVE  queue[i].refs \in Nat
<1>1. IsFiniteSet(Writers(queue[i].mem))
  BY FS_Subset DEF RefsInv, Writers
<1>2. Cardinality(Writers(queue[i].mem)) \in Nat
  BY <1>1, FS_CardinalityType
<1>3. queue[i].refs = Cardinality(Writers(queue[i].mem)) + (IF i = Len(queue) THEN 1 ELSE 0)
  BY DEF RefsInv
<1> QED
  BY <1>2, <1>3

\* A flush comes for what can be flushed, and what it has taken nobody writes to
\* (maybeScheduleFlush, flush1).
LEMMA FlushStep ==
  ASSUME QInv, [Next]_vars
  PROVE  FlushInv'
<1> USE DEF QInv
<1>1. ASSUME FlushStart PROVE FlushInv'
  <2> DEFINE n == Ready(queue)
  <2>1. queue \in Seq(Table) /\ Len(queue) \in Nat /\ Len(queue) > 0 /\ DOMAIN queue = 1..Len(queue)
    BY <1>1 DEF FlushStart, ModeInv, TypeInv
  <2>2. /\ n \in Nat /\ n < Len(queue)
        /\ \A i \in 1..n : ~(queue[i].refs > 0)
        /\ Len(queue) > 1 /\ ~(queue[1].refs > 0) => n > 0
    BY <2>1, ReadyFact
  <2>3. UNCHANGED <<status, queue>>
    BY <1>1 DEF FlushStart
  <2> HIDE DEF n
  <2>4. CASE flushPc' = "number" /\ fl' = [NoFlush EXCEPT !.n = n, !.min = MinUnflushed(n)] /\ n > 0
    <3>1. fl'.n = n
      BY <2>4 DEF NoFlush
    <3>2. \A i \in 1..n : queue[i].refs = 0
      <4> TAKE i \in 1..n
      <4>1. i \in DOMAIN queue
        BY <2>1, <2>2
      <4>2. queue[i].refs \in Nat
        BY <4>1, RefsNat
      <4> QED BY <2>2, <4>2
    <3> QED BY <2>2, <2>3, <2>4, <3>1, <3>2 DEF FlushInv
  <2>5. CASE flushPc' = ScheduleFlush("none", queue)
    BY <2>2, <2>3, <2>5, ScheduleFact DEF FlushInv, FlushPcs, n
  <2> QED BY <1>1, <2>4, <2>5 DEF FlushStart, n
<1>2. ASSUME FlushNumber PROVE FlushInv'
  <2>1. fl'.n = fl.n
    BY <1>2 DEF FlushNumber, TypeInv, Flushes
  <2>2. UNCHANGED <<status, queue>> /\ flushPc' # "none" /\ flushPc = "number"
    BY <1>2 DEF FlushNumber
  <2> QED BY <2>1, <2>2 DEF FlushInv
<1>3. ASSUME FlushBuild PROVE FlushInv'
  <2>1. UNCHANGED <<status, queue, fl>> /\ flushPc' # "none" /\ flushPc = "build"
    BY <1>3 DEF FlushBuild
  <2> QED BY <2>1 DEF FlushInv
<1>4. ASSUME FlushInstall PROVE FlushInv'
  BY <1>4 DEF FlushInstall, FlushInv
<1>5. ASSUME FlushDelete PROVE FlushInv'
  BY <1>5 DEF FlushDelete, FlushInv
<1>6. ASSUME FlushEnd PROVE FlushInv'
  <2>1. queue \in Seq(Table) /\ Len(queue) > 0
    BY <1>6 DEF FlushEnd, ModeInv, TypeInv
  <2>2. Len(queue) > 1 /\ ~(queue[1].refs > 0) => Ready(queue) > 0
    BY <2>1, ReadyFact
  <2>3. UNCHANGED <<status, queue>> /\ flushPc' = ScheduleFlush("none", queue)
    BY <1>6 DEF FlushEnd
  <2> QED BY <2>2, <2>3, ScheduleFact DEF FlushInv, FlushPcs
<1>7. ASSUME DeleteFile PROVE FlushInv'
  BY <1>7 DEF DeleteFile, FlushInv, diskVars, logVars, clientVars, flushVars, histVars
<1>8. ASSUME NEW c \in Clients, NEW k \in Keys, Set(c, k) PROVE FlushInv'
  BY <1>8 DEF Set, FlushInv, diskVars, logVars, clientVars, flushVars, histVars
<1>9. ASSUME NEW c \in Clients, Flush(c) PROVE FlushInv'
  BY <1>9 DEF Flush, FlushInv, diskVars, logVars, clientVars, flushVars, histVars
<1>10. ASSUME NEW c \in Clients, Prepare(c) PROVE FlushInv'
  <2>0. queue # <<>>
    BY <1>10 DEF Prepare, ModeInv, Live
  <2>1. /\ Len(queue') = Len(queue)
        /\ \A i \in 1..Len(queue) : i # Len(queue) => queue'[i] = queue[i]
    BY <1>10, <2>0, PrepareShape
  <2>2. UNCHANGED <<status, flushPc, fl>>
    BY <1>10 DEF Prepare, flushVars
  <2>3. Len(queue) \in Nat /\ fl.n \in Nat
    BY DEF TypeInv, Flushes
  <2>4. Len(queue) > 1 => queue'[1] = queue[1]
    BY <2>1, <2>3
  <2>5. fl.n < Len(queue) => \A i \in 1..fl.n : queue'[i] = queue[i]
    BY <2>1, <2>3
  <2> QED BY <2>1, <2>2, <2>4, <2>5 DEF FlushInv
<1>11. ASSUME NEW c \in Clients, SwitchLog(c) PROVE FlushInv'
  BY <1>11 DEF SwitchLog, FlushInv, diskVars, logVars, clientVars, flushVars, histVars
<1>12. ASSUME NEW c \in Clients, SwitchMem(c) PROVE FlushInv'
  <2> DEFINE n == Len(queue)
             m == Len(queue')
  <2>0. queue # <<>>
    BY <1>12 DEF SwitchMem, ModeInv, Live
  <2>1. /\ queue' \in Seq(Table) /\ m \in {n + 1, n + 2}
        /\ \A i \in 1..(n - 1) : queue'[i] = queue[i]
        /\ flushPc' = IF queue'[n].refs = 0 THEN ScheduleFlush(flushPc, queue') ELSE flushPc
    BY <1>12, <2>0, SwitchShape
  <2>2. n \in Nat /\ n > 0 /\ fl.n \in Nat
    BY <2>0, MutableFact DEF TypeInv, Flushes
  <2>3. UNCHANGED <<status, fl>> /\ status = "open"
    BY <1>12 DEF SwitchMem, ModeInv
  <2>4. /\ flushPc # "none" => flushPc' = flushPc
        /\ flushPc' \in {flushPc, "start"}
    BY <2>1, ScheduleFact DEF TypeInv
  <2> HIDE DEF n, m
  <2>5. CASE n > 1
    <3>1. queue'[1] = queue[1]
      BY <2>1, <2>2, <2>5
    <3>2. queue[1].refs = 0 => flushPc' # "none"
      BY <2>3, <2>4, <2>5 DEF FlushInv, n
    <3>3. fl.n < n => \A i \in 1..fl.n : queue'[i] = queue[i]
      BY <2>1, <2>2
    <3>4. fl.n < n => fl.n < m
      BY <2>1, <2>2
    <3>5. flushPc' \in {"number", "build", "install"} => fl.n > 0 /\ fl.n < n /\ \A i \in 1..fl.n : queue[i].refs = 0
      BY <2>4 DEF FlushInv, n
    <3> QED BY <2>3, <3>1, <3>2, <3>3, <3>4, <3>5 DEF FlushInv, m
  <2>6. CASE n = 1
    <3>1. flushPc' \notin {"number", "build", "install"}
      BY <2>2, <2>4, <2>6 DEF FlushInv, n
    <3>2. queue'[1].refs = 0 => flushPc' # "none"
      <4> SUFFICES ASSUME queue'[1].refs = 0 PROVE flushPc' # "none"
        OBVIOUS
      <4>1. m > 0 /\ m > 1
        BY <2>1, <2>6
      <4>2. Ready(queue') > 0
        BY <2>1, <4>1, ReadyFact DEF m
      <4>3. flushPc' = ScheduleFlush(flushPc, queue')
        BY <2>1, <2>6
      <4> QED BY <2>3, <4>2, <4>3, ScheduleFact DEF TypeInv
    <3> QED BY <3>1, <3>2 DEF FlushInv
  <2> QED BY <2>2, <2>5, <2>6
<1>13. ASSUME NEW c \in Clients, Apply(c) PROVE FlushInv'
  <2>1. /\ queue' \in Seq(Table) /\ Len(queue') = Len(queue)
        /\ \A i \in 1..Len(queue) : /\ queue[i].mem # op[c].mem => queue'[i] = queue[i]
                                    /\ queue[i].mem = op[c].mem => queue'[i].refs = queue[i].refs - 1
    BY <1>13, ApplyShape
  <2>2. pc[c] = "apply" /\ UNCHANGED <<status, fl>> /\ status = "open"
    BY <1>13 DEF Apply, ModeInv
  <2>3. DOMAIN queue = 1..Len(queue) /\ Len(queue) \in Nat /\ fl.n \in Nat
    BY DEF TypeInv, Flushes
  <2>4. \A i \in 1..Len(queue) : queue[i].refs = 0 => queue'[i] = queue[i]
    <3> TAKE i \in 1..Len(queue)
    <3>1. queue[i].mem = op[c].mem => queue[i].refs > 0
      BY <2>2, <2>3, WritersCount
    <3> QED BY <2>1, <3>1
  <2>5. /\ flushPc # "none" => flushPc' = flushPc
        /\ flushPc' \in {flushPc, "start"}
    <3>1. \E q : flushPc' \in {ScheduleFlush(flushPc, q), flushPc}
      BY <1>13 DEF Apply
    <3> QED BY <3>1, ScheduleFact DEF TypeInv
  <2>6. \A i \in 1..Len(queue) : queue[i].mem = op[c].mem /\ queue'[i].refs = 0
                                  => flushPc' = ScheduleFlush(flushPc, queue')
    BY <1>13, <2>3 DEF Apply
  <2>7. Len(queue) > 1 /\ queue'[1].refs = 0 => flushPc' # "none"
    <3> SUFFICES ASSUME Len(queue) > 1, queue'[1].refs = 0 PROVE flushPc' # "none"
      OBVIOUS
    <3>1. 1 \in 1..Len(queue)
      BY <2>3
    <3>2. CASE queue[1].mem = op[c].mem
      <4>1. flushPc' = ScheduleFlush(flushPc, queue')
        BY <2>6, <3>1, <3>2
      <4>2. Ready(queue') > 0
        BY <2>1, <2>3, ReadyFact
      <4> QED BY <2>2, <4>1, <4>2, ScheduleFact DEF TypeInv
    <3>3. CASE queue[1].mem # op[c].mem
      BY <2>1, <2>2, <2>5, <3>1, <3>3 DEF FlushInv
    <3> QED BY <3>2, <3>3
  <2>8. flushPc' \in {"number", "build", "install"} =>
          fl.n > 0 /\ fl.n < Len(queue) /\ \A i \in 1..fl.n : queue'[i].refs = 0
    <3> SUFFICES ASSUME flushPc' \in {"number", "build", "install"}
                 PROVE  fl.n > 0 /\ fl.n < Len(queue) /\ \A i \in 1..fl.n : queue'[i].refs = 0
      OBVIOUS
    <3>1. fl.n > 0 /\ fl.n < Len(queue) /\ \A i \in 1..fl.n : queue[i].refs = 0
      BY <2>5 DEF FlushInv
    <3> QED BY <2>3, <2>4, <3>1
  <2> QED BY <2>1, <2>2, <2>7, <2>8 DEF FlushInv
<1>14. ASSUME NEW c \in Clients, Ack(c) PROVE FlushInv'
  BY <1>14 DEF Ack, FlushInv, diskVars, logVars, clientVars, flushVars, histVars
<1>15. ASSUME SyncLog PROVE FlushInv'
  BY <1>15 DEF SyncLog, FlushInv, diskVars, logVars, clientVars, flushVars, histVars
<1>16. ASSUME Close PROVE FlushInv'
  BY <1>16 DEF Close, FlushInv, flushVars
<1>17. ASSUME CloseDone PROVE FlushInv'
  BY <1>17 DEF CloseDone, Forget, FlushInv
<1>18. ASSUME Crash PROVE FlushInv'
  BY <1>18 DEF Crash, Forget, FlushInv
<1>19. ASSUME CrashInMetaEdit PROVE FlushInv'
  BY <1>19 DEF CrashInMetaEdit, Forget, FlushInv
<1>20. ASSUME OpenFails PROVE FlushInv'
  BY <1>20 DEF OpenFails, Forget, FlushInv
<1>21. ASSUME Open PROVE FlushInv'
  BY <1>21 DEF Open, FlushInv, flushVars
<1>22. ASSUME ReplayWAL PROVE FlushInv'
  BY <1>22 DEF ReplayWAL, FlushInv, diskVars, logVars, clientVars, flushVars, histVars
<1>23. ASSUME Recovered PROVE FlushInv'
  BY <1>23 DEF Recovered, FlushInv, flushVars
<1>24. ASSUME OpenDone PROVE FlushInv'
  <2>1. Len(queue') = 1 /\ flushPc' = "none"
    BY <1>24 DEF OpenDone, flushVars, ModeInv, Live
  <2> QED BY <2>1 DEF FlushInv
<1>25. ASSUME UNCHANGED vars PROVE FlushInv'
  BY <1>25 DEF vars, FlushInv, diskVars, logVars, clientVars, flushVars, histVars
<1> QED
  BY <1>1, <1>2, <1>3, <1>4, <1>5, <1>6, <1>7, <1>8, <1>9, <1>10, <1>11, <1>12, <1>13, <1>14, <1>15, <1>16, <1>17, <1>18, <1>19, <1>20, <1>21, <1>22, <1>23, <1>24, <1>25 DEF Next, Client, Flusher, Recovery
\* The database starts closed, with an empty directory (metadata.create).
LEMMA QInit == Init => QInv
<1> SUFFICES ASSUME Init PROVE QInv
  OBVIOUS
<1>1. TypeInv
  <2>1. op \in [Clients -> Op]
    BY NoOpFact DEF Init
  <2>2. fl \in Flushes
    BY DEF Init, NoFlush, Flushes, FileSets
  <2> QED BY <2>1, <2>2 DEF Init, TypeInv, Statuses, ClientPcs, FlushPcs
<1>2. DiskInv
  <2>1. DOMAIN logs = {} /\ DOMAIN ats = {}
    BY DEF Init
  <2>2. Bounded({})
    BY DEF Bounded
  <2>3. meta \in Metas
    BY DEF Init, Metas
  <2> QED BY <2>1, <2>2, <2>3 DEF Init, DiskInv
<1>3. ModeInv /\ OpInv /\ IdsInv /\ FlushInv
  BY DEF Init, ModeInv, Live, OpInv, IdsInv, FlushInv
<1>4. RefsInv
  <2>1. {c \in Clients : pc[c] = "apply"} = {} /\ DOMAIN queue = {}
    BY DEF Init
  <2>2. IsFiniteSet({c \in Clients : pc[c] = "apply"})
    BY <2>1, FS_EmptySet
  <2> QED BY <2>1, <2>2 DEF RefsInv
<1> QED
  BY <1>1, <1>2, <1>3, <1>4 DEF QInv

\* No step of a client, of the flush, of recovery or of a kill breaks it.
LEMMA QStep == QInv /\ [Next]_vars => QInv'
BY TypeStep, DiskStep, ModeStep, OpStep, IdsStep, RefsStep, FlushStep DEF QInv

\* The memtable queue is sound in every reachable state: writerRefs is exact, flush1
\* takes only tables nobody writes to any more, whoever makes room holds the commit
\* mutex (commitApply, makeRoomForWrite, flush1, newPlainDB).
THEOREM QueueSound == Spec => []QInv
<1>1. Init => QInv
  BY QInit
<1>2. QInv /\ [Next]_vars => QInv'
  BY QStep
<1> QED
  BY <1>1, <1>2, PTL DEF Spec

\* A memtable that has become flushable always has a flush that runs or is scheduled,
\* whoever gave it up last (makeRoomForWrite, commitApply, flush): no wakeup is lost,
\* for any number of clients, memtables and kills.
THEOREM FlushAlwaysComes == Spec => []FlushScheduled
<1>1. QInv => FlushScheduled
  <2> SUFFICES ASSUME QInv, status = "open", Ready(queue) > 0 PROVE flushPc # "none"
    BY DEF FlushScheduled
  <2>1. queue \in Seq(Table) /\ queue # <<>> /\ Len(queue) \in Nat /\ Len(queue) > 0
        /\ DOMAIN queue = 1..Len(queue)
    BY DEF QInv, TypeInv, ModeInv, Live
  <2>2. /\ Ready(queue) \in Nat /\ Ready(queue) < Len(queue)
        /\ \A i \in 1..Ready(queue) : ~(queue[i].refs > 0)
    BY <2>1, ReadyFact
  <2>3. Len(queue) > 1 /\ ~(queue[1].refs > 0) /\ 1 \in DOMAIN queue
    BY <2>1, <2>2
  <2>4. queue[1].refs \in Nat
    BY <2>3, RefsNat DEF QInv
  <2>5. queue[1].refs = 0
    BY <2>3, <2>4
  <2> QED BY <2>3, <2>5 DEF QInv, FlushInv
<1>2. Spec => []QInv
  BY QueueSound
<1> QED
  BY <1>1, <1>2, PTL
-----------------------------------------------------------------------------
(***************************************************************************)
(* Merge, Get and Top.                                                     *)
(***************************************************************************)

\* The array table a flush or replayWAL builds has for each key the newest write of
\* the tables it is built from, or if they have none what the old one has.
LEMMA MergeFact ==
  ASSUME NEW s, \A i \in DOMAIN s : s[i].data \in Data, NEW a \in Data,
         NEW b \in Nat, \A i \in DOMAIN s, k \in Keys : s[i].data[k] <= b
  PROVE  /\ Merge(s, a) \in Data
         /\ \A k \in Keys :
              \/ Merge(s, a)[k] = a[k] /\ \A i \in DOMAIN s : s[i].data[k] = 0
              \/ /\ Merge(s, a)[k] # 0
                 /\ \E i \in DOMAIN s : s[i].data[k] = Merge(s, a)[k]
                 /\ \A i \in DOMAIN s : s[i].data[k] <= Merge(s, a)[k]
<1> DEFINE found(k) == {s[i].data[k] : i \in DOMAIN s} \ {0}
           m(k) == IF found(k) = {} THEN a[k] ELSE Max(found(k))
<1>1. Merge(s, a) = [k \in Keys |-> m(k)]
  BY DEF Merge
<1>2. ASSUME NEW k \in Keys
      PROVE  /\ m(k) \in Nat
             /\ \/ m(k) = a[k] /\ \A i \in DOMAIN s : s[i].data[k] = 0
                \/ /\ m(k) # 0
                   /\ \E i \in DOMAIN s : s[i].data[k] = m(k)
                   /\ \A i \in DOMAIN s : s[i].data[k] <= m(k)
  <2>1. a[k] \in Nat /\ \A i \in DOMAIN s : s[i].data[k] \in Nat
    BY DEF Data
  <2>2. CASE found(k) = {}
    <3>1. \A i \in DOMAIN s : s[i].data[k] = 0
      BY <2>2
    <3> QED BY <2>1, <2>2, <3>1
  <2>3. CASE found(k) # {}
    <3>1. found(k) \subseteq Nat /\ \A y \in found(k) : y <= b
      BY <2>1
    <3>2. Max(found(k)) \in found(k) /\ \A y \in found(k) : Max(found(k)) >= y
      <4> HIDE DEF found
      <4> QED BY <2>3, <3>1, MaxFact
    <3> DEFINE x == Max(found(k))
    <3>3. m(k) = x
      BY <2>3
    <3> HIDE DEF x, m
    <3>4. x \in found(k) /\ \A y \in found(k) : x >= y
      BY <3>2 DEF x
    <3>5. x \in Nat /\ x # 0 /\ \E i \in DOMAIN s : s[i].data[k] = x
      BY <2>1, <3>4
    <3>6. \A i \in DOMAIN s : s[i].data[k] <= x
      <4> TAKE i \in DOMAIN s
      <4>1. s[i].data[k] = 0 \/ s[i].data[k] \in found(k)
        OBVIOUS
      <4> HIDE DEF found
      <4> QED BY <2>1, <3>4, <3>5, <4>1
    <3> QED BY <3>3, <3>5, <3>6
  <2> QED BY <2>2, <2>3
<1> HIDE DEF m
<1>3. Merge(s, a) \in Data /\ \A k \in Keys : Merge(s, a)[k] = m(k)
  BY <1>1, <1>2 DEF Data
<1> QED
  BY <1>2, <1>3

\* plainDB.Get finds the newest write.
LEMMA GetFact ==
  ASSUME TypeInv, NEW k \in Keys, NEW v, Top(queue, At(arr), k, v)
  PROVE  Get(k) = v
<1> DEFINE hits == {i \in DOMAIN queue : queue[i].data[k] # 0}
<1>1. Get(k) = IF hits = {} THEN At(arr)[k] ELSE queue[Max(hits)].data[k]
  BY DEF Get
<1>2. DOMAIN queue = 1..Len(queue) /\ Len(queue) \in Nat
  BY DEF TypeInv
<1>3. CASE v = At(arr)[k] /\ \A i \in DOMAIN queue : queue[i].data[k] = 0
  BY <1>1, <1>3
<1>4. CASE v # 0 /\ \E i \in DOMAIN queue :
             queue[i].data[k] = v /\ \A j \in DOMAIN queue : i < j => queue[j].data[k] = 0
  <2>1. PICK i \in DOMAIN queue :
             queue[i].data[k] = v /\ \A j \in DOMAIN queue : i < j => queue[j].data[k] = 0
    BY <1>4
  <2>2. i \in hits /\ hits \subseteq Nat /\ \A y \in hits : y <= Len(queue)
    BY <1>2, <1>4, <2>1
  <2>3. \A y \in hits : y \in DOMAIN queue /\ ~(i < y)
    BY <2>1
  <2> HIDE DEF hits
  <2>4. Max(hits) \in hits /\ \A y \in hits : Max(hits) >= y
    BY <1>2, <2>2, MaxFact
  <2>5. Max(hits) = i
    BY <1>2, <2>2, <2>3, <2>4
  <2> QED BY <1>1, <2>1, <2>2, <2>5
<1> QED
  BY <1>3, <1>4 DEF Top

\* The array table in use is a table.
LEMMA AtFact ==
  ASSUME AtsInv
  PROVE  \A f : At(f) \in Data
BY EmptyFact DEF AtsInv, At

\* What was read of the array table stays readable while others are built and deleted.
LEMMA AtSame ==
  ASSUME QInv, NumInv, TrashInv, FlushBuild \/ DeleteFile \/ UNCHANGED <<ats, arr>>
  PROVE  At(arr)' = At(arr)
<1>1. CASE UNCHANGED <<ats, arr>>
  BY <1>1 DEF At
<1>2. CASE FlushBuild
  <2>1. arr' = arr /\ fl.num # arr
    BY <1>2 DEF FlushBuild, NumInv, QInv, TypeInv, Flushes
  <2>2. PICK v : ats' = Put(ats, fl.num, v)
    BY <1>2 DEF FlushBuild
  <2>3. (arr \in DOMAIN ats' <=> arr \in DOMAIN ats) /\ (arr \in DOMAIN ats => ats'[arr] = ats[arr])
    BY <2>1, <2>2 DEF Put
  <2> QED BY <2>1, <2>3 DEF At
<1>3. CASE DeleteFile
  <2>1. PICK t \in trash : ats' = IF t[1] = "at" THEN Drop(ats, {t[2]}) ELSE ats
    BY <1>3 DEF DeleteFile
  <2>2. arr' = arr /\ (t[1] = "at" => t[2] # arr)
    BY <1>3, <2>1 DEF DeleteFile, TrashInv
  <2>3. (arr \in DOMAIN ats' <=> arr \in DOMAIN ats) /\ (arr \in DOMAIN ats => ats'[arr] = ats[arr])
    BY <2>1, <2>2 DEF Drop
  <2> QED BY <2>2, <2>3 DEF At
<1> QED
  BY <1>1, <1>2, <1>3
-----------------------------------------------------------------------------
(***************************************************************************)
(* The second invariant is kept.                                           *)
(***************************************************************************)

\* The numbers of files and writes.
LEMMA NumTypes ==
  ASSUME QInv
  PROVE  /\ nextFileNum \in Nat /\ nextFileNum > 0 /\ arr \in Nat /\ logSeqNum \in Nat
         /\ logSeqNum > 0
         /\ fl.num \in Nat /\ fl.old \in Nat /\ fl.n \in Nat /\ fl.min \in Nat
         /\ meta.min \in Nat /\ meta.next \in Nat /\ meta.last \in Nat /\ meta.at \in Nat
<1>1. /\ nextFileNum \in Nat /\ nextFileNum > 0 /\ arr \in Nat /\ logSeqNum \in Nat
      /\ logSeqNum > 0
  BY DEF QInv, TypeInv
<1>2. fl.num \in Nat /\ fl.old \in Nat /\ fl.n \in Nat /\ fl.min \in Nat
  BY DEF QInv, TypeInv, Flushes
<1>3. meta.min \in Nat /\ meta.next \in Nat /\ meta.last \in Nat /\ meta.at \in Nat
  BY DEF QInv, DiskInv, Metas
<1> QED
  BY <1>1, <1>2, <1>3

\* A flush runs while the DB is not closed.
LEMMA FlushLive ==
  ASSUME QInv, flushPc # "none"
  PROVE  status \in {"open", "closing"} /\ status # "closed"
BY DEF QInv, ModeInv, Live

\* What maybeScheduleFlush makes of no flush.
LEMMA NewFlush ==
  ASSUME NEW q
  PROVE  ScheduleFlush("none", q) \in {"none", "start"}
BY DEF ScheduleFlush

\* Array tables are numbered upwards (getNextFileNum, markFileNumUsed), although the
\* flush loads the counter and stores it back in two steps.
LEMMA NumStep ==
  ASSUME RInv, [Next]_vars
  PROVE  NumInv'
<1> USE DEF RInv, QInv
<1>1. ASSUME FlushStart PROVE NumInv'
  <2>1. flushPc' \in {"number", "none", "start"}
    BY <1>1, NewFlush DEF FlushStart
  <2> QED BY <1>1, <2>1, NumTypes, FlushLive DEF FlushStart, NumInv, diskVars, logVars, clientVars, histVars
<1>2. ASSUME FlushNumber PROVE NumInv'
  <2>1. fl'.num = nextFileNum /\ flushPc' = "build" /\ status # "closed"
    BY <1>2, FlushLive DEF FlushNumber, TypeInv, Flushes
  <2> QED BY <1>2, <2>1, NumTypes DEF FlushNumber, NumInv, diskVars
<1>3. ASSUME FlushBuild PROVE NumInv'
  <2>1. flushPc' = "install" /\ UNCHANGED <<fl, arr, status, logSeqNum, meta>>
        /\ nextFileNum' \in {fl.num + 1, nextFileNum + 1} /\ flushPc = "build"
    BY <1>3 DEF FlushBuild
  <2> QED BY <2>1, NumTypes DEF NumInv
<1>4. ASSUME FlushInstall PROVE NumInv'
  <2>1. CASE MetaOk(fl.min)
    <3>1. /\ meta'.at = fl.num /\ meta'.next = nextFileNum /\ meta'.last = logSeqNum - 1
          /\ arr' = fl.num
      <4>1. meta' = MetaSet(fl.min, nextFileNum, fl.num) /\ arr' = fl.num /\ flushPc = "install"
        BY <1>4, <2>1 DEF FlushInstall
      <4>2. fl.num # 0
        BY <4>1, NumTypes DEF NumInv
      <4> QED BY <4>1, <4>2 DEF MetaSet
    <3>2. fl'.num = fl.num /\ fl'.old = arr
      BY <1>4 DEF FlushInstall, TypeInv, Flushes
    <3>3. UNCHANGED <<nextFileNum, logSeqNum, status>> /\ flushPc' = "delete" /\ flushPc = "install"
      BY <1>4 DEF FlushInstall
    <3> QED BY <3>1, <3>2, <3>3, NumTypes DEF NumInv
  <2>2. CASE ~MetaOk(fl.min)
    <3>1. fl'.ok = FALSE
      BY <1>4, <2>2 DEF FlushInstall, TypeInv, Flushes
    <3>3. UNCHANGED <<nextFileNum, logSeqNum, status, meta, arr>> /\ flushPc' = "delete" /\ flushPc = "install"
      BY <1>4, <2>2 DEF FlushInstall
    <3> QED BY <3>1, <3>3, NumTypes DEF NumInv
  <2> QED BY <2>1, <2>2
<1>5. ASSUME FlushDelete PROVE NumInv'
  BY <1>5 DEF FlushDelete, NumInv, diskVars, logVars, clientVars, flushVars, histVars
<1>6. ASSUME FlushEnd PROVE NumInv'
  <2>1. flushPc' \in {"none", "start"}
    BY <1>6, NewFlush DEF FlushEnd
  <2> QED BY <1>6, <2>1 DEF FlushEnd, NumInv, diskVars
<1>7. ASSUME DeleteFile PROVE NumInv'
  BY <1>7 DEF DeleteFile, NumInv, diskVars, logVars, clientVars, flushVars, histVars
<1>8. ASSUME NEW c \in Clients, NEW k \in Keys, Set(c, k) PROVE NumInv'
  BY <1>8, NumTypes DEF Set, NumInv, flushVars
<1>9. ASSUME NEW c \in Clients, Flush(c) PROVE NumInv'
  BY <1>9 DEF Flush, NumInv, diskVars, logVars, clientVars, flushVars, histVars
<1>10. ASSUME NEW c \in Clients, Prepare(c) PROVE NumInv'
  BY <1>10 DEF Prepare, NumInv, diskVars, logVars, clientVars, flushVars, histVars
<1>11. ASSUME NEW c \in Clients, SwitchLog(c) PROVE NumInv'
  BY <1>11, NumTypes DEF SwitchLog, NumInv, diskVars, flushVars
<1>12. ASSUME NEW c \in Clients, SwitchMem(c) PROVE NumInv'
  <2>1. flushPc' \in {flushPc, "start"} /\ (flushPc # "none" => flushPc' = flushPc)
    BY <1>12, ScheduleFact DEF SwitchMem, TypeInv
  <2> QED BY <1>12, <2>1, NumTypes DEF SwitchMem, NumInv, diskVars
<1>13. ASSUME NEW c \in Clients, Apply(c) PROVE NumInv'
  <2>1. flushPc' \in {flushPc, "start"} /\ (flushPc # "none" => flushPc' = flushPc)
    BY <1>13, ScheduleFact DEF Apply, TypeInv
  <2> QED BY <1>13, <2>1, NumTypes DEF Apply, NumInv, diskVars
<1>14. ASSUME NEW c \in Clients, Ack(c) PROVE NumInv'
  BY <1>14 DEF Ack, NumInv, diskVars, logVars, clientVars, flushVars, histVars
<1>15. ASSUME SyncLog PROVE NumInv'
  BY <1>15 DEF SyncLog, NumInv, diskVars, logVars, clientVars, flushVars, histVars
<1>16. ASSUME Close PROVE NumInv'
  BY <1>16 DEF Close, NumInv, diskVars, logVars, clientVars, flushVars, histVars
<1>17. ASSUME CloseDone PROVE NumInv'
  BY <1>17, NumTypes DEF CloseDone, Forget, NumInv, diskVars
<1>18. ASSUME Crash PROVE NumInv'
  BY <1>18, NumTypes DEF Crash, Forget, NumInv, diskVars
<1>19. ASSUME CrashInMetaEdit PROVE NumInv'
  <2>1. PICK n \in 1..3 : meta' = [meta EXCEPT !.min = fl.min,
                              !.next = IF n > 1 THEN nextFileNum ELSE meta.next,
                              !.last = IF n > 2 THEN logSeqNum - 1 ELSE meta.last]
    BY <1>19 DEF CrashInMetaEdit
  <2>2. meta'.at = meta.at /\ meta'.next \in {meta.next, nextFileNum}
    BY <2>1 DEF DiskInv, Metas
  <2>3. meta.at < nextFileNum
    BY <1>19, FlushLive DEF CrashInMetaEdit, NumInv
  <2> QED BY <1>19, <2>2, <2>3 DEF CrashInMetaEdit, Forget, NumInv
<1>20. ASSUME OpenFails PROVE NumInv'
  BY <1>20, NumTypes DEF OpenFails, Forget, NumInv, diskVars
<1>21. ASSUME Open PROVE NumInv'
  <2>1. /\ nextFileNum' \in Nat \ {0} /\ meta.next <= nextFileNum'
        /\ \A f \in DOMAIN ats : f < nextFileNum'
    BY <1>21, OpenNumber
  <2>2. arr' = 0 \/ (arr' = meta.at /\ meta.at \in DOMAIN ats)
    BY <1>21 DEF Open
  <2>3. logSeqNum' = meta.last + 1 /\ UNCHANGED <<meta, flushPc>> /\ flushPc = "none"
    BY <1>21 DEF Open, diskVars, flushVars, ModeInv, Live
  <2> QED BY <2>1, <2>2, <2>3, NumTypes DEF NumInv
<1>22. ASSUME ReplayWAL PROVE NumInv'
  <2>1. UNCHANGED <<meta, flushPc, status>> /\ flushPc = "none" /\ status = "replay"
    BY <1>22 DEF ReplayWAL, flushVars, ModeInv, Live
  <2>2. CASE UNCHANGED <<ats, arr, nextFileNum, logSeqNum, trash, lapse>>
    BY <2>1, <2>2 DEF NumInv
  <2>3. CASE ~UNCHANGED <<ats, arr, nextFileNum, logSeqNum, trash, lapse>>
    <3>1. arr' = nextFileNum /\ nextFileNum' = nextFileNum + 1
      BY <1>22, <2>3 DEF ReplayWAL
    <3>2. logSeqNum' \in Nat /\ logSeqNum <= logSeqNum'
      BY <1>22, <2>3, ReplaySeq
    <3> QED BY <2>1, <3>1, <3>2, NumTypes DEF NumInv
  <2> QED BY <2>2, <2>3
<1>23. ASSUME Recovered PROVE NumInv'
  <2>1. meta'.at = meta.at /\ meta'.next = nextFileNum + 1 /\ meta'.last = logSeqNum - 1
    BY <1>23 DEF Recovered, MetaSet
  <2>2. /\ UNCHANGED <<arr, flushPc, logSeqNum>> /\ nextFileNum' = nextFileNum + 1
        /\ flushPc = "none" /\ status = "replay"
    BY <1>23 DEF Recovered, flushVars, ModeInv, Live
  <2> QED BY <2>1, <2>2, NumTypes DEF NumInv
<1>24. ASSUME OpenDone PROVE NumInv'
  BY <1>24 DEF OpenDone, NumInv, diskVars, logVars, clientVars, flushVars, histVars
<1>25. ASSUME UNCHANGED vars PROVE NumInv'
  BY <1>25 DEF vars, NumInv, diskVars, logVars, clientVars, flushVars, histVars
<1> QED
  BY <1>1, <1>2, <1>3, <1>4, <1>5, <1>6, <1>7, <1>8, <1>9, <1>10, <1>11, <1>12, <1>13, <1>14, <1>15, <1>16, <1>17, <1>18, <1>19, <1>20, <1>21, <1>22, <1>23, <1>24, <1>25 DEF Next, Client, Flusher, Recovery

\* The array table in use, or being built, is not among the files to be deleted
\* (doDeleteObsoleteFiles, newPlainDB).
LEMMA TrashStep ==
  ASSUME RInv, [Next]_vars
  PROVE  TrashInv'
<1> USE DEF RInv, QInv
<1>1. ASSUME FlushStart PROVE TrashInv'
  <2>1. flushPc' \in {"number", "none", "start"}
    BY <1>1, NewFlush DEF FlushStart
  <2> QED BY <1>1, <2>1 DEF FlushStart, TrashInv
<1>2. ASSUME FlushNumber PROVE TrashInv'
  <2>1. fl'.num = nextFileNum
    BY <1>2 DEF FlushNumber, TypeInv, Flushes
  <2> QED BY <1>2, <2>1 DEF FlushNumber, TrashInv
<1>3. ASSUME FlushBuild PROVE TrashInv'
  <2>1. UNCHANGED <<fl, arr, trash>> /\ flushPc = "build"
        /\ nextFileNum' \in {fl.num + 1, nextFileNum + 1}
    BY <1>3 DEF FlushBuild
  <2> QED BY <2>1, NumTypes DEF TrashInv, NumInv
<1>4. ASSUME FlushInstall PROVE TrashInv'
  <2>1. arr' \in {arr, fl.num} /\ flushPc' = "delete" /\ flushPc = "install" /\ UNCHANGED <<trash, nextFileNum>>
    BY <1>4 DEF FlushInstall
  <2> QED BY <2>1, NumTypes DEF TrashInv
<1>5. ASSUME FlushDelete PROVE TrashInv'
  <2>1. \A t \in trash' : t[1] = "at" => t \in trash
    BY <1>5 DEF FlushDelete
  <2>2. UNCHANGED <<nextFileNum, arr>> /\ flushPc' = "release"
    BY <1>5 DEF FlushDelete
  <2> QED BY <2>1, <2>2 DEF TrashInv
<1>6. ASSUME FlushEnd PROVE TrashInv'
  <2>1. flushPc' \in {"none", "start"} /\ flushPc = "release" /\ UNCHANGED <<nextFileNum, arr>>
    BY <1>6, NewFlush DEF FlushEnd
  <2>2. \A t \in trash' : t \in trash \/ (t = <<"at", fl.old>> /\ fl.ok)
    BY <1>6 DEF FlushEnd
  <2>3. fl.ok => fl.old \in Nat /\ fl.old < nextFileNum /\ fl.old # arr
    BY <2>1, NumTypes DEF NumInv
  <2> QED BY <2>1, <2>2, <2>3 DEF TrashInv
<1>7. ASSUME DeleteFile PROVE TrashInv'
  <2>1. trash' \subseteq trash /\ UNCHANGED <<nextFileNum, arr, flushPc, fl>>
    BY <1>7 DEF DeleteFile, flushVars
  <2> QED BY <2>1 DEF TrashInv
<1>8. ASSUME NEW c \in Clients, NEW k \in Keys, Set(c, k) PROVE TrashInv'
  BY <1>8 DEF Set, TrashInv, diskVars, logVars, clientVars, flushVars, histVars
<1>9. ASSUME NEW c \in Clients, Flush(c) PROVE TrashInv'
  BY <1>9 DEF Flush, TrashInv, diskVars, logVars, clientVars, flushVars, histVars
<1>10. ASSUME NEW c \in Clients, Prepare(c) PROVE TrashInv'
  BY <1>10 DEF Prepare, TrashInv, diskVars, logVars, clientVars, flushVars, histVars
<1>11. ASSUME NEW c \in Clients, SwitchLog(c) PROVE TrashInv'
  <2>1. nextFileNum' = nextFileNum + 1 /\ UNCHANGED <<trash, arr, flushPc, fl>>
    BY <1>11 DEF SwitchLog, flushVars
  <2> QED BY <2>1, NumTypes DEF TrashInv
<1>12. ASSUME NEW c \in Clients, SwitchMem(c) PROVE TrashInv'
  <2>1. flushPc' \in {flushPc, "start"} /\ UNCHANGED <<trash, arr, nextFileNum, fl>>
    BY <1>12, ScheduleFact DEF SwitchMem, TypeInv
  <2> QED BY <2>1 DEF TrashInv
<1>13. ASSUME NEW c \in Clients, Apply(c) PROVE TrashInv'
  <2>1. flushPc' \in {flushPc, "start"} /\ UNCHANGED <<trash, arr, nextFileNum, fl>>
    BY <1>13, ScheduleFact DEF Apply, TypeInv
  <2> QED BY <2>1 DEF TrashInv
<1>14. ASSUME NEW c \in Clients, Ack(c) PROVE TrashInv'
  BY <1>14 DEF Ack, TrashInv, diskVars, logVars, clientVars, flushVars, histVars
<1>15. ASSUME SyncLog PROVE TrashInv'
  BY <1>15 DEF SyncLog, TrashInv, diskVars, logVars, clientVars, flushVars, histVars
<1>16. ASSUME Close PROVE TrashInv'
  BY <1>16 DEF Close, TrashInv, diskVars, logVars, clientVars, flushVars, histVars
<1>17. ASSUME CloseDone PROVE TrashInv'
  BY <1>17 DEF CloseDone, Forget, TrashInv
<1>18. ASSUME Crash PROVE TrashInv'
  BY <1>18 DEF Crash, Forget, TrashInv
<1>19. ASSUME CrashInMetaEdit PROVE TrashInv'
  BY <1>19 DEF CrashInMetaEdit, Forget, TrashInv
<1>20. ASSUME OpenFails PROVE TrashInv'
  BY <1>20 DEF OpenFails, Forget, TrashInv
<1>21. ASSUME Open PROVE TrashInv'
  <2>1. /\ nextFileNum' \in Nat \ {0}
        /\ \A f \in DOMAIN ats : f < nextFileNum'
    BY <1>21, OpenNumber
  <2>2. arr' \in {0, meta.at} /\ trash' = {<<"at", f>> : f \in DOMAIN ats \ {meta.at}}
    BY <1>21 DEF Open
  <2>3. flushPc' = "none"
    BY <1>21 DEF Open, flushVars, ModeInv, Live
  <2>4. \A f \in DOMAIN ats : f \in Nat /\ f # 0
    BY DEF DiskInv, Bounded, AtsInv
  <2>5. \A t \in trash' : t[2] \in DOMAIN ats /\ t[2] # meta.at
    BY <2>2
  <2> QED BY <2>1, <2>2, <2>3, <2>4, <2>5 DEF TrashInv
<1>22. ASSUME ReplayWAL PROVE TrashInv'
  <2>1. flushPc' = "none"
    BY <1>22 DEF ReplayWAL, flushVars, ModeInv, Live
  <2>2. CASE UNCHANGED <<ats, arr, nextFileNum, logSeqNum, trash, lapse>>
    BY <2>1, <2>2 DEF TrashInv
  <2>3. CASE ~UNCHANGED <<ats, arr, nextFileNum, logSeqNum, trash, lapse>>
    <3>1. arr' = nextFileNum /\ nextFileNum' = nextFileNum + 1
          /\ \A t \in trash' : t \in trash \/ t = <<"at", arr>>
      BY <1>22, <2>3 DEF ReplayWAL
    <3>2. arr < nextFileNum
      BY DEF NumInv
    <3> QED BY <2>1, <3>1, <3>2, NumTypes DEF TrashInv
  <2> QED BY <2>2, <2>3
<1>23. ASSUME Recovered PROVE TrashInv'
  <2>1. nextFileNum' = nextFileNum + 1 /\ UNCHANGED <<trash, arr, flushPc, fl>>
    BY <1>23 DEF Recovered, flushVars
  <2> QED BY <2>1, NumTypes DEF TrashInv
<1>24. ASSUME OpenDone PROVE TrashInv'
  <2>1. \A t \in trash' : t[1] = "at" => t \in trash
    BY <1>24 DEF OpenDone
  <2>2. UNCHANGED <<nextFileNum, arr, flushPc, fl>>
    BY <1>24 DEF OpenDone, flushVars
  <2> QED BY <2>1, <2>2 DEF TrashInv
<1>25. ASSUME UNCHANGED vars PROVE TrashInv'
  BY <1>25 DEF vars, TrashInv, diskVars, logVars, clientVars, flushVars, histVars
<1> QED
  BY <1>1, <1>2, <1>3, <1>4, <1>5, <1>6, <1>7, <1>8, <1>9, <1>10, <1>11, <1>12, <1>13, <1>14, <1>15, <1>16, <1>17, <1>18, <1>19, <1>20, <1>21, <1>22, <1>23, <1>24, <1>25 DEF Next, Client, Flusher, Recovery
\* The writes in the queue and in the array table are numbers.
LEMMA DataFact ==
  ASSUME RInv
  PROVE  /\ At(arr) \in Data /\ latest \in Data
         /\ \A k \in Keys : At(arr)[k] \in Nat /\ latest[k] \in Nat
         /\ \A i \in DOMAIN queue :
              queue[i].data \in Data /\ \A k \in Keys : queue[i].data[k] \in Nat
         /\ queue \in Seq(Table) /\ Len(queue) \in Nat /\ DOMAIN queue = 1..Len(queue)
<1>1. At(arr) \in Data /\ latest \in Data
  BY AtFact DEF RInv, AtsInv
<1>2. \A i \in DOMAIN queue : queue[i].data \in Data
  BY EntryFact DEF RInv, QInv
<1>3. queue \in Seq(Table) /\ Len(queue) \in Nat /\ DOMAIN queue = 1..Len(queue)
  BY DEF RInv, QInv, TypeInv
<1> QED
  BY <1>1, <1>2, <1>3 DEF Data

\* The array table runFlush builds: for each key the newest write of the tables it
\* flushes, or what the old array table has.
LEMMA FlushedFact ==
  ASSUME RInv, flushPc \in {"build", "install"}
  PROVE  LET a == Merge(SubSeq(queue, 1, fl.n), At(arr)) IN
         /\ a \in Data
         /\ \A k \in Keys :
              \/ a[k] = At(arr)[k] /\ \A i \in 1..fl.n : queue[i].data[k] = 0
              \/ /\ a[k] # 0
                 /\ \E i \in 1..fl.n : queue[i].data[k] = a[k]
                 /\ \A i \in 1..fl.n : queue[i].data[k] <= a[k]
         /\ \A k \in Keys : a[k] \in Nat /\ a[k] < logSeqNum
<1> DEFINE s == SubSeq(queue, 1, fl.n)
<1>1. fl.n \in Nat /\ fl.n > 0 /\ fl.n < Len(queue)
  BY NumTypes DEF RInv, QInv, FlushInv
<1>2. queue \in Seq(Table) /\ Len(queue) \in Nat /\ DOMAIN queue = 1..Len(queue)
  BY DataFact
<1>3. DOMAIN s = 1..fl.n /\ \A i \in 1..fl.n : s[i] = queue[i]
  BY <1>1, <1>2
<1>4. 1..fl.n \subseteq DOMAIN queue
  BY <1>1, <1>2
<1> HIDE DEF s
<1>5. /\ \A i \in DOMAIN s : s[i].data \in Data
      /\ \A i \in DOMAIN s, k \in Keys : s[i].data[k] <= logSeqNum
  <2>1. \A i \in DOMAIN queue, k \in Keys : queue[i].data[k] < logSeqNum
    BY DEF RInv, OrderInv
  <2>2. \A i \in DOMAIN queue : queue[i].data \in Data
    BY DataFact
  <2>3. \A i \in DOMAIN s : i \in DOMAIN queue /\ s[i] = queue[i]
    BY <1>3, <1>4
  <2>4. \A i \in DOMAIN s : s[i].data \in Data
    BY <2>2, <2>3
  <2>5. logSeqNum \in Nat
    BY NumTypes DEF RInv
  <2>6. ASSUME NEW i \in DOMAIN s, NEW k \in Keys PROVE s[i].data[k] <= logSeqNum
    <3>1. s[i].data[k] \in Nat
      BY <2>3, DataFact
    <3>2. s[i].data[k] < logSeqNum
      BY <2>1, <2>3
    <3> QED BY <2>5, <3>1, <3>2
  <2> QED BY <2>4, <2>6
<1>6. At(arr) \in Data /\ logSeqNum \in Nat
  BY DataFact, NumTypes DEF RInv
<1> DEFINE a == Merge(s, At(arr))
<1>7. /\ a \in Data
      /\ \A k \in Keys :
              \/ a[k] = At(arr)[k] /\ \A i \in DOMAIN s : s[i].data[k] = 0
              \/ /\ a[k] # 0
                 /\ \E i \in DOMAIN s : s[i].data[k] = a[k]
                 /\ \A i \in DOMAIN s : s[i].data[k] <= a[k]
  BY <1>5, <1>6, MergeFact
<1> HIDE DEF a
<1>8. \A k \in Keys :
              \/ a[k] = At(arr)[k] /\ \A i \in 1..fl.n : queue[i].data[k] = 0
              \/ /\ a[k] # 0
                 /\ \E i \in 1..fl.n : queue[i].data[k] = a[k]
                 /\ \A i \in 1..fl.n : queue[i].data[k] <= a[k]
  BY <1>3, <1>7
<1>9. \A k \in Keys : a[k] \in Nat /\ a[k] < logSeqNum
  <2>1. \A k \in Keys : At(arr)[k] < logSeqNum /\ \A i \in 1..fl.n : queue[i].data[k] < logSeqNum
    BY <1>4 DEF RInv, OrderInv
  <2> QED BY <1>7, <1>8, <2>1 DEF Data
<1> QED
  BY <1>7, <1>8, <1>9 DEF a, s

\* replayWAL puts what a log holds into a new array table, and moves the sequence
\* number past it.
LEMMA ReplayedFact ==
  ASSUME RInv, ReplayWAL, ~UNCHANGED <<ats, arr, nextFileNum, logSeqNum, trash, lapse>>
  PROVE  LET log == logs[Min(pending)] IN
         \E v \in Data : /\ ats' = Put(ats, nextFileNum, v) /\ arr' = nextFileNum
                         /\ \A k \in Keys :
                              /\ v[k] < logSeqNum'
                              /\ \A i \in DOMAIN log : log[i].key = k => log[i].seq <= v[k]
                              /\ \/ v[k] = At(arr)[k]
                                 \/ \E i \in DOMAIN log : log[i].key = k /\ log[i].seq = v[k]
<1> DEFINE f == Min(pending)
           log == logs[f]
           n == Len(log)
           s == [i \in DOMAIN log |-> [data |-> Upd(Empty, log[i].key, log[i].seq)]]
<1>1. /\ f \in pending /\ f \in DOMAIN logs /\ log \in Seq(Record) /\ log # <<>>
      /\ logSeqNum' \in Nat /\ logSeqNum <= logSeqNum' /\ log[n].seq < logSeqNum'
  BY ReplaySeq DEF RInv, QInv
<1>2. \A i, j \in DOMAIN log : i < j => log[i].seq < log[j].seq
  BY <1>1 DEF RInv, LogInv, ReplayWAL
<1>3. ats' = Put(ats, nextFileNum, Merge(s, At(arr))) /\ arr' = nextFileNum
  BY DEF ReplayWAL
<1> HIDE DEF f, log
<1>4. n \in DOMAIN log /\ DOMAIN log = 1..n /\ n \in Nat
  BY <1>1
<1>5. \A i \in DOMAIN log : log[i].key \in Keys /\ log[i].seq \in Nat
  <2>1. \A i \in DOMAIN log : log[i] \in Record
    BY <1>1
  <2> QED BY <2>1 DEF Record
<1>6. \A i \in DOMAIN log : log[i].seq < logSeqNum'
  <2> TAKE i \in DOMAIN log
  <2>1. i = n \/ i < n
    BY <1>4
  <2> HIDE DEF n
  <2> QED BY <1>1, <1>2, <1>4, <1>5, <2>1
<1>7. DOMAIN s = DOMAIN log
      /\ \A i \in DOMAIN log : s[i].data = Upd(Empty, log[i].key, log[i].seq)
  OBVIOUS
<1> HIDE DEF s
<1>8. ASSUME NEW i \in DOMAIN s
      PROVE  /\ s[i].data \in Data /\ \A k \in Keys : s[i].data[k] < logSeqNum'
             /\ s[i].data[log[i].key] = log[i].seq
             /\ \A k \in Keys : k # log[i].key => s[i].data[k] = 0
  <2>1. log[i].key \in Keys /\ log[i].seq \in Nat /\ log[i].seq < logSeqNum'
    BY <1>5, <1>6, <1>7
  <2>2. /\ s[i].data \in Data
        /\ s[i].data[log[i].key] = IF log[i].seq > Empty[log[i].key] THEN log[i].seq ELSE Empty[log[i].key]
        /\ \A j \in Keys : j # log[i].key => s[i].data[j] = Empty[j]
    BY <1>7, <2>1, EmptyFact, UpdFact
  <2>3. logSeqNum' \in Nat /\ 0 < logSeqNum'
    BY <1>1, <2>1
  <2>4. \A j \in Keys : Empty[j] = 0
    BY EmptyFact
  <2>5. s[i].data[log[i].key] = log[i].seq
    BY <2>1, <2>2, <2>4
  <2>6. \A j \in Keys : s[i].data[j] = log[i].seq \/ s[i].data[j] = 0
    BY <2>2, <2>4, <2>5
  <2> QED BY <2>1, <2>2, <2>3, <2>4, <2>5, <2>6
<1>9. /\ \A i \in DOMAIN s : s[i].data \in Data
      /\ \A i \in DOMAIN s, k \in Keys : s[i].data[k] <= logSeqNum'
  BY <1>1, <1>8 DEF Data
<1> DEFINE a == Merge(s, At(arr))
<1>10. /\ a \in Data
       /\ \A k \in Keys :
              \/ a[k] = At(arr)[k] /\ \A i \in DOMAIN s : s[i].data[k] = 0
              \/ /\ a[k] # 0
                 /\ \E i \in DOMAIN s : s[i].data[k] = a[k]
                 /\ \A i \in DOMAIN s : s[i].data[k] <= a[k]
  BY <1>1, <1>9, DataFact, MergeFact
<1> HIDE DEF a
<1>11. \A k \in Keys : a[k] < logSeqNum'
  <2>1. \A k \in Keys : At(arr)[k] < logSeqNum /\ At(arr)[k] \in Nat
    BY DataFact DEF RInv, OrderInv
  <2>2. \A k \in Keys : At(arr)[k] < logSeqNum'
    BY <1>1, <2>1, NumTypes DEF RInv
  <2> QED BY <1>8, <1>10, <2>2
<1>12. ASSUME NEW k \in Keys
       PROVE  /\ \A i \in DOMAIN log : log[i].key = k => log[i].seq <= a[k]
              /\ \/ a[k] = At(arr)[k]
                 \/ \E i \in DOMAIN log : log[i].key = k /\ log[i].seq = a[k]
  <2>1. a[k] \in Nat
    BY <1>10 DEF Data
  <2>2. \A i \in DOMAIN log : s[i].data[k] = IF log[i].key = k THEN log[i].seq ELSE 0
    BY <1>7, <1>8
  <2> QED BY <1>5, <1>7, <1>10, <2>1, <2>2
<1> QED
  BY <1>3, <1>10, <1>11, <1>12 DEF a, log, f

\* Array tables are tables, the number 0 is none of them (runFlush, replayWAL).
LEMMA AtsStep ==
  ASSUME RInv, [Next]_vars
  PROVE  AtsInv'
<1> USE DEF RInv, QInv
<1>1. ASSUME FlushStart PROVE AtsInv'
  BY <1>1 DEF FlushStart, AtsInv, diskVars, logVars, clientVars, flushVars, histVars
<1>2. ASSUME FlushNumber PROVE AtsInv'
  BY <1>2 DEF FlushNumber, AtsInv, diskVars, logVars, clientVars, flushVars, histVars
<1>3. ASSUME FlushBuild PROVE AtsInv'
  <2>1. fl.num # 0 /\ latest' = latest
    BY <1>3, NumTypes DEF FlushBuild, NumInv, histVars
  <2>2. PICK v \in Data : ats' = Put(ats, fl.num, v)
    BY <1>3, FlushedFact DEF FlushBuild
  <2> QED BY <2>1, <2>2 DEF AtsInv, Put
<1>4. ASSUME FlushInstall PROVE AtsInv'
  BY <1>4 DEF FlushInstall, AtsInv, diskVars, logVars, clientVars, flushVars, histVars
<1>5. ASSUME FlushDelete PROVE AtsInv'
  BY <1>5 DEF FlushDelete, AtsInv, diskVars, logVars, clientVars, flushVars, histVars
<1>6. ASSUME FlushEnd PROVE AtsInv'
  BY <1>6 DEF FlushEnd, AtsInv, diskVars, logVars, clientVars, flushVars, histVars
<1>7. ASSUME DeleteFile PROVE AtsInv'
  <2>1. PICK t \in trash : ats' = IF t[1] = "at" THEN Drop(ats, {t[2]}) ELSE ats
    BY <1>7 DEF DeleteFile
  <2>2. latest' = latest
    BY <1>7 DEF DeleteFile, histVars
  <2> QED BY <2>1, <2>2 DEF AtsInv, Drop
<1>8. ASSUME NEW c \in Clients, NEW k \in Keys, Set(c, k) PROVE AtsInv'
  BY <1>8 DEF Set, AtsInv, diskVars, logVars, clientVars, flushVars, histVars
<1>9. ASSUME NEW c \in Clients, Flush(c) PROVE AtsInv'
  BY <1>9 DEF Flush, AtsInv, diskVars, logVars, clientVars, flushVars, histVars
<1>10. ASSUME NEW c \in Clients, Prepare(c) PROVE AtsInv'
  BY <1>10 DEF Prepare, AtsInv, diskVars, logVars, clientVars, flushVars, histVars
<1>11. ASSUME NEW c \in Clients, SwitchLog(c) PROVE AtsInv'
  BY <1>11 DEF SwitchLog, AtsInv, diskVars, logVars, clientVars, flushVars, histVars
<1>12. ASSUME NEW c \in Clients, SwitchMem(c) PROVE AtsInv'
  <2>1. op[c].kind = "large" => op[c].key \in Keys /\ op[c].seq \in Nat
    BY <1>12 DEF SwitchMem, OpInv, TypeInv, Op
  <2>2. latest' \in Data
    BY <1>12, <2>1, UpdFact DEF SwitchMem, AtsInv
  <2> QED BY <1>12, <2>2 DEF SwitchMem, AtsInv
<1>13. ASSUME NEW c \in Clients, Apply(c) PROVE AtsInv'
  <2>1. op[c].key \in Keys /\ op[c].seq \in Nat
    BY <1>13 DEF Apply, OpInv, TypeInv, Op
  <2>2. latest' \in Data
    BY <1>13, <2>1, UpdFact DEF Apply, AtsInv
  <2> QED BY <1>13, <2>2 DEF Apply, AtsInv, diskVars
<1>14. ASSUME NEW c \in Clients, Ack(c) PROVE AtsInv'
  BY <1>14 DEF Ack, AtsInv, diskVars, logVars, clientVars, flushVars, histVars
<1>15. ASSUME SyncLog PROVE AtsInv'
  BY <1>15 DEF SyncLog, AtsInv, diskVars, logVars, clientVars, flushVars, histVars
<1>16. ASSUME Close PROVE AtsInv'
  BY <1>16 DEF Close, AtsInv, diskVars, logVars, clientVars, flushVars, histVars
<1>17. ASSUME CloseDone PROVE AtsInv'
  <2>1. PICK S : ats' = Drop(ats, S)
    BY <1>17 DEF CloseDone
  <2> QED BY <1>17, <2>1 DEF CloseDone, AtsInv, Drop
<1>18. ASSUME Crash PROVE AtsInv'
  BY <1>18 DEF Crash, AtsInv, diskVars, logVars, clientVars, flushVars, histVars
<1>19. ASSUME CrashInMetaEdit PROVE AtsInv'
  BY <1>19 DEF CrashInMetaEdit, AtsInv, diskVars, logVars, clientVars, flushVars, histVars
<1>20. ASSUME OpenFails PROVE AtsInv'
  <2>1. PICK S : ats' = Drop(ats, S)
    BY <1>20 DEF OpenFails
  <2> QED BY <1>20, <2>1 DEF OpenFails, AtsInv, Drop, histVars
<1>21. ASSUME Open PROVE AtsInv'
  BY <1>21 DEF Open, AtsInv, diskVars, logVars, clientVars, flushVars, histVars
<1>22. ASSUME ReplayWAL PROVE AtsInv'
  <2>1. latest' = latest
    BY <1>22 DEF ReplayWAL
  <2>2. CASE UNCHANGED <<ats, arr, nextFileNum, logSeqNum, trash, lapse>>
    BY <2>1, <2>2 DEF AtsInv
  <2>3. CASE ~UNCHANGED <<ats, arr, nextFileNum, logSeqNum, trash, lapse>>
    <3>1. PICK v \in Data : ats' = Put(ats, nextFileNum, v)
      BY <1>22, <2>3, ReplayedFact
    <3> QED BY <2>1, <3>1, NumTypes DEF AtsInv, Put
  <2> QED BY <2>2, <2>3
<1>23. ASSUME Recovered PROVE AtsInv'
  BY <1>23 DEF Recovered, AtsInv, diskVars, logVars, clientVars, flushVars, histVars
<1>24. ASSUME OpenDone PROVE AtsInv'
  <2>1. latest' \in Data
    BY <1>24, AtFact DEF OpenDone
  <2> QED BY <1>24, <2>1 DEF OpenDone, AtsInv
<1>25. ASSUME UNCHANGED vars PROVE AtsInv'
  BY <1>25 DEF vars, AtsInv, diskVars, logVars, clientVars, flushVars, histVars
<1> QED
  BY <1>1, <1>2, <1>3, <1>4, <1>5, <1>6, <1>7, <1>8, <1>9, <1>10, <1>11, <1>12, <1>13, <1>14, <1>15, <1>16, <1>17, <1>18, <1>19, <1>20, <1>21, <1>22, <1>23, <1>24, <1>25 DEF Next, Client, Flusher, Recovery

\* The recorded last sequence number covers the recorded array table (metadata.apply).
LEMMA MetaStep ==
  ASSUME RInv, [Next]_vars
  PROVE  MetaInv'
<1> USE DEF RInv, QInv
<1>1. ASSUME FlushStart PROVE MetaInv'
  BY <1>1 DEF FlushStart, MetaInv, diskVars, logVars, clientVars, flushVars, histVars
<1>2. ASSUME FlushNumber PROVE MetaInv'
  BY <1>2 DEF FlushNumber, MetaInv, diskVars, logVars, clientVars, flushVars, histVars
<1>3. ASSUME FlushBuild PROVE MetaInv'
  <2>1. meta' = meta /\ meta.at # fl.num
    BY <1>3, NumTypes DEF FlushBuild, NumInv
  <2>2. PICK v : ats' = Put(ats, fl.num, v)
    BY <1>3 DEF FlushBuild
  <2>3. meta.at \in DOMAIN ats' => meta.at \in DOMAIN ats /\ ats'[meta.at] = ats[meta.at]
    BY <2>1, <2>2 DEF Put
  <2> QED BY <2>1, <2>3 DEF MetaInv
<1>4. ASSUME FlushInstall PROVE MetaInv'
  <2>1. CASE MetaOk(fl.min)
    <3>1. meta'.at = fl.num /\ meta'.last = logSeqNum - 1 /\ ats' = ats
      <4>1. meta' = MetaSet(fl.min, nextFileNum, fl.num) /\ ats' = ats /\ flushPc = "install"
        BY <1>4, <2>1 DEF FlushInstall
      <4>2. fl.num # 0
        BY <4>1, NumTypes DEF NumInv
      <4> QED BY <4>1, <4>2 DEF MetaSet
    <3>2. \A k \in Keys : ats[fl.num][k] \in Nat /\ ats[fl.num][k] < logSeqNum
      BY <1>4, FlushedFact DEF FlushInstall, InstallInv
    <3> QED BY <3>1, <3>2, NumTypes DEF MetaInv
  <2>2. CASE ~MetaOk(fl.min)
    BY <1>4, <2>2 DEF FlushInstall, MetaInv
  <2> QED BY <2>1, <2>2
<1>5. ASSUME FlushDelete PROVE MetaInv'
  BY <1>5 DEF FlushDelete, MetaInv, diskVars, logVars, clientVars, flushVars, histVars
<1>6. ASSUME FlushEnd PROVE MetaInv'
  BY <1>6 DEF FlushEnd, MetaInv, diskVars, logVars, clientVars, flushVars, histVars
<1>7. ASSUME DeleteFile PROVE MetaInv'
  <2>1. PICK t \in trash : ats' = IF t[1] = "at" THEN Drop(ats, {t[2]}) ELSE ats
    BY <1>7 DEF DeleteFile
  <2>2. meta' = meta
    BY <1>7 DEF DeleteFile
  <2> QED BY <2>1, <2>2 DEF MetaInv, Drop
<1>8. ASSUME NEW c \in Clients, NEW k \in Keys, Set(c, k) PROVE MetaInv'
  BY <1>8 DEF Set, MetaInv, diskVars, logVars, clientVars, flushVars, histVars
<1>9. ASSUME NEW c \in Clients, Flush(c) PROVE MetaInv'
  BY <1>9 DEF Flush, MetaInv, diskVars, logVars, clientVars, flushVars, histVars
<1>10. ASSUME NEW c \in Clients, Prepare(c) PROVE MetaInv'
  BY <1>10 DEF Prepare, MetaInv, diskVars, logVars, clientVars, flushVars, histVars
<1>11. ASSUME NEW c \in Clients, SwitchLog(c) PROVE MetaInv'
  BY <1>11 DEF SwitchLog, MetaInv, diskVars, logVars, clientVars, flushVars, histVars
<1>12. ASSUME NEW c \in Clients, SwitchMem(c) PROVE MetaInv'
  BY <1>12 DEF SwitchMem, MetaInv, diskVars, logVars, clientVars, flushVars, histVars
<1>13. ASSUME NEW c \in Clients, Apply(c) PROVE MetaInv'
  BY <1>13 DEF Apply, MetaInv, diskVars, logVars, clientVars, flushVars, histVars
<1>14. ASSUME NEW c \in Clients, Ack(c) PROVE MetaInv'
  BY <1>14 DEF Ack, MetaInv, diskVars, logVars, clientVars, flushVars, histVars
<1>15. ASSUME SyncLog PROVE MetaInv'
  BY <1>15 DEF SyncLog, MetaInv, diskVars, logVars, clientVars, flushVars, histVars
<1>16. ASSUME Close PROVE MetaInv'
  BY <1>16 DEF Close, MetaInv, diskVars, logVars, clientVars, flushVars, histVars
<1>17. ASSUME CloseDone PROVE MetaInv'
  <2>1. PICK S : ats' = Drop(ats, S)
    BY <1>17 DEF CloseDone
  <2> QED BY <1>17, <2>1 DEF CloseDone, MetaInv, Drop
<1>18. ASSUME Crash PROVE MetaInv'
  BY <1>18 DEF Crash, MetaInv, diskVars, logVars, clientVars, flushVars, histVars
<1>19. ASSUME CrashInMetaEdit PROVE MetaInv'
  <2>1. PICK n \in 1..3 : meta' = [meta EXCEPT !.min = fl.min,
                              !.next = IF n > 1 THEN nextFileNum ELSE meta.next,
                              !.last = IF n > 2 THEN logSeqNum - 1 ELSE meta.last]
    BY <1>19 DEF CrashInMetaEdit
  <2>2. meta'.at = meta.at /\ meta'.last \in {meta.last, logSeqNum - 1}
    BY <2>1 DEF DiskInv, Metas
  <2>3. meta.last < logSeqNum
    BY <1>19, FlushLive DEF CrashInMetaEdit, NumInv
  <2>4. meta.last <= meta'.last
    BY <2>2, <2>3, NumTypes
  <2>5. meta.at \in DOMAIN ats => \A k \in Keys : ats[meta.at][k] \in Nat
    BY DEF AtsInv, Data
  <2>6. ats' = ats /\ meta'.last \in Nat
    BY <1>19, <2>2, NumTypes DEF CrashInMetaEdit
  <2> QED BY <2>2, <2>4, <2>5, <2>6, NumTypes DEF MetaInv
<1>20. ASSUME OpenFails PROVE MetaInv'
  <2>1. PICK S : ats' = Drop(ats, S)
    BY <1>20 DEF OpenFails
  <2> QED BY <1>20, <2>1 DEF OpenFails, MetaInv, Drop
<1>21. ASSUME Open PROVE MetaInv'
  BY <1>21 DEF Open, MetaInv, diskVars, logVars, clientVars, flushVars, histVars
<1>22. ASSUME ReplayWAL PROVE MetaInv'
  <2>1. meta' = meta /\ meta.at < nextFileNum
    BY <1>22 DEF ReplayWAL, NumInv
  <2>2. CASE UNCHANGED <<ats, arr, nextFileNum, logSeqNum, trash, lapse>>
    BY <2>1, <2>2 DEF MetaInv
  <2>3. CASE ~UNCHANGED <<ats, arr, nextFileNum, logSeqNum, trash, lapse>>
    <3>1. PICK v \in Data : ats' = Put(ats, nextFileNum, v)
      BY <1>22, <2>3, ReplayedFact
    <3>2. meta.at \in DOMAIN ats' => meta.at \in DOMAIN ats /\ ats'[meta.at] = ats[meta.at]
      BY <2>1, <3>1, NumTypes DEF Put
    <3> QED BY <2>1, <3>2 DEF MetaInv
  <2> QED BY <2>2, <2>3
<1>23. ASSUME Recovered PROVE MetaInv'
  <2>1. meta'.at = meta.at /\ meta'.last = logSeqNum - 1 /\ ats' = ats
    BY <1>23 DEF Recovered, MetaSet
  <2>2. meta.last <= meta'.last /\ meta'.last \in Nat
    BY <1>23, <2>1, NumTypes DEF Recovered, NumInv
  <2>3. meta.at \in DOMAIN ats => \A k \in Keys : ats[meta.at][k] \in Nat
    BY DEF AtsInv, Data
  <2> QED BY <2>1, <2>2, <2>3, NumTypes DEF MetaInv
<1>24. ASSUME OpenDone PROVE MetaInv'
  BY <1>24 DEF OpenDone, MetaInv, diskVars, logVars, clientVars, flushVars, histVars
<1>25. ASSUME UNCHANGED vars PROVE MetaInv'
  BY <1>25 DEF vars, MetaInv, diskVars, logVars, clientVars, flushVars, histVars
<1> QED
  BY <1>1, <1>2, <1>3, <1>4, <1>5, <1>6, <1>7, <1>8, <1>9, <1>10, <1>11, <1>12, <1>13, <1>14, <1>15, <1>16, <1>17, <1>18, <1>19, <1>20, <1>21, <1>22, <1>23, <1>24, <1>25 DEF Next, Client, Flusher, Recovery
\* The actions that leave the memtables, the array table in use and the batches on
\* their way as they are.
Still == \/ FlushStart \/ FlushNumber \/ FlushBuild \/ FlushDelete \/ FlushEnd
         \/ DeleteFile \/ SyncLog \/ Close \/ Recovered \/ UNCHANGED vars
         \/ \E c \in Clients : \/ Flush(c) \/ SwitchLog(c) \/ Ack(c)
                               \/ \E k \in Keys : Set(c, k)

\* What they leave.
LEMMA StillFact ==
  ASSUME RInv, Still
  PROVE  /\ queue' = queue /\ At(arr)' = At(arr) /\ latest' = latest
         /\ logSeqNum' \in Nat /\ logSeqNum <= logSeqNum'
         /\ \A d \in Clients : pc'[d] = "apply" => pc[d] = "apply" /\ op'[d] = op[d]
<1> USE DEF RInv, QInv
<1>1. queue' = queue /\ latest' = latest
  BY DEF Still, FlushStart, FlushNumber, FlushBuild, FlushDelete, FlushEnd, DeleteFile,
         SyncLog, Close, Recovered, Flush, SwitchLog, Ack, Set, vars, histVars
<1>2. At(arr)' = At(arr)
  <2>1. FlushBuild \/ DeleteFile \/ UNCHANGED <<ats, arr>>
    BY DEF Still, FlushStart, FlushNumber, FlushDelete, FlushEnd,
           SyncLog, Close, Recovered, Flush, SwitchLog, Ack, Set, vars, diskVars
  <2> QED BY <2>1, AtSame
<1>3. logSeqNum' \in Nat /\ logSeqNum <= logSeqNum'
  <2>1. logSeqNum' = logSeqNum \/ logSeqNum' = logSeqNum + 1
    BY DEF Still, FlushStart, FlushNumber, FlushBuild, FlushDelete, FlushEnd, DeleteFile,
           SyncLog, Close, Recovered, Flush, SwitchLog, Ack, Set, vars
  <2> QED BY <2>1, NumTypes
<1>4. ASSUME NEW d \in Clients, pc'[d] = "apply" PROVE pc[d] = "apply" /\ op'[d] = op[d]
  <2>1. pc \in [Clients -> ClientPcs] /\ op \in [Clients -> Op]
    BY DEF TypeInv
  <2>2. CASE UNCHANGED <<pc, op>>
    BY <1>4, <2>2
  <2>3. CASE FlushEnd
    BY <1>4, <2>3 DEF FlushEnd
  <2>4. ASSUME NEW c \in Clients, Flush(c) \/ SwitchLog(c) \/ Ack(c) \/ \E k \in Keys : Set(c, k)
        PROVE  pc[d] = "apply" /\ op'[d] = op[d]
    <3>1. pc'[c] # "apply"
      BY <2>1, <2>4 DEF Flush, SwitchLog, Ack, Set
    <3>2. d # c
      BY <1>4, <3>1
    <3> QED BY <1>4, <2>1, <2>4, <3>2 DEF Flush, SwitchLog, Ack, Set
  <2> QED BY <2>2, <2>3, <2>4 DEF Still, FlushStart, FlushNumber, FlushBuild, FlushDelete, DeleteFile,
         SyncLog, Close, Recovered, vars, clientVars
<1> QED
  BY <1>1, <1>2, <1>3, <1>4

\* The actions that end the process.
Ending == CloseDone \/ Crash \/ CrashInMetaEdit \/ OpenFails

\* What they leave in memory: nothing.
LEMMA EndingFact ==
  ASSUME AtsInv', Ending
  PROVE  /\ Forget /\ queue' = <<>> /\ \A k \in Keys : At(arr)'[k] = 0
         /\ \A d \in Clients : pc'[d] = "idle"
         /\ logSeqNum' = 1 /\ status' = "closed" /\ flushPc' = "none"
<1>1. Forget
  BY DEF Ending, CloseDone, Crash, CrashInMetaEdit, OpenFails
<1>2. At(arr)' = Empty
  BY <1>1 DEF Forget, At, AtsInv
<1> QED
  BY <1>1, <1>2, EmptyFact DEF Forget

\* Every step is one of these or concerns the tables.
LEMMA StepKinds ==
  ASSUME [Next]_vars
  PROVE  \/ Still \/ Ending \/ FlushInstall \/ Open \/ ReplayWAL \/ OpenDone
         \/ \E c \in Clients : Prepare(c) \/ SwitchMem(c) \/ Apply(c)
BY DEF Next, Client, Flusher, Recovery, Still, Ending

\* The order of the writes while the tables hold the same.
LEMMA OrderFrame ==
  ASSUME RInv, DOMAIN queue' = DOMAIN queue,
         \A i \in DOMAIN queue : queue'[i].data = queue[i].data,
         At(arr)' = At(arr), logSeqNum' \in Nat, logSeqNum <= logSeqNum'
  PROVE  OrderInv'
<1>1. \A k \in Keys : /\ At(arr)[k] < logSeqNum /\ At(arr)[k] \in Nat
                      /\ \A i \in DOMAIN queue : queue[i].data[k] < logSeqNum /\ queue[i].data[k] \in Nat
  BY DataFact DEF RInv, OrderInv
<1>2. logSeqNum \in Nat
  BY NumTypes DEF RInv
<1>3. \A k \in Keys : /\ At(arr)[k] < logSeqNum'
                      /\ \A i \in DOMAIN queue : queue[i].data[k] < logSeqNum'
  BY <1>1, <1>2
<1> QED
  BY <1>3 DEF RInv, OrderInv

\* The entries a flush leaves, and the array table it installs.
LEMMA InstallFact ==
  ASSUME RInv, FlushInstall
  PROVE  \/ queue' = queue /\ At(arr)' = At(arr) /\ meta' = meta
         \/ /\ Len(queue') = Len(queue) - fl.n /\ Len(queue') > 0 /\ Len(queue') \in Nat
            /\ DOMAIN queue' = 1..Len(queue')
            /\ \A i \in DOMAIN queue' : i + fl.n \in DOMAIN queue /\ queue'[i] = queue[i + fl.n]
            /\ At(arr)' = Merge(SubSeq(queue, 1, fl.n), At(arr))
<1> USE DEF RInv, QInv
<1>1. ats' = ats /\ flushPc = "install"
  BY DEF FlushInstall
<1>2. CASE ~MetaOk(fl.min)
  BY <1>1, <1>2 DEF FlushInstall, At
<1>3. CASE MetaOk(fl.min)
  <2>1. arr' = fl.num /\ queue' = SubSeq(queue, fl.n + 1, Len(queue))
    BY <1>3 DEF FlushInstall
  <2>2. At(arr)' = Merge(SubSeq(queue, 1, fl.n), At(arr))
    BY <1>1, <2>1 DEF At, InstallInv
  <2>3. fl.n \in Nat /\ fl.n > 0 /\ fl.n < Len(queue)
    BY <1>1, NumTypes DEF FlushInv
  <2>4. queue \in Seq(Table) /\ Len(queue) \in Nat /\ DOMAIN queue = 1..Len(queue)
    BY DEF TypeInv
  <2>5. /\ queue' \in Seq(Table) /\ Len(queue') = Len(queue) - fl.n
        /\ \A i \in 1..Len(queue') : queue'[i] = queue[i + fl.n]
    BY <2>1, <2>3, <2>4, Dropped
  <2>6. Len(queue') > 0 /\ Len(queue') \in Nat /\ DOMAIN queue' = 1..Len(queue')
    BY <2>3, <2>4, <2>5
  <2>7. \A i \in DOMAIN queue' : i + fl.n \in DOMAIN queue
    BY <2>3, <2>4, <2>5, <2>6
  <2> QED BY <2>2, <2>5, <2>6, <2>7
<1> QED
  BY <1>2, <1>3

\* What is written to a table of the queue now is newer than the flushed array table.
LEMMA NewerThanFlushed ==
  ASSUME RInv, flushPc \in {"build", "install"}, NEW k \in Keys, NEW s \in Nat,
         At(arr)[k] < s, \A i \in 1..fl.n : queue[i].data[k] < s
  PROVE  Merge(SubSeq(queue, 1, fl.n), At(arr))[k] < s
BY FlushedFact
\* A client that is not idle has an open DB, whose queue has a mutable memtable.
LEMMA BusyFact ==
  ASSUME QInv, NEW c \in Clients, pc[c] # "idle"
  PROVE  status = "open" /\ queue # <<>> /\ Len(queue) \in Nat /\ Len(queue) > 0
         /\ DOMAIN queue = 1..Len(queue)
BY MutableFact DEF QInv, ModeInv, Live

\* What makeRoomForWrite adds to the queue: a large batch, which has its one write,
\* and an empty memtable.
LEMMA SwitchData ==
  ASSUME RInv, NEW c \in Clients, SwitchMem(c)
  PROVE  LET n == Len(queue)
             m == Len(queue')
             large == op[c].kind = "large" IN
         /\ n \in Nat /\ n > 0 /\ DOMAIN queue = 1..n /\ m \in Nat /\ DOMAIN queue' = 1..m
         /\ m = IF large THEN n + 2 ELSE n + 1
         /\ \A i \in 1..n : queue'[i].data = queue[i].data /\ queue'[i].mem = queue[i].mem
         /\ \A i \in 1..m : i > n =>
              /\ queue'[i].mem = 0 \/ queue'[i].mem = queue[n].mem + 1
              /\ \A k \in Keys : \/ queue'[i].data[k] = 0
                                 \/ /\ large /\ k = op[c].key /\ i = n + 1
                                    /\ queue'[i].data[k] = op[c].seq
         /\ large => /\ op[c].key \in Keys /\ op[c].seq \in Nat /\ op[c].seq > 0
                     /\ queue'[n + 1].data[op[c].key] = op[c].seq
                     /\ Making(c)
         /\ UNCHANGED <<At(arr), logSeqNum, op>>
         /\ \A i \in 1..n : n # i => queue'[i] = queue[i]
<1> USE DEF RInv, QInv
<1> DEFINE n == Len(queue)
           m == Len(queue')
           large == op[c].kind = "large"
<1>1. queue # <<>> /\ n \in Nat /\ n > 0 /\ DOMAIN queue = 1..n
  BY BusyFact DEF SwitchMem
<1>2. /\ queue' \in Seq(Table) /\ m = IF large THEN n + 2 ELSE n + 1
      /\ \A i \in 1..(n - 1) : queue'[i] = queue[i]
      /\ queue'[n].mem = queue[n].mem /\ queue'[n].data = queue[n].data
      /\ large => /\ queue'[n + 1].mem = 0
                  /\ queue'[n + 1].data = Upd(Empty, op[c].key, op[c].seq)
      /\ queue'[m].mem = queue[n].mem + 1 /\ queue'[m].data = Empty
  BY <1>1, SwitchShape
<1>3. m \in Nat /\ DOMAIN queue' = 1..m
  BY <1>2
<1>4. large => op[c].key \in Keys /\ op[c].seq \in Nat /\ op[c].seq > 0 /\ Making(c)
  BY DEF SwitchMem, OpInv, TypeInv, Op, Making
<1>5. large => \A k \in Keys : queue'[n + 1].data[k] = IF k = op[c].key THEN op[c].seq ELSE 0
  <2> SUFFICES ASSUME large
               PROVE  \A k \in Keys : queue'[n + 1].data[k] = IF k = op[c].key THEN op[c].seq ELSE 0
    OBVIOUS
  <2> DEFINE d == Upd(Empty, op[c].key, op[c].seq)
  <2>1. /\ d[op[c].key] = IF op[c].seq > Empty[op[c].key] THEN op[c].seq ELSE Empty[op[c].key]
        /\ \A j \in Keys : j # op[c].key => d[j] = Empty[j]
    BY <1>4, EmptyFact, UpdFact
  <2>2. queue'[n + 1].data = d
    BY <1>2
  <2> HIDE DEF d, n, m
  <2> QED BY <1>4, <2>1, <2>2, EmptyFact
<1>6. UNCHANGED <<At(arr), logSeqNum, op>>
  <2>1. UNCHANGED <<ats, arr, logSeqNum, op>>
    BY DEF SwitchMem
  <2> QED BY <2>1 DEF At
<1> HIDE DEF n, m, large
<1>7. \A i \in 1..n : queue'[i].data = queue[i].data /\ queue'[i].mem = queue[i].mem
  <2> TAKE i \in 1..n
  <2>1. i = n \/ i \in 1..(n - 1)
    BY <1>1
  <2> QED BY <1>2, <2>1
<1>8. ASSUME NEW i \in 1..m, i > n
      PROVE  /\ queue'[i].mem = 0 \/ queue'[i].mem = queue[n].mem + 1
             /\ \A k \in Keys : \/ queue'[i].data[k] = 0
                                \/ /\ large /\ k = op[c].key /\ i = n + 1
                                   /\ queue'[i].data[k] = op[c].seq
  <2>1. i = m \/ (large /\ i = n + 1)
    BY <1>1, <1>2, <1>3, <1>8
  <2>2. CASE i = m
    BY <1>2, <2>2, EmptyFact
  <2>3. CASE large /\ i = n + 1
    BY <1>2, <1>5, <2>3
  <2> QED BY <2>1, <2>2, <2>3
<1>9. \A i \in 1..n : n # i => queue'[i] = queue[i]
  <2> TAKE i \in 1..n
  <2>1. n # i => i \in 1..(n - 1)
    BY <1>1
  <2> QED BY <1>2, <2>1
<1> QED
  BY <1>1, <1>2, <1>3, <1>4, <1>5, <1>6, <1>7, <1>8, <1>9 DEF n, m, large

\* What commitApply changes: one key in the one table the batch was prepared for.
LEMMA ApplyData ==
  ASSUME RInv, NEW c \in Clients, Apply(c)
  PROVE  /\ op[c].key \in Keys /\ op[c].seq \in Nat /\ op[c].seq > 0
         /\ DOMAIN queue' = DOMAIN queue
         /\ \A i \in DOMAIN queue : queue'[i].mem = queue[i].mem
         /\ \E t \in DOMAIN queue :
              /\ queue[t].mem = op[c].mem
              /\ \A i \in DOMAIN queue : i # t => queue'[i] = queue[i] /\ queue[i].mem # op[c].mem
              /\ \A i \in DOMAIN queue, j \in Keys :
                   queue'[i].data[j] = IF i = t /\ j = op[c].key /\ op[c].seq > queue[t].data[j]
                                       THEN op[c].seq ELSE queue[i].data[j]
         /\ UNCHANGED <<At(arr), logSeqNum, op>>
<1> USE DEF RInv, QInv
<1>1. op[c].key \in Keys /\ op[c].seq \in Nat /\ op[c].seq > 0 /\ op[c].mem > 0 /\ op[c].mem \in Nat
  BY DEF Apply, OpInv, TypeInv, Op
<1>2. PICK t \in DOMAIN queue : queue[t].mem = op[c].mem
  BY DEF Apply, OpInv, InQueue
<1>3. \A i \in DOMAIN queue : queue[i].mem \in Nat /\ queue[i].data \in Data
  BY EntryFact
<1>4. DOMAIN queue = 1..Len(queue) /\ Len(queue) \in Nat
  BY DEF TypeInv
<1>5. \A i \in DOMAIN queue : i # t => queue[i].mem # op[c].mem
  <2> SUFFICES ASSUME NEW i \in DOMAIN queue, i # t, queue[i].mem = op[c].mem PROVE FALSE
    OBVIOUS
  <2>1. i < t \/ t < i
    BY <1>4
  <2>2. queue[i].mem < queue[t].mem \/ queue[t].mem < queue[i].mem
    BY <1>1, <1>2, <2>1 DEF IdsInv
  <2> QED BY <1>2, <1>3, <2>2
<1>6. /\ queue' \in Seq(Table) /\ Len(queue') = Len(queue)
      /\ \A i \in 1..Len(queue) :
              /\ queue'[i].mem = queue[i].mem
              /\ queue[i].mem # op[c].mem => queue'[i] = queue[i]
              /\ queue[i].mem = op[c].mem =>
                   queue'[i].data = Upd(queue[i].data, op[c].key, op[c].seq)
  BY ApplyShape
<1>7. DOMAIN queue' = DOMAIN queue
  BY <1>4, <1>6
<1>8. \A i \in DOMAIN queue : i # t => queue'[i] = queue[i]
  BY <1>4, <1>5, <1>6
<1>9. queue'[t].data = Upd(queue[t].data, op[c].key, op[c].seq) /\ queue[t].data \in Data
  BY <1>2, <1>3, <1>4, <1>6
<1>10. \A j \in Keys : queue'[t].data[j] = IF j = op[c].key /\ op[c].seq > queue[t].data[j]
                                       THEN op[c].seq ELSE queue[t].data[j]
  <2> DEFINE d == queue[t].data
             u == Upd(d, op[c].key, op[c].seq)
  <2>1. /\ u[op[c].key] = IF op[c].seq > d[op[c].key] THEN op[c].seq ELSE d[op[c].key]
        /\ \A j \in Keys : j # op[c].key => u[j] = d[j]
    BY <1>1, <1>9, UpdFact
  <2>2. queue'[t].data = u
    BY <1>9
  <2> HIDE DEF u
  <2> QED BY <2>1, <2>2
<1>11. UNCHANGED <<At(arr), logSeqNum, op>>
  <2>1. UNCHANGED <<ats, arr, logSeqNum, op>>
    BY DEF Apply, diskVars
  <2> QED BY <2>1 DEF At
<1> QED
  BY <1>1, <1>2, <1>4, <1>5, <1>6, <1>7, <1>8, <1>10, <1>11

\* prepare changes no data.
LEMMA PrepareData ==
  ASSUME RInv, NEW c \in Clients, Prepare(c)
  PROVE  /\ Len(queue) \in Nat /\ Len(queue) > 0 /\ DOMAIN queue = 1..Len(queue)
         /\ DOMAIN queue' = DOMAIN queue
         /\ \A i \in DOMAIN queue : queue'[i].data = queue[i].data /\ queue'[i].mem = queue[i].mem
         /\ \A i \in DOMAIN queue : i # Len(queue) => queue'[i] = queue[i]
         /\ UNCHANGED <<At(arr), logSeqNum, latest>>
<1> USE DEF RInv, QInv
<1>1. queue # <<>> /\ Len(queue) \in Nat /\ Len(queue) > 0 /\ DOMAIN queue = 1..Len(queue)
  BY BusyFact DEF Prepare
<1>2. /\ queue' \in Seq(Table) /\ Len(queue') = Len(queue)
      /\ \A i \in 1..Len(queue) : queue'[i].data = queue[i].data /\ queue'[i].mem = queue[i].mem
      /\ \A i \in 1..Len(queue) : i # Len(queue) => queue'[i] = queue[i]
  BY <1>1, PrepareShape
<1>3. UNCHANGED <<At(arr), logSeqNum, latest>>
  <2>1. UNCHANGED <<ats, arr, logSeqNum, latest>>
    BY DEF Prepare, histVars
  <2> QED BY <2>1 DEF At
<1>4. queue' \in Seq(Table) /\ Len(queue') = Len(queue)
  BY <1>2
<1>5. DOMAIN queue' = DOMAIN queue
  BY ONLY <1>1, <1>4
<1> QED
  BY <1>1, <1>2, <1>3, <1>5
\* Between openings the queue is empty and only the array table counts.
LEMMA OpeningFact ==
  ASSUME RInv, Open \/ ReplayWAL
  PROVE  /\ queue' = <<>> /\ DOMAIN queue' = {} /\ UNCHANGED <<pc, op>>
         /\ \A d \in Clients : pc[d] = "idle"
         /\ status' = "replay" /\ flushPc' = "none"
         /\ logSeqNum' \in Nat /\ \A k \in Keys : At(arr)'[k] < logSeqNum'
<1> USE DEF RInv, QInv
<1>1. queue = <<>> /\ queue' = queue /\ UNCHANGED <<pc, op, flushPc>> /\ flushPc = "none"
      /\ status' = "replay" /\ \A d \in Clients : pc[d] = "idle"
  BY DEF Open, ReplayWAL, ModeInv, Live, clientVars, flushVars
<1>2. logSeqNum' \in Nat /\ \A k \in Keys : At(arr)'[k] < logSeqNum'
  <2>1. CASE Open
    <3>1. ats' = ats /\ logSeqNum' = meta.last + 1 /\ meta.last \in Nat
      BY <2>1, NumTypes DEF Open, diskVars
    <3>2. CASE meta.at \in DOMAIN ats
      <4>1. At(arr)' = ats[meta.at]
        BY <2>1, <3>1, <3>2 DEF Open, At
      <4>2. \A k \in Keys : ats[meta.at][k] <= meta.last /\ ats[meta.at][k] \in Nat
        BY <3>2 DEF MetaInv, AtsInv, Data
      <4> QED BY <3>1, <4>1, <4>2
    <3>3. CASE meta.at \notin DOMAIN ats
      <4>1. At(arr)' = Empty
        BY <2>1, <3>1, <3>3 DEF Open, At, AtsInv
      <4> QED BY <3>1, <4>1, EmptyFact
    <3> QED BY <3>2, <3>3
  <2>2. CASE ReplayWAL /\ UNCHANGED <<ats, arr, nextFileNum, logSeqNum, trash, lapse>>
    <3>1. At(arr)' = At(arr) /\ logSeqNum' = logSeqNum
      BY <2>2 DEF At
    <3> QED BY <3>1, NumTypes DEF OrderInv
  <2>3. CASE ReplayWAL /\ ~UNCHANGED <<ats, arr, nextFileNum, logSeqNum, trash, lapse>>
    <3>1. PICK v \in Data : /\ ats' = Put(ats, nextFileNum, v) /\ arr' = nextFileNum
                            /\ \A k \in Keys : v[k] < logSeqNum'
      BY <2>3, ReplayedFact
    <3>2. At(arr)' = v
      BY <3>1 DEF At, Put
    <3>3. logSeqNum' \in Nat
      BY <2>3, ReplaySeq
    <3> QED BY <3>1, <3>2, <3>3
  <2> QED BY <2>1, <2>2, <2>3
<1> QED
  BY <1>1, <1>2

\* The memtable newPlainDB starts with is empty, over what replayWAL left.
LEMMA OpenedFact ==
  ASSUME RInv, OpenDone
  PROVE  /\ DOMAIN queue' = {1} /\ \A k \in Keys : queue'[1].data[k] = 0
         /\ At(arr)' = At(arr) /\ latest' = At(arr)
         /\ UNCHANGED <<logSeqNum, pc, op, flushPc>> /\ flushPc = "none"
         /\ \A d \in Clients : pc[d] = "idle"
<1> USE DEF RInv, QInv
<1>1. /\ UNCHANGED <<ats, arr, logSeqNum, pc, op, flushPc>> /\ latest' = At(arr)
      /\ queue' = <<Mem(1, CurLog)>> /\ status = "recovered"
  BY DEF OpenDone, clientVars, flushVars
<1>2. DOMAIN queue' = {1} /\ queue'[1] = Mem(1, CurLog)
  BY <1>1
<1>3. queue'[1].data = Empty
  BY <1>2 DEF Mem
<1>4. At(arr)' = At(arr)
  BY <1>1 DEF At
<1> QED
  BY <1>1, <1>2, <1>3, <1>4, EmptyFact DEF ModeInv, Live

\* Tables stay in the order of their writes: a late batch goes to its own table, and
\* the array table never covers a newer write (flush1, commitApply, makeRoomForWrite).
LEMMA OrderStep ==
  ASSUME RInv, AtsInv', [Next]_vars
  PROVE  OrderInv'
<1> USE DEF RInv
<1>0. /\ \A k \in Keys : At(arr)[k] \in Nat
      /\ \A i \in DOMAIN queue : \A k \in Keys : queue[i].data[k] \in Nat
      /\ Len(queue) \in Nat /\ DOMAIN queue = 1..Len(queue) /\ logSeqNum \in Nat
  BY DataFact, NumTypes
<1>1. CASE Still
  BY <1>1, StillFact, OrderFrame
<1>2. CASE Ending
  <2>1. DOMAIN queue' = {} /\ logSeqNum' = 1 /\ \A k \in Keys : At(arr)'[k] = 0
    BY <1>2, EndingFact
  <2> QED BY <2>1 DEF OrderInv
<1>3. CASE FlushInstall
  <2>1. CASE queue' = queue /\ At(arr)' = At(arr)
    <3>1. logSeqNum' = logSeqNum
      BY <1>3 DEF FlushInstall
    <3> QED BY <1>0, <2>1, <3>1, OrderFrame
  <2> DEFINE a == Merge(SubSeq(queue, 1, fl.n), At(arr))
  <2>2. CASE /\ \A i \in DOMAIN queue' : i + fl.n \in DOMAIN queue /\ queue'[i] = queue[i + fl.n]
             /\ DOMAIN queue' = 1..Len(queue')
             /\ At(arr)' = a
    <3>1. fl.n \in Nat /\ fl.n < Len(queue) /\ flushPc = "install"
      BY <1>3, NumTypes DEF QInv, FlushInv, FlushInstall
    <3>2. \A k \in Keys : a[k] \in Nat /\ a[k] < logSeqNum
      BY <3>1, FlushedFact
    <3>3. \A k \in Keys : \A j \in 1..fl.n : j \in DOMAIN queue
      BY <1>0, <3>1
    <3>4. ASSUME NEW k \in Keys, NEW i \in DOMAIN queue'
          PROVE  queue'[i].data[k] = 0 \/ a[k] < queue'[i].data[k]
      <4>1. queue'[i].data[k] = queue[i + fl.n].data[k] /\ i + fl.n \in DOMAIN queue /\ i \in Nat /\ i > 0
        BY <2>2
      <4>2. \A j \in 1..fl.n : j < i + fl.n
        BY <3>1, <4>1
      <4>3. queue[i + fl.n].data[k] = 0 \/ (/\ At(arr)[k] < queue[i + fl.n].data[k]
                                           /\ \A j \in 1..fl.n : queue[j].data[k] < queue[i + fl.n].data[k])
        BY <3>3, <4>1, <4>2 DEF OrderInv
      <4> QED BY <1>0, <3>1, <4>1, <4>3, NewerThanFlushed
    <3> HIDE DEF a
    <3>5. ASSUME NEW k \in Keys, NEW i \in DOMAIN queue', NEW j \in DOMAIN queue', i < j
          PROVE  queue'[j].data[k] = 0 \/ queue'[i].data[k] < queue'[j].data[k]
      <4>1. i + fl.n < j + fl.n
        BY <2>2, <3>1, <3>5
      <4> QED BY <2>2, <4>1 DEF OrderInv
    <3>6. logSeqNum' = logSeqNum
      BY <1>3 DEF FlushInstall
    <3> QED BY <2>2, <3>2, <3>4, <3>5, <3>6 DEF OrderInv
  <2> QED BY <1>3, <2>1, <2>2, InstallFact
<1>4. CASE Open \/ ReplayWAL
  BY <1>4, OpeningFact DEF OrderInv
<1>5. CASE OpenDone
  <2>1. \A k \in Keys : At(arr)[k] < logSeqNum
    BY DEF OrderInv
  <2> QED BY <1>0, <1>5, <2>1, OpenedFact, NumTypes DEF OrderInv
<1>6. ASSUME NEW c \in Clients, Prepare(c) PROVE OrderInv'
  BY <1>0, <1>6, PrepareData, OrderFrame
<1>7. ASSUME NEW c \in Clients, SwitchMem(c) PROVE OrderInv'
  <2> DEFINE n == Len(queue)
             m == Len(queue')
             large == op[c].kind = "large"
             s == op[c].seq
  <2>1. /\ n \in Nat /\ n > 0 /\ DOMAIN queue = 1..n /\ m \in Nat /\ DOMAIN queue' = 1..m
        /\ m = IF large THEN n + 2 ELSE n + 1
        /\ \A i \in 1..n : queue'[i].data = queue[i].data
        /\ \A i \in 1..m : i > n =>
              \A k \in Keys : \/ queue'[i].data[k] = 0
                              \/ /\ large /\ k = op[c].key /\ i = n + 1
                                 /\ queue'[i].data[k] = s
        /\ large => s \in Nat /\ s > 0 /\ Making(c)
        /\ UNCHANGED <<At(arr), logSeqNum>>
    BY <1>7, SwitchData
  <2>2. large => /\ s < logSeqNum
                 /\ \A k \in Keys : At(arr)[k] < s /\ \A i \in DOMAIN queue : queue[i].data[k] < s
    BY <2>1 DEF HolderInv
  <2> HIDE DEF n, m, large, s
  <2>3. ASSUME NEW k \in Keys, NEW i \in 1..m
        PROVE  /\ queue'[i].data[k] < logSeqNum
               /\ queue'[i].data[k] = 0 \/ At(arr)[k] < queue'[i].data[k]
    <3>1. CASE i > n
      BY <1>0, <2>1, <2>2, <3>1, NumTypes
    <3>2. CASE ~(i > n)
      <4>1. i \in 1..n
        BY <2>1, <3>2
      <4> QED BY <2>1, <4>1 DEF OrderInv
    <3> QED BY <3>1, <3>2
  <2>4. ASSUME NEW k \in Keys, NEW i \in 1..m, NEW j \in 1..m, i < j
        PROVE  queue'[j].data[k] = 0 \/ queue'[i].data[k] < queue'[j].data[k]
    <3>1. CASE j > n
      <4>1. CASE i > n
        <5>1. i = n + 1 /\ j = n + 2
          BY <2>1, <2>4, <4>1
        <5>2. j # n + 1 /\ j > n
          BY <2>1, <5>1
        <5> QED BY <2>1, <5>2
      <4>2. CASE ~(i > n)
        <5>1. i \in 1..n
          BY <2>1, <4>2
        <5> QED BY <2>1, <2>2, <3>1, <5>1
      <4> QED BY <4>1, <4>2
    <3>2. CASE ~(j > n)
      <4>1. i \in 1..n /\ j \in 1..n
        BY <2>1, <2>4, <3>2
      <4> QED BY <2>1, <2>4, <4>1 DEF OrderInv
    <3> QED BY <3>1, <3>2
  <2>5. \A k \in Keys : At(arr)[k] < logSeqNum
    BY DEF OrderInv
  <2> QED BY <2>1, <2>3, <2>4, <2>5 DEF OrderInv
<1>8. ASSUME NEW c \in Clients, Apply(c) PROVE OrderInv'
  <2> DEFINE key == op[c].key
             s == op[c].seq
  <2>1. key \in Keys /\ s \in Nat /\ s > 0 /\ DOMAIN queue' = DOMAIN queue /\ UNCHANGED <<At(arr), logSeqNum>>
    BY <1>8, ApplyData
  <2>2. PICK t \in DOMAIN queue :
              /\ queue[t].mem = op[c].mem
              /\ \A i \in DOMAIN queue, j \in Keys :
                   queue'[i].data[j] = IF i = t /\ j = key /\ s > queue[t].data[j]
                                       THEN s ELSE queue[i].data[j]
    BY <1>8, ApplyData
  <2>3. /\ s < logSeqNum /\ At(arr)[key] < s
        /\ \A j \in DOMAIN queue : /\ j < t => queue[j].data[key] < s
                                   /\ t < j => queue[j].data[key] = 0 \/ s < queue[j].data[key]
    BY <1>8, <2>2 DEF PendingInv, Apply
  <2> HIDE DEF key, s
  <2>4. ASSUME NEW k \in Keys, NEW i \in DOMAIN queue
        PROVE  /\ queue'[i].data[k] < logSeqNum
               /\ queue'[i].data[k] = 0 \/ At(arr)[k] < queue'[i].data[k]
    BY <2>2, <2>3 DEF OrderInv
  <2>5. ASSUME NEW k \in Keys, NEW i \in DOMAIN queue, NEW j \in DOMAIN queue, i < j
        PROVE  queue'[j].data[k] = 0 \/ queue'[i].data[k] < queue'[j].data[k]
    <3>1. queue[j].data[k] = 0 \/ queue[i].data[k] < queue[j].data[k]
      BY <2>5 DEF OrderInv
    <3>2. CASE k # key \/ (i # t /\ j # t)
      BY <2>2, <3>1, <3>2
    <3>3. CASE k = key /\ i = t
      <4>1. j # t /\ queue'[j].data[k] = queue[j].data[k]
        BY <1>0, <2>2, <2>5, <3>3
      <4> QED BY <2>2, <2>3, <2>5, <3>1, <3>3, <4>1
    <3>4. CASE k = key /\ j = t
      <4>1. i # t /\ queue'[i].data[k] = queue[i].data[k]
        BY <1>0, <2>2, <2>5, <3>4
      <4>2. queue[i].data[k] < s
        BY <2>3, <2>5, <3>4
      <4>3. CASE s > queue[t].data[k]
        BY <2>2, <3>4, <4>1, <4>2, <4>3
      <4>4. CASE ~(s > queue[t].data[k])
        BY <2>2, <3>1, <3>4, <4>1, <4>4
      <4> QED BY <4>3, <4>4
    <3> QED BY <3>2, <3>3, <3>4
  <2>6. \A k \in Keys : At(arr)[k] < logSeqNum
    BY DEF OrderInv
  <2> QED BY <2>1, <2>4, <2>5, <2>6 DEF OrderInv
<1> QED
  BY <1>1, <1>2, <1>3, <1>4, <1>5, <1>6, <1>7, <1>8, StepKinds
\* The newest write applied is the one a reader finds (plainDB.Get), whatever is
\* switched, applied late or flushed meanwhile.
LEMMA LatestStep ==
  ASSUME RInv, AtsInv', [Next]_vars
  PROVE  LatestInv'
<1> USE DEF RInv
<1>0. /\ \A k \in Keys : At(arr)[k] \in Nat /\ latest[k] \in Nat
      /\ \A i \in DOMAIN queue : \A k \in Keys : queue[i].data[k] \in Nat
      /\ Len(queue) \in Nat /\ DOMAIN queue = 1..Len(queue) /\ latest \in Data
  BY DataFact
<1>1. CASE Still
  <2>1. Live' => Live
    BY <1>1 DEF Still, FlushStart, FlushNumber, FlushBuild, FlushDelete, FlushEnd, DeleteFile,
         SyncLog, Close, Recovered, Flush, SwitchLog, Ack, Set, vars, Live
  <2>2. queue' = queue /\ At(arr)' = At(arr) /\ latest' = latest
    BY <1>1, StillFact
  <2> QED BY <2>1, <2>2 DEF LatestInv, Top
<1>2. CASE Ending
  <2>1. status' = "closed"
    BY <1>2, EndingFact
  <2> QED BY <2>1 DEF LatestInv, Live
<1>3. CASE FlushInstall
  <2>0. latest' = latest /\ status' = status /\ flushPc = "install" /\ Live
    BY <1>3, FlushLive DEF FlushInstall, Live
  <2>1. CASE queue' = queue /\ At(arr)' = At(arr)
    BY <2>0, <2>1 DEF LatestInv, Top, Live
  <2> DEFINE a == Merge(SubSeq(queue, 1, fl.n), At(arr))
  <2>2. CASE /\ \A i \in DOMAIN queue' : i + fl.n \in DOMAIN queue /\ queue'[i] = queue[i + fl.n]
             /\ DOMAIN queue' = 1..Len(queue') /\ Len(queue') = Len(queue) - fl.n
             /\ At(arr)' = a
    <3>1. fl.n \in Nat /\ fl.n < Len(queue)
      BY <2>0, NumTypes DEF QInv, FlushInv
    <3>2. \A k \in Keys :
              \/ a[k] = At(arr)[k] /\ \A i \in 1..fl.n : queue[i].data[k] = 0
              \/ /\ a[k] # 0
                 /\ \E i \in 1..fl.n : queue[i].data[k] = a[k]
                 /\ \A i \in 1..fl.n : queue[i].data[k] <= a[k]
      BY <2>0, FlushedFact
    <3> HIDE DEF a
    <3>3. 1..fl.n \subseteq DOMAIN queue
      BY <1>0, <3>1
    <3>4. ASSUME NEW k \in Keys PROVE Top(queue', a, k, latest[k])
      <4>1. Top(queue, At(arr), k, latest[k])
        BY <2>0 DEF LatestInv
      <4>2. CASE latest[k] = At(arr)[k] /\ \A i \in DOMAIN queue : queue[i].data[k] = 0
        <5>1. a[k] = At(arr)[k]
          BY <3>2, <3>3, <4>2
        <5>2. \A i \in DOMAIN queue' : queue'[i].data[k] = 0
          BY <2>2, <4>2
        <5> QED BY <4>2, <5>1, <5>2 DEF Top
      <4>3. ASSUME latest[k] # 0, NEW t \in DOMAIN queue, queue[t].data[k] = latest[k],
                   \A j \in DOMAIN queue : t < j => queue[j].data[k] = 0
            PROVE  Top(queue', a, k, latest[k])
        <5>1. CASE t > fl.n
          <6> DEFINE u == t - fl.n
          <6>1. u \in DOMAIN queue' /\ u + fl.n = t
            BY <1>0, <2>2, <3>1, <5>1
          <6> HIDE DEF u
          <6>2. queue'[u].data[k] = latest[k]
            BY <2>2, <4>3, <6>1
          <6>3. \A j \in DOMAIN queue' : u < j => queue'[j].data[k] = 0
            <7> TAKE j \in DOMAIN queue'
            <7>1. u < j => t < j + fl.n
              BY <1>0, <2>2, <3>1, <6>1
            <7> QED BY <2>2, <4>3, <7>1
          <6> QED BY <4>3, <6>1, <6>2, <6>3 DEF Top
        <5>2. CASE ~(t > fl.n)
          <6>1. t \in 1..fl.n
            BY <1>0, <3>1, <5>2
          <6>2. \A i \in DOMAIN queue' : queue'[i].data[k] = 0
            <7> TAKE i \in DOMAIN queue'
            <7>1. t < i + fl.n
              BY <1>0, <2>2, <3>1, <6>1
            <7> QED BY <2>2, <4>3, <7>1
          <6>3. PICK i \in 1..fl.n : queue[i].data[k] = a[k] /\ a[k] # 0 /\ queue[t].data[k] <= a[k]
            BY <3>2, <4>3, <6>1
          <6>4. i = t
            <7>1. i \in DOMAIN queue
              BY <3>3
            <7>2. ~(t < i)
              BY <4>3, <6>3, <7>1
            <7>3. i < t => queue[t].data[k] = 0 \/ queue[i].data[k] < queue[t].data[k]
              BY <7>1, <4>3 DEF OrderInv
            <7>4. ~(i < t)
              BY <1>0, <4>3, <6>3, <7>1, <7>3
            <7> QED BY <3>1, <6>1, <7>2, <7>4
          <6> QED BY <4>3, <6>2, <6>3, <6>4 DEF Top
        <5> QED BY <5>1, <5>2
      <4> QED BY <4>1, <4>2, <4>3 DEF Top
    <3> QED BY <2>0, <2>2, <3>4 DEF LatestInv
  <2> QED BY <1>3, <2>1, <2>2, InstallFact
<1>4. CASE Open \/ ReplayWAL
  BY <1>4, OpeningFact DEF LatestInv, Live
<1>5. CASE OpenDone
  <2>1. /\ DOMAIN queue' = {1} /\ \A k \in Keys : queue'[1].data[k] = 0
        /\ At(arr)' = At(arr) /\ latest' = At(arr)
    BY <1>5, OpenedFact
  <2> QED BY <2>1 DEF LatestInv, Top
<1>6. ASSUME NEW c \in Clients, Prepare(c) PROVE LatestInv'
  <2>1. status' = status
    BY <1>6 DEF Prepare
  <2>2. /\ DOMAIN queue' = DOMAIN queue /\ UNCHANGED <<At(arr), latest>>
        /\ \A i \in DOMAIN queue : queue'[i].data = queue[i].data
    BY <1>6, PrepareData
  <2> QED BY <2>1, <2>2 DEF LatestInv, Top, Live
<1>7. ASSUME NEW c \in Clients, SwitchMem(c) PROVE LatestInv'
  <2> DEFINE n == Len(queue)
             m == Len(queue')
             large == op[c].kind = "large"
             key == op[c].key
             s == op[c].seq
  <2>1. /\ n \in Nat /\ n > 0 /\ DOMAIN queue = 1..n /\ m \in Nat /\ DOMAIN queue' = 1..m
        /\ m = IF large THEN n + 2 ELSE n + 1
        /\ \A i \in 1..n : queue'[i].data = queue[i].data
        /\ \A i \in 1..m : i > n =>
              \A k \in Keys : \/ queue'[i].data[k] = 0
                              \/ /\ large /\ k = key /\ i = n + 1
                                 /\ queue'[i].data[k] = s
        /\ large => /\ key \in Keys /\ s \in Nat /\ s > 0 /\ Making(c)
                    /\ queue'[n + 1].data[key] = s
        /\ UNCHANGED <<At(arr), logSeqNum>>
    BY <1>7, SwitchData
  <2>2. large => /\ s < logSeqNum
                 /\ \A k \in Keys : At(arr)[k] < s /\ \A i \in DOMAIN queue : queue[i].data[k] < s
    BY <2>1 DEF HolderInv
  <2>3. latest' = IF large THEN Upd(latest, key, s) ELSE latest
    BY <1>7 DEF SwitchMem
  <2>4. Live
    BY <1>7, BusyFact DEF SwitchMem, Live
  <2> HIDE DEF n, m, large, s, key
  <2>5. ASSUME NEW k \in Keys PROVE Top(queue', At(arr), k, latest'[k])
    <3>1. Top(queue, At(arr), k, latest[k])
      BY <2>4 DEF LatestInv
    <3>2. CASE large /\ k = key
      <4>1. latest[k] < s
        BY <2>2, <3>1, <3>2 DEF Top
      <4>2. latest'[k] = s
        BY <1>0, <2>1, <2>3, <3>2, <4>1, UpdFact
      <4>3. n + 1 \in DOMAIN queue' /\ queue'[n + 1].data[k] = s /\ s # 0
        BY <2>1, <3>2
      <4>4. \A j \in DOMAIN queue' : n + 1 < j => queue'[j].data[k] = 0
        <5> SUFFICES ASSUME NEW j \in DOMAIN queue', n + 1 < j PROVE queue'[j].data[k] = 0
          OBVIOUS
        <5>1. j > n /\ j # n + 1 /\ j \in 1..m
          BY <2>1
        <5> QED BY <2>1, <5>1
      <4> QED BY <4>2, <4>3, <4>4 DEF Top
    <3>3. CASE ~(large /\ k = key)
      <4>1. latest'[k] = latest[k]
        <5>0. large => latest \in Data /\ key \in Keys /\ s \in Nat
          BY <1>0, <2>1
        <5>1. large => \A j \in Keys : j # key => Upd(latest, key, s)[j] = latest[j]
          <6> SUFFICES ASSUME large, NEW j \in Keys, j # key
                       PROVE  Upd(latest, key, s)[j] = latest[j]
            OBVIOUS
          <6> HIDE DEF key, s, large
          <6> QED BY <5>0, UpdFact
        <5> QED BY <2>3, <3>3, <5>1
      <4>2. \A j \in DOMAIN queue' : \/ j \in DOMAIN queue /\ queue'[j].data[k] = queue[j].data[k]
                                     \/ j > n /\ queue'[j].data[k] = 0
        <5> TAKE j \in DOMAIN queue'
        <5>1. j > n \/ j \in 1..n
          BY <2>1
        <5> QED BY <2>1, <3>3, <5>1
      <4>3. \A j \in DOMAIN queue : j \in DOMAIN queue' /\ queue'[j].data[k] = queue[j].data[k]
        BY <2>1
      <4> QED BY <3>1, <4>1, <4>2, <4>3 DEF Top
    <3> QED BY <3>2, <3>3
  <2> QED BY <2>1, <2>5 DEF LatestInv
<1>8. ASSUME NEW c \in Clients, Apply(c) PROVE LatestInv'
  <2> DEFINE key == op[c].key
             s == op[c].seq
  <2>1. key \in Keys /\ s \in Nat /\ s > 0 /\ DOMAIN queue' = DOMAIN queue /\ UNCHANGED <<At(arr), logSeqNum>>
    BY <1>8, ApplyData
  <2>2. PICK t \in DOMAIN queue :
              /\ queue[t].mem = op[c].mem
              /\ \A i \in DOMAIN queue, j \in Keys :
                   queue'[i].data[j] = IF i = t /\ j = key /\ s > queue[t].data[j]
                                       THEN s ELSE queue[i].data[j]
    BY <1>8, ApplyData
  <2>3. /\ At(arr)[key] < s
        /\ \A j \in DOMAIN queue : /\ j < t => queue[j].data[key] < s
                                   /\ t < j => queue[j].data[key] = 0 \/ s < queue[j].data[key]
    BY <1>8, <2>2 DEF PendingInv, Apply
  <2>4. latest' = Upd(latest, key, s) /\ Live
    BY <1>8, BusyFact DEF Apply, Live
  <2> HIDE DEF key, s
  <2>5. ASSUME NEW k \in Keys PROVE Top(queue', At(arr), k, latest'[k])
    <3>1. Top(queue, At(arr), k, latest[k])
      BY <2>4 DEF LatestInv
    <3>2. CASE k # key
      <4>1. latest'[k] = latest[k] /\ \A i \in DOMAIN queue : queue'[i].data[k] = queue[i].data[k]
        <5>1. \A j \in Keys : j # key => Upd(latest, key, s)[j] = latest[j]
          BY <1>0, <2>1, UpdFact
        <5>2. latest'[k] = latest[k]
          BY <2>4, <3>2, <5>1
        <5> QED BY <2>2, <3>2, <5>2
      <4> QED BY <2>1, <3>1, <4>1 DEF Top
    <3>3. CASE k = key
      <4>1. latest'[k] = IF s > latest[k] THEN s ELSE latest[k]
        BY <1>0, <2>1, <2>4, <3>3, UpdFact
      <4>2. /\ queue'[t].data[k] = IF s > queue[t].data[k] THEN s ELSE queue[t].data[k]
            /\ \A i \in DOMAIN queue : i # t => queue'[i].data[k] = queue[i].data[k]
        BY <2>2, <3>3
      <4>3. CASE latest[k] = At(arr)[k] /\ \A i \in DOMAIN queue : queue[i].data[k] = 0
        <5>1. latest'[k] = s /\ queue'[t].data[k] = s
          BY <2>1, <2>3, <3>3, <4>1, <4>2, <4>3
        <5>2. \A j \in DOMAIN queue : t < j => queue'[j].data[k] = 0
          BY <1>0, <4>2, <4>3
        <5> QED BY <2>1, <5>1, <5>2 DEF Top
      <4>4. ASSUME latest[k] # 0, NEW u \in DOMAIN queue, queue[u].data[k] = latest[k],
                   \A j \in DOMAIN queue : u < j => queue[j].data[k] = 0
            PROVE  Top(queue', At(arr), k, latest'[k])
        <5>1. u < t \/ u = t \/ t < u
          BY <1>0
        <5>2. CASE u < t
          <6>1. queue[t].data[k] = 0 /\ latest[k] < s
            BY <2>3, <3>3, <4>4, <5>2
          <6>2. latest'[k] = s /\ queue'[t].data[k] = s
            BY <2>1, <4>1, <4>2, <6>1
          <6>3. \A j \in DOMAIN queue : t < j => u < j /\ j # t
            BY <1>0, <5>2
          <6>4. \A j \in DOMAIN queue : t < j => queue'[j].data[k] = 0
            BY <4>2, <4>4, <6>3
          <6> QED BY <2>1, <6>2, <6>4 DEF Top
        <5>3. CASE u = t
          <6>1. latest'[k] = queue'[t].data[k] /\ latest'[k] # 0
            BY <2>1, <4>1, <4>2, <4>4, <5>3
          <6>2. \A j \in DOMAIN queue : t < j => queue'[j].data[k] = 0
            BY <1>0, <4>2, <4>4, <5>3
          <6> QED BY <2>1, <6>1, <6>2 DEF Top
        <5>4. CASE t < u
          <6>1. s < latest[k] /\ u # t
            BY <1>0, <2>3, <3>3, <4>4, <5>4
          <6>2. latest'[k] = latest[k] /\ queue'[u].data[k] = latest[k]
            BY <1>0, <2>1, <4>1, <4>2, <4>4, <6>1
          <6>3. \A j \in DOMAIN queue : u < j => j # t
            BY <1>0, <5>4
          <6>4. \A j \in DOMAIN queue : u < j => queue'[j].data[k] = 0
            BY <4>2, <4>4, <6>3
          <6> QED BY <2>1, <4>4, <6>2, <6>4 DEF Top
        <5> QED BY <5>1, <5>2, <5>3, <5>4
      <4> QED BY <3>1, <4>3, <4>4 DEF Top
    <3> QED BY <3>2, <3>3
  <2> QED BY <2>1, <2>5 DEF LatestInv
<1> QED
  BY <1>1, <1>2, <1>3, <1>4, <1>5, <1>6, <1>7, <1>8, StepKinds
\* A client's operation.
LEMMA OpFact ==
  ASSUME QInv, NEW d \in Clients
  PROVE  /\ op[d].seq \in Nat /\ op[d].mem \in Nat /\ op[d].new \in Nat
         /\ pc[d] = "apply" => op[d].key \in Keys /\ op[d].mem > 0
BY DEF QInv, TypeInv, Op, OpInv

\* Only one client makes room.
LEMMA OneMaker ==
  ASSUME QInv, NEW c \in Clients, pc[c] \in {"room", "switch"}, NEW d \in Clients, Making(d)
  PROVE  d = c
BY DEF QInv, ModeInv, Making

\* A table with a writer is not one a flush has taken.
LEMMA WrittenFact ==
  ASSUME QInv, NEW c \in Clients, pc[c] = "apply", flushPc \in {"number", "build", "install"},
         NEW i \in DOMAIN queue, queue[i].mem = op[c].mem
  PROVE  i > fl.n
<1>1. IsFiniteSet(Writers(queue[i].mem)) /\ c \in Writers(queue[i].mem)
  <2>1. IsFiniteSet({d \in Clients : pc[d] = "apply"})
    BY DEF QInv, RefsInv
  <2>2. Writers(queue[i].mem) \subseteq {d \in Clients : pc[d] = "apply"}
    BY DEF Writers
  <2> QED BY <2>1, <2>2, FS_Subset DEF Writers
<1>2. Cardinality(Writers(queue[i].mem)) \in Nat /\ Cardinality(Writers(queue[i].mem)) # 0
  BY <1>1, FS_CardinalityType, FS_EmptySet
<1>3. queue[i].refs = Cardinality(Writers(queue[i].mem)) + (IF i = Len(queue) THEN 1 ELSE 0)
  BY DEF QInv, RefsInv
<1>4. queue[i].refs # 0
  BY <1>2, <1>3
<1>5. i \notin 1..fl.n
  BY <1>4 DEF QInv, FlushInv
<1>6. i \in Nat /\ i > 0
  BY DEF QInv, TypeInv
<1> QED
  BY <1>5, <1>6, NumTypes

\* The batches on their way stay between the tables before and behind theirs
\* (commitApply runs without the pipeline's mutex).
LEMMA PendingStep ==
  ASSUME RInv, AtsInv', [Next]_vars
  PROVE  PendingInv'
<1> USE DEF RInv
<1>0. /\ \A k \in Keys : At(arr)[k] \in Nat
      /\ \A i \in DOMAIN queue : \A k \in Keys : queue[i].data[k] \in Nat
      /\ Len(queue) \in Nat /\ DOMAIN queue = 1..Len(queue) /\ logSeqNum \in Nat
      /\ \A d \in Clients : op[d].seq \in Nat /\ op[d].mem \in Nat
      /\ \A i \in DOMAIN queue : queue[i].mem \in Nat
  BY DataFact, NumTypes, OpFact, EntryFact DEF QInv
<1>1. CASE Still
  <2>1. /\ queue' = queue /\ At(arr)' = At(arr)
        /\ logSeqNum' \in Nat /\ logSeqNum <= logSeqNum'
        /\ \A d \in Clients : pc'[d] = "apply" => pc[d] = "apply" /\ op'[d] = op[d]
    BY <1>1, StillFact
  <2>2. \A d \in Clients : pc[d] = "apply" => op[d].seq < logSeqNum'
    BY <1>0, <2>1 DEF PendingInv
  <2> QED BY <2>1, <2>2 DEF PendingInv
<1>2. CASE Ending
  <2>1. \A d \in Clients : pc'[d] = "idle"
    BY <1>2, EndingFact
  <2> QED BY <2>1 DEF PendingInv
<1>3. CASE FlushInstall
  <2>0. UNCHANGED <<pc, op, logSeqNum>> /\ flushPc = "install"
    BY <1>3 DEF FlushInstall, clientVars
  <2>1. CASE queue' = queue /\ At(arr)' = At(arr)
    BY <2>0, <2>1 DEF PendingInv
  <2> DEFINE a == Merge(SubSeq(queue, 1, fl.n), At(arr))
  <2>2. CASE /\ \A i \in DOMAIN queue' : i + fl.n \in DOMAIN queue /\ queue'[i] = queue[i + fl.n]
             /\ DOMAIN queue' = 1..Len(queue')
             /\ At(arr)' = a
    <3>1. fl.n \in Nat /\ fl.n < Len(queue)
      BY <2>0, NumTypes DEF QInv, FlushInv
    <3>2. 1..fl.n \subseteq DOMAIN queue
      BY <1>0, <3>1
    <3> SUFFICES ASSUME NEW c \in Clients, pc[c] = "apply"
                 PROVE  /\ op[c].seq < logSeqNum /\ a[op[c].key] < op[c].seq
                        /\ \A i, j \in DOMAIN queue' : queue'[i].mem = op[c].mem =>
                             /\ j < i => queue'[j].data[op[c].key] < op[c].seq
                             /\ i < j => queue'[j].data[op[c].key] = 0 \/ op[c].seq < queue'[j].data[op[c].key]
                        /\ \A d \in Clients : pc[d] = "apply" /\ op[c].mem < op[d].mem => op[c].seq < op[d].seq
      BY <2>0, <2>2 DEF PendingInv
    <3>3. /\ op[c].seq < logSeqNum
          /\ \A d \in Clients : pc[d] = "apply" /\ op[c].mem < op[d].mem => op[c].seq < op[d].seq
      BY DEF PendingInv
    <3>4. a[op[c].key] < op[c].seq
      <4>1. PICK t \in DOMAIN queue : queue[t].mem = op[c].mem
        BY DEF QInv, OpInv, InQueue
      <4>2. t > fl.n
        BY <2>0, <4>1, WrittenFact
      <4>3. \A j \in 1..fl.n : j \in DOMAIN queue /\ j < t
        BY <1>0, <3>1, <4>2
      <4>4. At(arr)[op[c].key] < op[c].seq /\ \A j \in 1..fl.n : queue[j].data[op[c].key] < op[c].seq
        BY <4>1, <4>3 DEF PendingInv
      <4>5. op[c].key \in Keys
        BY OpFact
      <4> QED BY <1>0, <2>0, <4>4, <4>5, NewerThanFlushed
    <3> HIDE DEF a
    <3>5. ASSUME NEW i \in DOMAIN queue', NEW j \in DOMAIN queue', queue'[i].mem = op[c].mem
          PROVE  /\ j < i => queue'[j].data[op[c].key] < op[c].seq
                 /\ i < j => queue'[j].data[op[c].key] = 0 \/ op[c].seq < queue'[j].data[op[c].key]
      <4>1. (j < i => j + fl.n < i + fl.n) /\ (i < j => i + fl.n < j + fl.n)
        BY <2>2, <3>1
      <4>2. queue[i + fl.n].mem = op[c].mem /\ i + fl.n \in DOMAIN queue /\ j + fl.n \in DOMAIN queue
        BY <2>2, <3>5
      <4>3. queue'[j] = queue[j + fl.n]
        BY <2>2
      <4> QED BY <4>1, <4>2, <4>3 DEF PendingInv
    <3> QED BY <3>3, <3>4, <3>5
  <2> QED BY <1>3, <2>1, <2>2, InstallFact
<1>4. CASE Open \/ ReplayWAL
  BY <1>4, OpeningFact DEF PendingInv
<1>5. CASE OpenDone
  BY <1>5, OpenedFact DEF PendingInv
<1>6. ASSUME NEW c \in Clients, Prepare(c) PROVE PendingInv'
  <2> DEFINE n == Len(queue)
  <2>1. /\ n \in Nat /\ n > 0 /\ DOMAIN queue = 1..n /\ DOMAIN queue' = DOMAIN queue
        /\ \A i \in DOMAIN queue : queue'[i].data = queue[i].data /\ queue'[i].mem = queue[i].mem
        /\ UNCHANGED <<At(arr), logSeqNum>>
    BY <1>6, PrepareData
  <2>2. Making(c) /\ op[c].key \in Keys
    BY <1>6 DEF Prepare, Making, QInv, OpInv
  <2>3. /\ op[c].seq < logSeqNum
        /\ \A k \in Keys : At(arr)[k] < op[c].seq /\ \A i \in DOMAIN queue : queue[i].data[k] < op[c].seq
        /\ \A d \in Clients : pc[d] = "apply" => op[d].seq < op[c].seq
    BY <2>2 DEF HolderInv
  <2>4. /\ op'[c].key = op[c].key /\ op'[c].seq = op[c].seq /\ op'[c].mem = queue[n].mem
        /\ \A d \in Clients : d # c => op'[d] = op[d] /\ (pc'[d] = "apply" => pc[d] = "apply")
    BY <1>6 DEF Prepare, QInv, TypeInv, Op, Mutable
  <2>5. queue[n].mem > 0 /\ n \in DOMAIN queue
    <3>1. queue # <<>>
      BY <2>1
    <3> QED BY <2>1, <3>1 DEF QInv, IdsInv, Mutable
  <2> HIDE DEF n
  <2>6. \A i \in DOMAIN queue : queue[i].mem = queue[n].mem => i = n
    <3> SUFFICES ASSUME NEW i \in DOMAIN queue, queue[i].mem = queue[n].mem, i # n PROVE FALSE
      OBVIOUS
    <3>1. i < n
      BY <2>1
    <3>2. queue[i].mem < queue[n].mem
      BY <2>5, <3>1, <1>0 DEF QInv, IdsInv
    <3> QED BY <1>0, <2>5, <3>2
  <2>7. \A d \in Clients : pc[d] = "apply" => ~(queue[n].mem < op[d].mem)
    <3> SUFFICES ASSUME NEW d \in Clients, pc[d] = "apply", queue[n].mem < op[d].mem PROVE FALSE
      OBVIOUS
    <3>1. PICK i \in DOMAIN queue : queue[i].mem = op[d].mem
      BY DEF QInv, OpInv, InQueue
    <3>2. i < n
      BY <1>0, <2>1, <2>5, <3>1
    <3>3. queue[i].mem < queue[n].mem
      BY <1>0, <2>5, <3>1, <3>2 DEF QInv, IdsInv
    <3> QED BY <1>0, <2>5, <3>1, <3>3
  <2>8. ASSUME NEW e \in Clients, pc'[e] = "apply"
        PROVE  LET k == op'[e].key
                   s == op'[e].seq IN
               /\ s < logSeqNum /\ At(arr)[k] < s
               /\ \A i, j \in DOMAIN queue : queue[i].mem = op'[e].mem =>
                    /\ j < i => queue[j].data[k] < s
                    /\ i < j => queue[j].data[k] = 0 \/ s < queue[j].data[k]
               /\ \A d \in Clients : pc'[d] = "apply" /\ op'[e].mem < op'[d].mem => s < op'[d].seq
    <3>1. CASE e = c
      <4>1. \A i, j \in DOMAIN queue : queue[i].mem = op'[e].mem => ~(i < j)
        BY <2>1, <2>4, <2>6, <3>1
      <4>2. \A d \in Clients : pc'[d] = "apply" => ~(op'[e].mem < op'[d].mem)
        <5> TAKE d \in Clients
        <5>1. CASE d = c
          BY <1>0, <2>4, <2>5, <3>1, <5>1
        <5>2. CASE d # c
          BY <2>4, <2>7, <3>1, <5>2
        <5> QED BY <5>1, <5>2
      <4> QED BY <2>2, <2>3, <2>4, <3>1, <4>1, <4>2
    <3>2. CASE e # c
      <4>1. pc[e] = "apply" /\ op'[e] = op[e]
        BY <2>4, <2>8, <3>2
      <4>2. \A d \in Clients : pc'[d] = "apply" /\ op[e].mem < op'[d].mem => op[e].seq < op'[d].seq
        <5> TAKE d \in Clients
        <5>1. CASE d = c
          BY <2>3, <2>4, <4>1, <5>1
        <5>2. CASE d # c
          BY <2>4, <4>1, <5>2 DEF PendingInv
        <5> QED BY <5>1, <5>2
      <4> QED BY <4>1, <4>2 DEF PendingInv
    <3> QED BY <3>1, <3>2
  <2> QED BY <2>1, <2>8 DEF PendingInv
<1>7. ASSUME NEW c \in Clients, SwitchMem(c) PROVE PendingInv'
  <2> DEFINE n == Len(queue)
             m == Len(queue')
             large == op[c].kind = "large"
             s == op[c].seq
  <2>1. /\ n \in Nat /\ n > 0 /\ DOMAIN queue = 1..n /\ m \in Nat /\ DOMAIN queue' = 1..m
        /\ m = IF large THEN n + 2 ELSE n + 1
        /\ \A i \in 1..n : queue'[i].data = queue[i].data /\ queue'[i].mem = queue[i].mem
        /\ \A i \in 1..m : i > n =>
              /\ queue'[i].mem = 0 \/ queue'[i].mem = queue[n].mem + 1
              /\ \A k \in Keys : \/ queue'[i].data[k] = 0
                                 \/ large /\ queue'[i].data[k] = s
        /\ large => s \in Nat /\ s > 0 /\ Making(c)
        /\ UNCHANGED <<At(arr), logSeqNum, op>>
    BY <1>7, SwitchData
  <2>2. large => \A d \in Clients : pc[d] = "apply" => op[d].seq < s
    BY <2>1 DEF HolderInv
  <2>3. \A d \in Clients : pc'[d] = "apply" <=> pc[d] = "apply"
    <3>1. op[c].kind \in {"small", "large", "flush"}
      BY <1>7 DEF SwitchMem, QInv, OpInv, TypeInv, Op, Kinds
    <3> QED BY <1>7, <3>1 DEF SwitchMem, QInv, TypeInv
  <2> HIDE DEF n, m, large, s
  <2>4. ASSUME NEW e \in Clients, pc[e] = "apply", NEW i \in 1..m, NEW j \in 1..m,
               queue'[i].mem = op[e].mem
        PROVE  /\ j < i => queue'[j].data[op[e].key] < op[e].seq
               /\ i < j => queue'[j].data[op[e].key] = 0 \/ op[e].seq < queue'[j].data[op[e].key]
    <3>0. op[e].key \in Keys /\ op[e].mem > 0 /\ op[e].mem \in Nat
      BY <2>4, OpFact
    <3>1. PICK t \in DOMAIN queue : queue[t].mem = op[e].mem
      BY <2>4 DEF QInv, OpInv, InQueue
    <3>2. t = n \/ queue[t].mem < queue[n].mem
      <4>1. n \in DOMAIN queue /\ (t # n => t < n)
        BY <2>1
      <4>2. queue[n].mem > 0
        <5>1. queue # <<>>
          BY <2>1
        <5> QED BY <5>1 DEF QInv, IdsInv, Mutable, n
      <4> QED BY <1>0, <3>0, <3>1, <4>1, <4>2 DEF QInv, IdsInv
    <3>3. op[e].mem # queue[n].mem + 1
      <4>1. queue[n].mem \in Nat
        BY <1>0, <2>1
      <4> QED BY <3>0, <3>1, <3>2, <4>1
    <3>4. i \in 1..n
      BY <2>1, <2>4, <3>0, <3>3
    <3>5. CASE j \in 1..n
      BY <2>1, <2>4, <3>4, <3>5 DEF PendingInv
    <3>6. CASE j \notin 1..n
      <4>1. j > n /\ ~(j < i)
        BY <2>1, <3>4, <3>6
      <4> QED BY <2>1, <2>2, <2>4, <3>0, <4>1
    <3> QED BY <3>5, <3>6
  <2>5. \A e \in Clients : pc[e] = "apply" =>
          /\ op[e].seq < logSeqNum /\ At(arr)[op[e].key] < op[e].seq
          /\ \A d \in Clients : pc[d] = "apply" /\ op[e].mem < op[d].mem => op[e].seq < op[d].seq
    BY DEF PendingInv
  <2> QED BY <2>1, <2>3, <2>4, <2>5 DEF PendingInv
<1>8. ASSUME NEW c \in Clients, Apply(c) PROVE PendingInv'
  <2> DEFINE key == op[c].key
             s == op[c].seq
  <2>1. key \in Keys /\ s \in Nat /\ s > 0 /\ DOMAIN queue' = DOMAIN queue /\ UNCHANGED <<At(arr), logSeqNum, op>>
        /\ \A i \in DOMAIN queue : queue'[i].mem = queue[i].mem
    BY <1>8, ApplyData
  <2>2. PICK t \in DOMAIN queue :
              /\ queue[t].mem = op[c].mem
              /\ \A i \in DOMAIN queue, j \in Keys :
                   queue'[i].data[j] = IF i = t /\ j = key /\ s > queue[t].data[j]
                                       THEN s ELSE queue[i].data[j]
    BY <1>8, ApplyData
  <2>3. pc[c] = "apply" /\ \A d \in Clients : pc'[d] = "apply" => pc[d] = "apply"
    BY <1>8 DEF Apply, QInv, TypeInv
  <2> HIDE DEF key, s
  <2>4. ASSUME NEW e \in Clients, pc[e] = "apply", NEW i \in DOMAIN queue, NEW j \in DOMAIN queue,
               queue[i].mem = op[e].mem
        PROVE  /\ j < i => queue'[j].data[op[e].key] < op[e].seq
               /\ i < j => queue'[j].data[op[e].key] = 0 \/ op[e].seq < queue'[j].data[op[e].key]
    <3>1. /\ j < i => queue[j].data[op[e].key] < op[e].seq
          /\ i < j => queue[j].data[op[e].key] = 0 \/ op[e].seq < queue[j].data[op[e].key]
      BY <2>4 DEF PendingInv
    <3>2. op[e].key \in Keys /\ op[e].mem > 0 /\ op[c].mem > 0
      BY <2>3, <2>4, OpFact
    <3>3. CASE queue'[j].data[op[e].key] = queue[j].data[op[e].key]
      BY <3>1, <3>3
    <3>4. CASE j = t /\ queue'[j].data[op[e].key] = s
      <4>1. j < i => op[c].mem < op[e].mem
        BY <2>2, <2>4, <3>2, <3>4, <1>0 DEF QInv, IdsInv
      <4>2. i < j => op[e].mem < op[c].mem
        BY <2>2, <2>4, <3>2, <3>4, <1>0 DEF QInv, IdsInv
      <4>3. j < i => s < op[e].seq
        BY <2>3, <2>4, <4>1 DEF PendingInv, s
      <4>4. i < j => op[e].seq < s
        BY <2>3, <2>4, <4>2 DEF PendingInv, s
      <4> QED BY <3>4, <4>3, <4>4
    <3> QED BY <2>2, <3>2, <3>3, <3>4
  <2>5. \A e \in Clients : pc[e] = "apply" =>
          /\ op[e].seq < logSeqNum /\ At(arr)[op[e].key] < op[e].seq
          /\ \A d \in Clients : pc[d] = "apply" /\ op[e].mem < op[d].mem => op[e].seq < op[d].seq
    BY DEF PendingInv
  <2> QED BY <2>1, <2>3, <2>4, <2>5 DEF PendingInv
<1> QED
  BY <1>1, <1>2, <1>3, <1>4, <1>5, <1>6, <1>7, <1>8, StepKinds
\* Whoever makes room for a write keeps the newest one: the pipeline's mutex lets
\* nobody take a sequence number meanwhile (Commit, makeRoomForWrite).
LEMMA HolderStep ==
  ASSUME RInv, AtsInv', [Next]_vars
  PROVE  HolderInv'
<1> USE DEF RInv
<1>0. /\ \A k \in Keys : At(arr)[k] \in Nat
      /\ \A i \in DOMAIN queue : \A k \in Keys : queue[i].data[k] \in Nat
      /\ Len(queue) \in Nat /\ DOMAIN queue = 1..Len(queue) /\ logSeqNum \in Nat
      /\ \A d \in Clients : op[d].seq \in Nat /\ op[d].mem \in Nat
  BY DataFact, NumTypes, OpFact
<1>a. pc \in [Clients -> ClientPcs] /\ op \in [Clients -> Op]
  BY DEF QInv, TypeInv
<1>1. CASE Still
  <2>1. /\ queue' = queue /\ At(arr)' = At(arr)
        /\ logSeqNum' \in Nat /\ logSeqNum <= logSeqNum'
        /\ \A d \in Clients : pc'[d] = "apply" => pc[d] = "apply" /\ op'[d] = op[d]
    BY <1>1, StillFact
  <2>2. CASE \A d \in Clients : Making(d)' => Making(d) /\ op'[d].seq = op[d].seq
    <3>1. \A d \in Clients : Making(d) => op[d].seq < logSeqNum'
      BY <1>0, <2>1 DEF HolderInv
    <3> QED BY <2>1, <2>2, <3>1 DEF HolderInv
  <2>3. ASSUME NEW c \in Clients, NEW k \in Keys, Set(c, k) PROVE HolderInv'
    <3>1. op'[c].seq = logSeqNum /\ logSeqNum' = logSeqNum + 1 /\ pc'[c] = "room"
      BY <1>a, <2>3 DEF Set, NoOp
    <3>2. \A d \in Clients : Making(d)' => d = c
      <4>1. \A d \in Clients : d # c => pc'[d] = pc[d] /\ pc[d] \notin {"room", "switch"}
        BY <1>a, <2>3, ClientsAssumption DEF Set, QInv, ModeInv
      <4> QED BY <4>1 DEF Making
    <3>3. /\ \A j \in Keys : At(arr)[j] < logSeqNum /\ \A i \in DOMAIN queue : queue[i].data[j] < logSeqNum
          /\ \A d \in Clients : pc[d] = "apply" => op[d].seq < logSeqNum
      BY DEF OrderInv, PendingInv
    <3>4. logSeqNum < logSeqNum'
      BY <1>0, <3>1
    <3> QED BY <2>1, <3>1, <3>2, <3>3, <3>4 DEF HolderInv
  <2>4. ASSUME NEW c \in Clients, Flush(c) \/ SwitchLog(c) \/ Ack(c), NEW d \in Clients, Making(d)'
        PROVE  Making(d) /\ op'[d].seq = op[d].seq
    <3>1. CASE d # c
      BY <1>a, <2>4, <3>1 DEF Flush, SwitchLog, Ack, Making
    <3>2. CASE d = c
      <4>1. CASE Flush(c)
        <5>1. op'[c].kind = "flush"
          BY <1>a, <4>1 DEF Flush, NoOp
        <5> QED BY <2>4, <3>2, <5>1 DEF Making
      <4>2. CASE Ack(c)
        <5>1. pc'[c] = "idle"
          BY <1>a, <4>2 DEF Ack
        <5> QED BY <2>4, <3>2, <5>1 DEF Making
      <4>3. CASE SwitchLog(c)
        <5>1. op'[c].kind = op[c].kind /\ op'[c].seq = op[c].seq /\ pc[c] = "room"
          BY <1>a, <4>3 DEF SwitchLog, Op
        <5> QED BY <2>4, <3>2, <5>1 DEF Making
      <4> QED BY <2>4, <4>1, <4>2, <4>3
    <3> QED BY <3>1, <3>2
  <2>5. CASE FlushEnd
    <3>1. \A d \in Clients : Making(d)' => Making(d) /\ op'[d].seq = op[d].seq
      BY <2>5 DEF FlushEnd, Making
    <3> QED BY <2>2, <3>1
  <2>6. CASE UNCHANGED <<pc, op>>
    <3>1. \A d \in Clients : Making(d)' => Making(d) /\ op'[d].seq = op[d].seq
      BY <2>6 DEF Making
    <3> QED BY <2>2, <3>1
  <2>7. CASE \E c \in Clients : Flush(c) \/ SwitchLog(c) \/ Ack(c)
    BY <2>2, <2>4, <2>7
  <2> QED BY <1>1, <2>3, <2>5, <2>6, <2>7 DEF Still, FlushStart, FlushNumber, FlushBuild, FlushDelete, DeleteFile,
         SyncLog, Close, Recovered, vars, clientVars
<1>2. CASE Ending
  <2>1. \A d \in Clients : pc'[d] = "idle"
    BY <1>2, EndingFact
  <2> QED BY <2>1 DEF HolderInv, Making
<1>3. CASE FlushInstall
  <2>0. UNCHANGED <<pc, op, logSeqNum>> /\ flushPc = "install"
    BY <1>3 DEF FlushInstall, clientVars
  <2>1. CASE queue' = queue /\ At(arr)' = At(arr)
    BY <2>0, <2>1 DEF HolderInv, Making
  <2> DEFINE a == Merge(SubSeq(queue, 1, fl.n), At(arr))
  <2>2. CASE /\ \A i \in DOMAIN queue' : i + fl.n \in DOMAIN queue /\ queue'[i] = queue[i + fl.n]
             /\ At(arr)' = a
    <3>1. fl.n \in Nat /\ fl.n < Len(queue)
      BY <2>0, NumTypes DEF QInv, FlushInv
    <3>2. 1..fl.n \subseteq DOMAIN queue
      BY <1>0, <3>1
    <3>3. ASSUME NEW c \in Clients, Making(c), NEW k \in Keys
          PROVE  a[k] < op[c].seq /\ \A i \in DOMAIN queue' : queue'[i].data[k] < op[c].seq
      <4>1. At(arr)[k] < op[c].seq /\ \A i \in DOMAIN queue : queue[i].data[k] < op[c].seq
        BY <3>3 DEF HolderInv
      <4>2. \A i \in 1..fl.n : queue[i].data[k] < op[c].seq
        BY <3>2, <4>1
      <4>3. a[k] < op[c].seq
        BY <1>0, <2>0, <4>1, <4>2, NewerThanFlushed
      <4> QED BY <2>2, <4>1, <4>3
    <3> HIDE DEF a
    <3> QED BY <2>0, <2>2, <3>3 DEF HolderInv, Making
  <2> QED BY <1>3, <2>1, <2>2, InstallFact
<1>4. CASE Open \/ ReplayWAL
  BY <1>4, OpeningFact DEF HolderInv, Making
<1>5. CASE OpenDone
  BY <1>5, OpenedFact DEF HolderInv, Making
<1>6. ASSUME NEW c \in Clients, Prepare(c) PROVE HolderInv'
  <2>1. pc'[c] = "apply" /\ pc[c] = "room"
    BY <1>6, <1>a DEF Prepare
  <2>2. \A d \in Clients : d # c => pc'[d] = pc[d] /\ op'[d] = op[d]
    BY <1>6, <1>a DEF Prepare
  <2>3. \A d \in Clients : ~Making(d)'
    <3> SUFFICES ASSUME NEW d \in Clients, Making(d)' PROVE FALSE
      OBVIOUS
    <3>1. d # c
      BY <2>1 DEF Making
    <3>2. Making(d)
      BY <2>2, <3>1 DEF Making
    <3> QED BY <2>1, <3>1, <3>2, OneMaker
  <2> QED BY <2>3 DEF HolderInv
<1>7. ASSUME NEW c \in Clients, SwitchMem(c) PROVE HolderInv'
  <2>0. op' = op /\ pc[c] = "switch" /\ op[c].kind \in {"small", "large", "flush"}
    BY <1>7, <1>a DEF SwitchMem, QInv, OpInv, Op, Kinds
  <2>1. \A d \in Clients : d # c => pc'[d] = pc[d]
    BY <1>7, <1>a DEF SwitchMem
  <2>2. op[c].kind # "small" => pc'[c] \notin {"room", "switch"}
    BY <1>7, <1>a, <2>0 DEF SwitchMem
  <2>3. \A d \in Clients : Making(d)' => d = c /\ Making(d) /\ op[c].kind = "small"
    <3> SUFFICES ASSUME NEW d \in Clients, Making(d)' PROVE d = c /\ Making(d) /\ op[c].kind = "small"
      OBVIOUS
    <3>1. d = c
      <4> SUFFICES ASSUME d # c PROVE FALSE
        OBVIOUS
      <4>1. Making(d)
        BY <2>0, <2>1 DEF Making
      <4> QED BY <2>0, <4>1, OneMaker
    <3> QED BY <2>0, <2>2, <3>1 DEF Making
  <2> DEFINE n == Len(queue)
             m == Len(queue')
             large == op[c].kind = "large"
  <2>4. /\ n \in Nat /\ DOMAIN queue = 1..n /\ m \in Nat /\ DOMAIN queue' = 1..m
        /\ \A i \in 1..n : queue'[i].data = queue[i].data
        /\ \A i \in 1..m : i > n => \A k \in Keys : queue'[i].data[k] = 0 \/ large
        /\ UNCHANGED <<At(arr), logSeqNum>>
    BY <1>7, SwitchData
  <2>5. \A d \in Clients : pc'[d] = "apply" <=> pc[d] = "apply"
    BY <1>7, <1>a, <2>0 DEF SwitchMem
  <2>6. op[c].kind = "small" => op[c].seq > 0
    BY <2>0 DEF QInv, OpInv
  <2> HIDE DEF n, m
  <2>7. ASSUME Making(c), op[c].kind = "small", NEW k \in Keys, NEW i \in 1..m
        PROVE  queue'[i].data[k] < op[c].seq
    <3>1. CASE i > n
      BY <2>4, <2>6, <2>7, <3>1
    <3>2. CASE ~(i > n)
      <4>1. i \in 1..n
        BY <2>4, <3>2
      <4> QED BY <2>4, <2>7, <4>1 DEF HolderInv
    <3> QED BY <3>1, <3>2
  <2>8. Making(c) => /\ op[c].seq < logSeqNum /\ \A k \in Keys : At(arr)[k] < op[c].seq
                     /\ \A d \in Clients : pc[d] = "apply" => op[d].seq < op[c].seq
    BY DEF HolderInv
  <2> QED BY <2>0, <2>3, <2>4, <2>5, <2>7, <2>8 DEF HolderInv
<1>8. ASSUME NEW c \in Clients, Apply(c) PROVE HolderInv'
  <2>1. DOMAIN queue' = DOMAIN queue /\ UNCHANGED <<At(arr), logSeqNum, op>>
    BY <1>8, ApplyData
  <2>2. \A i \in DOMAIN queue, j \in Keys : queue'[i].data[j] = op[c].seq \/ queue'[i].data[j] = queue[i].data[j]
    BY <1>8, ApplyData
  <2>3. pc[c] = "apply" /\ \A d \in Clients : pc'[d] = "apply" => pc[d] = "apply"
    BY <1>8, <1>a DEF Apply
  <2>4. \A d \in Clients : Making(d)' => Making(d)
    BY <1>8, <1>a DEF Apply, Making
  <2>5. ASSUME NEW d \in Clients, Making(d), NEW k \in Keys, NEW i \in DOMAIN queue
        PROVE  queue'[i].data[k] < op[d].seq
    BY <2>2, <2>3, <2>5 DEF HolderInv
  <2> QED BY <2>1, <2>3, <2>4, <2>5 DEF HolderInv
<1> QED
  BY <1>1, <1>2, <1>3, <1>4, <1>5, <1>6, <1>7, <1>8, StepKinds

\* The array table a flush builds stays what the tables it has taken amount to:
\* nobody writes to them, and no other array table is put in its place.
LEMMA InstallStep ==
  ASSUME RInv, AtsInv', [Next]_vars
  PROVE  InstallInv'
<1> USE DEF RInv
<1>0. Len(queue) \in Nat /\ DOMAIN queue = 1..Len(queue) /\ fl.n \in Nat /\ queue \in Seq(Table)
  BY DataFact, NumTypes
<1>1. ASSUME flushPc = "install", fl' = fl, At(arr)' = At(arr),
             fl.num \in DOMAIN ats', ats'[fl.num] = ats[fl.num],
             queue' \in Seq(Table), Len(queue') >= Len(queue),
             \A i \in 1..fl.n : queue'[i] = queue[i]
      PROVE  InstallInv'
  <2>1. fl.n < Len(queue)
    BY <1>1 DEF QInv, FlushInv
  <2>2. SubSeq(queue', 1, fl.n) = SubSeq(queue, 1, fl.n)
    <3>1. Len(queue') \in Nat /\ fl.n < Len(queue')
      BY <1>0, <1>1, <2>1
    <3>2. SubSeq(queue', 1, fl.n) = [i \in 1..fl.n |-> queue'[i]]
      BY <1>0, <1>1, <3>1
    <3>3. SubSeq(queue, 1, fl.n) = [i \in 1..fl.n |-> queue[i]]
      BY <1>0, <2>1
    <3> QED BY <1>1, <3>2, <3>3
  <2>3. ats[fl.num] = Merge(SubSeq(queue, 1, fl.n), At(arr))
    BY <1>1 DEF InstallInv
  <2>4. Merge(SubSeq(queue, 1, fl.n), At(arr))' = Merge(SubSeq(queue, 1, fl.n), At(arr))
    <3>1. SubSeq(queue, 1, fl.n)' = SubSeq(queue, 1, fl.n)
      BY <1>1, <2>2
    <3> QED BY <1>1, <3>1
  <2> QED BY <1>1, <2>3, <2>4 DEF InstallInv
<1>2. CASE FlushBuild
  <2>1. ats' = Put(ats, fl.num, Merge(SubSeq(queue, 1, fl.n), At(arr))) /\ queue' = queue /\ fl' = fl
    BY <1>2 DEF FlushBuild
  <2>2. At(arr)' = At(arr)
    BY <1>2, StillFact DEF Still
  <2>3. PICK v : v = Merge(SubSeq(queue, 1, fl.n), At(arr)) /\ ats' = Put(ats, fl.num, v)
    BY <2>1
  <2>4. fl.num \in DOMAIN ats' /\ ats'[fl.num] = v
    BY <2>3 DEF Put
  <2>5. Merge(SubSeq(queue, 1, fl.n), At(arr))' = v
    BY <2>1, <2>2, <2>3 DEF Merge
  <2> QED BY <2>1, <2>4, <2>5 DEF InstallInv
<1>3. CASE DeleteFile
  <2>1. PICK t \in trash : ats' = IF t[1] = "at" THEN Drop(ats, {t[2]}) ELSE ats
    BY <1>3 DEF DeleteFile
  <2>2. UNCHANGED <<queue, fl, flushPc>>
    BY <1>3 DEF DeleteFile, flushVars
  <2>3. CASE flushPc = "install"
    <3>1. t[1] = "at" => t[2] # fl.num
      BY <2>3, NumTypes DEF TrashInv
    <3>2. fl.num \in DOMAIN ats
      BY <2>3 DEF InstallInv
    <3>3. fl.num \in DOMAIN ats' /\ ats'[fl.num] = ats[fl.num]
      BY <2>1, <3>1, <3>2 DEF Drop
    <3>4. At(arr)' = At(arr)
      BY <1>3, StillFact DEF Still
    <3> QED BY <1>0, <1>1, <2>2, <2>3, <3>3, <3>4
  <2> QED BY <2>2, <2>3 DEF InstallInv
<1>4. CASE Still /\ ~FlushBuild /\ ~DeleteFile
  <2>1. queue' = queue /\ At(arr)' = At(arr)
    BY <1>4, StillFact
  <2>2. ats' = ats
    BY <1>4 DEF Still, FlushStart, FlushNumber, FlushDelete, FlushEnd,
           SyncLog, Close, Recovered, Flush, SwitchLog, Ack, Set, vars, diskVars
  <2>3. flushPc' = "install" => flushPc = "install" /\ fl' = fl
    <3>1. CASE FlushStart \/ FlushEnd
      BY <3>1, NewFlush DEF FlushStart, FlushEnd
    <3>2. CASE ~FlushStart /\ ~FlushEnd
      BY <1>4, <3>2 DEF Still, FlushNumber, FlushDelete,
           SyncLog, Close, Recovered, Flush, SwitchLog, Ack, Set, vars, flushVars
    <3> QED BY <3>1, <3>2
  <2>4. CASE flushPc' = "install"
    <3>1. fl.num \in DOMAIN ats
      BY <2>3, <2>4 DEF InstallInv
    <3> QED BY <1>0, <1>1, <2>1, <2>2, <2>3, <2>4, <3>1
  <2> QED BY <2>4 DEF InstallInv
<1>5. CASE Ending
  BY <1>5, EndingFact DEF InstallInv
<1>6. CASE FlushInstall
  BY <1>6 DEF FlushInstall, InstallInv
<1>7. CASE Open \/ ReplayWAL
  BY <1>7, OpeningFact DEF InstallInv
<1>8. CASE OpenDone
  BY <1>8, OpenedFact DEF InstallInv
<1>9. ASSUME NEW c \in Clients, Prepare(c) PROVE InstallInv'
  <2>1. UNCHANGED <<ats, fl, flushPc>>
    BY <1>9 DEF Prepare, flushVars
  <2>2. CASE flushPc = "install"
    <3>1. /\ \A i \in DOMAIN queue : i # Len(queue) => queue'[i] = queue[i]
          /\ At(arr)' = At(arr) /\ Len(queue) > 0
      BY <1>9, PrepareData
    <3>2. queue # <<>>
      BY <3>1
    <3>3. queue' \in Seq(Table) /\ Len(queue') = Len(queue)
      BY <1>9, <3>2, PrepareShape DEF QInv
    <3>a. fl.n < Len(queue)
      BY <2>2 DEF QInv, FlushInv
    <3>4. \A i \in 1..fl.n : i \in DOMAIN queue /\ i # Len(queue)
      <4> DEFINE n == Len(queue)
                 m == fl.n
      <4>1. n \in Nat /\ m \in Nat /\ m < n /\ DOMAIN queue = 1..n
        BY <1>0, <3>a
      <4> HIDE DEF n, m
      <4>2. \A i \in 1..m : i \in 1..n /\ i # n
        BY <4>1
      <4> QED BY <4>1, <4>2 DEF n, m
    <3>6. Len(queue') >= Len(queue)
      BY <1>0, <3>3
    <3>5. fl.num \in DOMAIN ats
      BY <2>2 DEF InstallInv
    <3> QED BY <1>1, <2>1, <2>2, <3>1, <3>3, <3>4, <3>5, <3>6
  <2> QED BY <2>1, <2>2 DEF InstallInv
<1>10. ASSUME NEW c \in Clients, SwitchMem(c) PROVE InstallInv'
  <2>1. UNCHANGED <<ats, fl>>
    BY <1>10 DEF SwitchMem
  <2>2. CASE flushPc' = "install"
    <3>0. flushPc = "install"
      BY <1>10, <2>2, ScheduleFact DEF SwitchMem, QInv, TypeInv
    <3>1. /\ \A i \in 1..Len(queue) : Len(queue) # i => queue'[i] = queue[i]
          /\ At(arr)' = At(arr) /\ Len(queue) > 0
      BY <1>10, SwitchData
    <3>2. queue # <<>>
      BY <3>1
    <3>3. queue' \in Seq(Table) /\ Len(queue') >= Len(queue)
      <4>1. queue' \in Seq(Table) /\ Len(queue') = IF op[c].kind = "large" THEN Len(queue) + 2 ELSE Len(queue) + 1
        BY <1>10, <3>2, SwitchShape DEF QInv
      <4> QED BY <1>0, <4>1
    <3>a. fl.n < Len(queue)
      BY <3>0 DEF QInv, FlushInv
    <3>4. \A i \in 1..fl.n : i \in 1..Len(queue) /\ Len(queue) # i
      <4> DEFINE n == Len(queue)
                 m == fl.n
      <4>1. n \in Nat /\ m \in Nat /\ m < n /\ DOMAIN queue = 1..n
        BY <1>0, <3>a
      <4> HIDE DEF n, m
      <4>2. \A i \in 1..m : i \in 1..n /\ i # n
        BY <4>1
      <4> QED BY <4>1, <4>2 DEF n, m
    <3>5. fl.num \in DOMAIN ats
      BY <3>0 DEF InstallInv
    <3> QED BY <1>1, <2>1, <3>0, <3>1, <3>3, <3>4, <3>5
  <2> QED BY <2>2 DEF InstallInv
<1>11. ASSUME NEW c \in Clients, Apply(c) PROVE InstallInv'
  <2>1. UNCHANGED <<ats, fl>> /\ pc[c] = "apply"
    BY <1>11 DEF Apply, diskVars
  <2>2. CASE flushPc' = "install"
    <3>0. flushPc = "install"
      BY <1>11, <2>2, ScheduleFact DEF Apply, QInv, TypeInv
    <3>1. PICK t \in DOMAIN queue : /\ queue[t].mem = op[c].mem
                                    /\ \A i \in DOMAIN queue : i # t => queue'[i] = queue[i]
      BY <1>11, ApplyData
    <3>2. queue' \in Seq(Table) /\ Len(queue') = Len(queue)
      BY <1>11, ApplyShape DEF QInv
    <3>3. t > fl.n
      BY <2>1, <3>0, <3>1, WrittenFact
    <3>4. \A i \in 1..fl.n : i \in DOMAIN queue /\ i # t
      BY <1>0, <3>0, <3>3 DEF QInv, FlushInv
    <3>5. fl.num \in DOMAIN ats
      BY <3>0 DEF InstallInv
    <3>6. At(arr)' = At(arr)
      BY <1>11, ApplyData
    <3> QED BY <1>0, <1>1, <2>1, <3>0, <3>1, <3>2, <3>4, <3>5, <3>6
  <2> QED BY <2>2 DEF InstallInv
<1> QED
  BY <1>2, <1>3, <1>4, <1>5, <1>6, <1>7, <1>8, <1>9, <1>10, <1>11, StepKinds
\* Who makes room has done so before, for the same write, or has just begun.
LEMMA MakerFact ==
  ASSUME QInv, [Next]_vars, NEW d \in Clients, Making(d)'
  PROVE  \/ Making(d) /\ op'[d].kind = op[d].kind /\ op'[d].seq = op[d].seq
         \/ \E k \in Keys : Set(d, k)
<1> DEFINE Same == Making(d) /\ op'[d].kind = op[d].kind /\ op'[d].seq = op[d].seq
<1>a. pc \in [Clients -> ClientPcs] /\ op \in [Clients -> Op]
  BY DEF QInv, TypeInv
<1>1. CASE UNCHANGED <<pc, op>>
  BY <1>1 DEF Making
<1>2. CASE FlushEnd
  BY <1>2 DEF FlushEnd, Making
<1>3. CASE CloseDone \/ Crash \/ CrashInMetaEdit \/ OpenFails
  BY <1>3 DEF CloseDone, Crash, CrashInMetaEdit, OpenFails, Forget, Making
<1>4. ASSUME NEW c \in Clients, \/ Client(c) \/ Flush(c) \/ \E k \in Keys : Set(c, k)
      PROVE  Same \/ \E k \in Keys : Set(d, k)
  <2>1. CASE d # c
    BY <1>a, <1>4, <2>1 DEF Client, Prepare, SwitchLog, SwitchMem, Apply, Ack, Flush, Set, Making
  <2>2. CASE d = c
    <3>1. CASE Prepare(c) \/ Apply(c) \/ Ack(c)
      <4>1. pc'[c] \notin {"room", "switch"}
        BY <1>a, <3>1 DEF Prepare, Apply, Ack
      <4> QED BY <2>2, <4>1 DEF Making
    <3>2. CASE Flush(c)
      <4>1. op'[c].kind = "flush"
        BY <1>a, <3>2 DEF Flush, NoOp
      <4> QED BY <2>2, <4>1 DEF Making
    <3>3. CASE SwitchLog(c)
      <4>1. op'[c].kind = op[c].kind /\ op'[c].seq = op[c].seq /\ pc[c] = "room"
        BY <1>a, <3>3 DEF SwitchLog, Op
      <4> QED BY <2>2, <4>1 DEF Making
    <3>4. CASE SwitchMem(c)
      <4>1. op' = op /\ pc[c] = "switch"
        BY <3>4 DEF SwitchMem
      <4> QED BY <2>2, <4>1 DEF Making
    <3>5. CASE \E k \in Keys : Set(c, k)
      BY <2>2, <3>5
    <3> QED BY <1>4, <3>1, <3>2, <3>3, <3>4, <3>5 DEF Client
  <2> QED BY <2>1, <2>2
<1> QED
  BY <1>1, <1>2, <1>3, <1>4 DEF Next, Flusher, Recovery, vars, clientVars, FlushStart, FlushNumber,
     FlushBuild, FlushInstall, FlushDelete, SyncLog, DeleteFile, Open, ReplayWAL, Recovered, OpenDone, Close

\* The order in the logs while recovery would read no more than before.
LEMMA LogFrame ==
  ASSUME RInv, [Next]_vars, \A c \in Clients, k \in Keys : ~Set(c, k),
         \A f \in DOMAIN logs' : f >= meta'.min => \A i \in DOMAIN logs'[f] :
           f \in DOMAIN logs /\ f >= meta.min /\ i \in DOMAIN logs[f] /\ logs'[f][i] = logs[f][i],
         status' \in {"recovered", "open", "closing"} =>
           /\ status \in {"recovered", "open", "closing"}
           /\ logSeqNum' \in Nat /\ logSeqNum <= logSeqNum',
         status' = "replay" =>
           /\ status = "replay" /\ DOMAIN logs' \subseteq DOMAIN logs
           /\ nextFileNum' \in Nat /\ nextFileNum <= nextFileNum'
           /\ pending' \subseteq pending /\ meta' = meta
  PROVE  LogInv'
<1> USE DEF RInv
<1>0. /\ \A f \in DOMAIN logs : f \in Nat /\ \A i \in DOMAIN logs[f] : logs[f][i].seq \in Nat
      /\ nextFileNum \in Nat /\ logSeqNum \in Nat
  <2>1. \A f \in DOMAIN logs : f \in Nat /\ logs[f] \in Seq(Record)
    BY DEF QInv, DiskInv, Bounded
  <2>2. \A f \in DOMAIN logs : \A i \in DOMAIN logs[f] : logs[f][i] \in Record
    BY <2>1
  <2> QED BY <2>1, <2>2, NumTypes DEF Record
<1>1. \A d \in Clients : Making(d)' => Making(d) /\ op'[d].kind = op[d].kind /\ op'[d].seq = op[d].seq
  BY MakerFact
<1>2. ASSUME NEW f \in DOMAIN logs', f >= meta'.min
      PROVE  /\ \A i, j \in DOMAIN logs'[f] : i < j => logs'[f][i].seq < logs'[f][j].seq
             /\ status' \in {"recovered", "open", "closing"} =>
                  \A i \in DOMAIN logs'[f] : logs'[f][i].seq < logSeqNum'
             /\ \A c \in Clients : Making(c)' /\ op'[c].kind = "small" =>
                  \A i \in DOMAIN logs'[f] : logs'[f][i].seq < op'[c].seq
  <2>1. \A i \in DOMAIN logs'[f] :
           f \in DOMAIN logs /\ f >= meta.min /\ i \in DOMAIN logs[f] /\ logs'[f][i] = logs[f][i]
    BY <1>2
  <2>2. \A i, j \in DOMAIN logs'[f] : i < j => logs'[f][i].seq < logs'[f][j].seq
    BY <2>1 DEF LogInv
  <2>3. status' \in {"recovered", "open", "closing"} =>
                  \A i \in DOMAIN logs'[f] : logs'[f][i].seq < logSeqNum'
    <3> SUFFICES ASSUME status' \in {"recovered", "open", "closing"}, NEW i \in DOMAIN logs'[f]
                 PROVE  logs'[f][i].seq < logSeqNum'
      OBVIOUS
    <3>1. logs[f][i].seq < logSeqNum /\ logs[f][i].seq \in Nat /\ logs'[f][i] = logs[f][i]
      BY <1>0, <2>1 DEF LogInv
    <3> QED BY <1>0, <3>1
  <2>4. \A c \in Clients : Making(c)' /\ op'[c].kind = "small" =>
                  \A i \in DOMAIN logs'[f] : logs'[f][i].seq < op'[c].seq
    BY <1>1, <2>1 DEF LogInv
  <2> QED BY <2>2, <2>3, <2>4
<1>3. status' = "replay" => /\ \A f \in DOMAIN logs' : f < nextFileNum'
                            /\ \A f \in pending' : f >= meta'.min
  <2> SUFFICES ASSUME status' = "replay"
               PROVE  (\A f \in DOMAIN logs' : f < nextFileNum') /\ (\A f \in pending' : f >= meta'.min)
    OBVIOUS
  <2>1. \A f \in DOMAIN logs' : f \in Nat /\ f < nextFileNum
    BY <1>0 DEF LogInv
  <2>2. \A f \in DOMAIN logs' : f < nextFileNum'
    BY <1>0, <2>1
  <2> QED BY <2>2 DEF LogInv
<1> QED
  BY <1>2, <1>3 DEF LogInv
\* The log that is written to, with one more record that is newer than all of it.
LEMMA AppendFact ==
  ASSUME RInv, NEW r \in Record, NEW x,
         logs' = logs \/ logs' = [logs EXCEPT ![x] = Append(logs[x], r)],
         \A f \in DOMAIN logs : f >= meta.min => \A i \in DOMAIN logs[f] : logs[f][i].seq < r.seq
  PROVE  /\ DOMAIN logs' = DOMAIN logs
         /\ \A f \in DOMAIN logs : f >= meta.min =>
              /\ \A i \in DOMAIN logs'[f] :
                   (i \in DOMAIN logs[f] /\ logs'[f][i] = logs[f][i]) \/ logs'[f][i] = r
              /\ \A i, j \in DOMAIN logs'[f] : i < j => logs'[f][i].seq < logs'[f][j].seq
<1>1. /\ DOMAIN logs' = DOMAIN logs
      /\ \A f \in DOMAIN logs : logs'[f] = logs[f] \/ logs'[f] = Append(logs[f], r)
  BY LoggedFact DEF RInv, QInv
<1>2. ASSUME NEW f \in DOMAIN logs, f >= meta.min
      PROVE  /\ \A i \in DOMAIN logs'[f] :
                   (i \in DOMAIN logs[f] /\ logs'[f][i] = logs[f][i]) \/ logs'[f][i] = r
             /\ \A i, j \in DOMAIN logs'[f] : i < j => logs'[f][i].seq < logs'[f][j].seq
  <2>0. \A i, j \in DOMAIN logs[f] : i < j => logs[f][i].seq < logs[f][j].seq
    BY <1>2 DEF RInv, LogInv
  <2>1. CASE logs'[f] = logs[f]
    BY <2>0, <2>1
  <2>2. CASE logs'[f] = Append(logs[f], r)
    <3> DEFINE s == logs[f]
               n == Len(s)
               t == Append(s, r)
    <3>1. s \in Seq(Record)
      BY DEF RInv, QInv, DiskInv
    <3>2. n \in Nat /\ DOMAIN s = 1..n /\ DOMAIN t = 1..(n + 1) /\ t[n + 1] = r
          /\ \A i \in 1..n : t[i] = s[i]
      BY <3>1
    <3>3. logs'[f] = t
      BY <2>2
    <3>4. \A i \in 1..n : s[i].seq < r.seq
      BY <1>2, <3>2
    <3>5. \A i, j \in 1..n : i < j => s[i].seq < s[j].seq
      BY <2>0, <3>2
    <3>6. \A i \in 1..(n + 1) : i \in 1..n \/ i = n + 1
      BY <3>2
    <3> HIDE DEF s, n, t
    <3>7. \A i \in DOMAIN t : (i \in DOMAIN s /\ t[i] = s[i]) \/ t[i] = r
      BY <3>2, <3>6
    <3>8. ASSUME NEW i \in DOMAIN t, NEW j \in DOMAIN t, i < j PROVE t[i].seq < t[j].seq
      <4>1. i \in 1..n
        BY <3>2, <3>8
      <4>2. j \in 1..n \/ j = n + 1
        BY <3>2, <3>6
      <4> QED BY <3>2, <3>4, <3>5, <3>8, <4>1, <4>2
    <3> QED BY <3>3, <3>7, <3>8 DEF s
  <2> QED BY <1>1, <2>1, <2>2
<1> QED
  BY <1>1, <1>2

\* The logs recovery would read stay in the order of their writes (commitWrite), also
\* when one is cut off by a kill, and none of them holds a write still to come.
LEMMA LogStep ==
  ASSUME RInv, [Next]_vars
  PROVE  LogInv'
<1> USE DEF RInv
<1>0. /\ \A f \in DOMAIN logs : f \in Nat /\ \A i \in DOMAIN logs[f] : logs[f][i].seq \in Nat
      /\ nextFileNum \in Nat /\ logSeqNum \in Nat
  <2>1. \A f \in DOMAIN logs : f \in Nat /\ logs[f] \in Seq(Record)
    BY DEF QInv, DiskInv, Bounded
  <2>2. \A f \in DOMAIN logs : \A i \in DOMAIN logs[f] : logs[f][i] \in Record
    BY <2>1
  <2> QED BY <2>1, <2>2, NumTypes DEF Record
<1>a. pc \in [Clients -> ClientPcs] /\ op \in [Clients -> Op]
  BY DEF QInv, TypeInv
<1>1. ASSUME NEW c \in Clients, NEW k \in Keys, Set(c, k) PROVE LogInv'
  <2> DEFINE r == [key |-> k, seq |-> logSeqNum, large |-> TRUE]
  <2>1. r \in Record /\ r.seq = logSeqNum
    BY <1>0 DEF Record
  <2>2. logs' = logs \/ logs' = [logs EXCEPT ![CurLog] = Append(logs[CurLog], r)]
    BY <1>1 DEF Set
  <2>3. /\ op'[c].seq = logSeqNum /\ logSeqNum' = logSeqNum + 1 /\ status = "open"
        /\ status' = status /\ meta' = meta /\ (op'[c].kind = "small" => logs' = logs)
    BY <1>1, <1>a DEF Set, NoOp
  <2> HIDE DEF r
  <2>4. \A f \in DOMAIN logs : f >= meta.min => \A i \in DOMAIN logs[f] : logs[f][i].seq < r.seq
    BY <2>1, <2>3 DEF LogInv
  <2>5. /\ DOMAIN logs' = DOMAIN logs
        /\ \A f \in DOMAIN logs : f >= meta.min =>
              /\ \A i \in DOMAIN logs'[f] :
                   (i \in DOMAIN logs[f] /\ logs'[f][i] = logs[f][i]) \/ logs'[f][i] = r
              /\ \A i, j \in DOMAIN logs'[f] : i < j => logs'[f][i].seq < logs'[f][j].seq
    BY <2>1, <2>2, <2>4, AppendFact
  <2>6. \A d \in Clients : Making(d)' => d = c
    <3>1. \A d \in Clients : d # c => pc'[d] = pc[d] /\ pc[d] \notin {"room", "switch"}
      BY <1>a, <1>1, ClientsAssumption DEF Set, QInv, ModeInv
    <3> QED BY <3>1 DEF Making
  <2>7. \A f \in DOMAIN logs : f >= meta.min => \A i \in DOMAIN logs'[f] : logs'[f][i].seq < logSeqNum'
    <3> SUFFICES ASSUME NEW f \in DOMAIN logs, f >= meta.min, NEW i \in DOMAIN logs'[f]
                 PROVE  logs'[f][i].seq < logSeqNum'
      OBVIOUS
    <3>1. logs'[f][i].seq \in Nat /\ logs'[f][i].seq <= logSeqNum
      <4>1. CASE logs'[f][i] = r
        BY <1>0, <2>1, <4>1
      <4>2. CASE i \in DOMAIN logs[f] /\ logs'[f][i] = logs[f][i]
        BY <1>0, <2>1, <2>4, <4>2
      <4> QED BY <2>5, <4>1, <4>2
    <3> QED BY <1>0, <2>3, <3>1
  <2>8. op'[c].kind = "small" => \A f \in DOMAIN logs : f >= meta.min =>
           \A i \in DOMAIN logs'[f] : logs'[f][i].seq < op'[c].seq
    BY <2>1, <2>3, <2>4
  <2> QED BY <2>3, <2>5, <2>6, <2>7, <2>8 DEF LogInv
<1>2. ASSUME NEW c \in Clients, Prepare(c) PROVE LogInv'
  <2> DEFINE r == [key |-> op[c].key, seq |-> op[c].seq, large |-> FALSE]
  <2>1. r \in Record /\ r.seq = op[c].seq
    BY <1>2 DEF Record, Prepare, QInv, OpInv, TypeInv, Op
  <2>2. logs' = [logs EXCEPT ![CurLog] = Append(logs[CurLog], r)]
    BY <1>2 DEF Prepare
  <2>3. /\ logSeqNum' = logSeqNum /\ status = "open" /\ pc[c] = "room"
        /\ status' = status /\ meta' = meta /\ Making(c) /\ op[c].kind = "small"
    BY <1>2, BusyFact DEF Prepare, Making
  <2> HIDE DEF r
  <2>4. \A f \in DOMAIN logs : f >= meta.min => \A i \in DOMAIN logs[f] : logs[f][i].seq < r.seq
    BY <2>1, <2>3 DEF LogInv
  <2>5. /\ DOMAIN logs' = DOMAIN logs
        /\ \A f \in DOMAIN logs : f >= meta.min =>
              /\ \A i \in DOMAIN logs'[f] :
                   (i \in DOMAIN logs[f] /\ logs'[f][i] = logs[f][i]) \/ logs'[f][i] = r
              /\ \A i, j \in DOMAIN logs'[f] : i < j => logs'[f][i].seq < logs'[f][j].seq
    BY <2>1, <2>2, <2>4, AppendFact
  <2>6. \A d \in Clients : ~Making(d)'
    <3>1. \A d \in Clients : d # c => pc'[d] = pc[d] /\ op'[d] = op[d]
      BY <1>a, <1>2 DEF Prepare
    <3>2. \A d \in Clients : d # c => ~Making(d)
      BY <2>3, OneMaker
    <3>3. pc'[c] = "apply"
      BY <1>a, <1>2 DEF Prepare
    <3> QED BY <3>1, <3>2, <3>3 DEF Making
  <2>7. \A f \in DOMAIN logs : f >= meta.min => \A i \in DOMAIN logs'[f] : logs'[f][i].seq < logSeqNum
    <3>1. r.seq < logSeqNum
      BY <2>1, <2>3 DEF HolderInv
    <3>2. \A f \in DOMAIN logs : f >= meta.min => \A i \in DOMAIN logs[f] : logs[f][i].seq < logSeqNum
      BY <2>3 DEF LogInv
    <3> QED BY <2>5, <3>1, <3>2
  <2> QED BY <2>3, <2>5, <2>6, <2>7 DEF LogInv
<1>3. CASE Open
  <2>1. /\ UNCHANGED <<logs, meta, pc, op>> /\ status' = "replay" /\ pending' = ToReplay
        /\ \A d \in Clients : pc[d] = "idle"
    BY <1>3 DEF Open, diskVars, clientVars, QInv, ModeInv
  <2>2. \A f \in DOMAIN logs : f < nextFileNum'
    BY <1>3, OpenNumber DEF QInv
  <2> QED BY <2>1, <2>2 DEF LogInv, ToReplay, Making
<1>4. CASE Recovered
  <2>1. /\ UNCHANGED <<logs, pc, op>> /\ meta'.min = nextFileNum /\ status = "replay"
        /\ status' = "recovered"
    BY <1>4 DEF Recovered, MetaSet, clientVars
  <2>2. \A f \in DOMAIN logs : ~(f >= meta'.min)
    BY <1>0, <2>1 DEF LogInv
  <2> QED BY <2>1, <2>2 DEF LogInv
<1>5. CASE (\A c \in Clients, k \in Keys : ~Set(c, k)) /\ ~Open /\ ~Recovered
           /\ (\A c \in Clients : ~Prepare(c))
  <2> DEFINE Kept == \A f \in DOMAIN logs' : f >= meta'.min => \A i \in DOMAIN logs'[f] :
               f \in DOMAIN logs /\ f >= meta.min /\ i \in DOMAIN logs[f] /\ logs'[f][i] = logs[f][i]
             Seqs == status' \in {"recovered", "open", "closing"} =>
               /\ status \in {"recovered", "open", "closing"}
               /\ logSeqNum' \in Nat /\ logSeqNum <= logSeqNum'
             Replays == status' = "replay" =>
               /\ status = "replay" /\ DOMAIN logs' \subseteq DOMAIN logs
               /\ nextFileNum' \in Nat /\ nextFileNum <= nextFileNum'
               /\ pending' \subseteq pending /\ meta' = meta
  <2>0. Kept /\ Seqs /\ Replays => LogInv'
    BY <1>5, LogFrame
  <2>1. CASE \/ FlushStart \/ FlushNumber \/ FlushBuild \/ FlushDelete \/ FlushEnd \/ SyncLog
             \/ Close \/ OpenFails \/ UNCHANGED vars
             \/ \E c \in Clients : Flush(c) \/ SwitchLog(c) \/ Apply(c) \/ Ack(c)
    <3>1. UNCHANGED <<logs, meta>>
      BY <2>1 DEF FlushStart, FlushNumber, FlushBuild, FlushDelete, FlushEnd, SyncLog, Close,
         OpenFails, vars, Flush, SwitchLog, Apply, Ack, diskVars
    <3>2. \/ status' = "closed"
          \/ logSeqNum' = logSeqNum /\ status' = status
          \/ logSeqNum' = logSeqNum /\ status = "open" /\ status' = "closing"
      BY <2>1 DEF FlushStart, FlushNumber, FlushBuild, FlushDelete, FlushEnd, SyncLog, Close,
         OpenFails, Forget, vars, Flush, SwitchLog, Apply, Ack
    <3>3. status' = "replay" => UNCHANGED <<pending, nextFileNum>>
      <4>1. flushPc # "none" => status # "replay"
        BY FlushLive
      <4>2. \A c \in Clients : pc[c] # "idle" => status # "replay"
        BY BusyFact
      <4> QED BY <2>1, <3>2, <4>1, <4>2 DEF FlushStart, FlushNumber, FlushBuild, FlushDelete, FlushEnd, SyncLog, Close,
         OpenFails, Forget, vars, Flush, SwitchLog, Apply, Ack
    <3>4. Kept
      BY <3>1
    <3>5. Seqs /\ Replays
      BY <1>0, <3>1, <3>2, <3>3
    <3> HIDE DEF Kept, Seqs, Replays
    <3> QED BY <2>0, <3>4, <3>5
  <2>2. CASE FlushInstall
    <3>1. UNCHANGED <<logs, status, logSeqNum>> /\ status # "replay"
      BY <2>2, FlushLive DEF FlushInstall
    <3>2. meta.min <= meta'.min /\ meta'.min \in Nat
      BY <2>2, NumTypes DEF FlushInstall, MetaOk, MetaSet
    <3>3. \A f \in DOMAIN logs : f >= meta'.min => f >= meta.min
      BY <1>0, <3>2, NumTypes
    <3>4. Kept /\ Seqs /\ Replays
      BY <1>0, <3>1, <3>3
    <3> HIDE DEF Kept, Seqs, Replays
    <3> QED BY <2>0, <3>4
  <2>3. CASE DeleteFile
    <3>1. UNCHANGED <<meta, status, logSeqNum, nextFileNum, pending>>
      BY <2>3 DEF DeleteFile
    <3>2. PICK t : logs' = IF t[1] = "log" THEN Drop(logs, {t[2]}) ELSE logs
      BY <2>3 DEF DeleteFile
    <3>3. \A f \in DOMAIN logs' : f \in DOMAIN logs /\ logs'[f] = logs[f]
      BY <3>2 DEF Drop
    <3>4. Kept /\ Seqs /\ Replays
      BY <1>0, <3>1, <3>3
    <3> HIDE DEF Kept, Seqs, Replays
    <3> QED BY <2>0, <3>4
  <2>4. CASE CloseDone
    <3>1. UNCHANGED meta /\ status' = "closed"
      BY <2>4 DEF CloseDone, Forget
    <3>2. PICK S : logs' = Drop(logs, S)
      BY <2>4 DEF CloseDone
    <3>3. \A f \in DOMAIN logs' : f \in DOMAIN logs /\ logs'[f] = logs[f]
      BY <3>2 DEF Drop
    <3>4. Kept /\ Seqs /\ Replays
      BY <1>0, <3>1, <3>3
    <3> HIDE DEF Kept, Seqs, Replays
    <3> QED BY <2>0, <3>4
  <2>5. CASE Crash \/ CrashInMetaEdit
    <3>1. status' = "closed" /\ LoseTail
      BY <2>5 DEF Crash, CrashInMetaEdit, Forget
    <3>2. meta.min <= meta'.min /\ meta'.min \in Nat
      <4>1. CASE Crash
        BY <4>1, NumTypes DEF Crash
      <4>2. CASE CrashInMetaEdit
        <5>1. meta'.min = fl.min /\ meta.min <= fl.min
          BY <4>2 DEF CrashInMetaEdit, MetaOk, QInv, DiskInv, Metas
        <5> QED BY <5>1, NumTypes
      <4> QED BY <2>5, <4>1, <4>2
    <3>3. \A f \in DOMAIN logs : f >= meta'.min => f >= meta.min
      BY <1>0, <3>2, NumTypes
    <3>4. /\ DOMAIN logs' = DOMAIN logs
          /\ \A f \in DOMAIN logs :
              /\ logs'[f] \in Seq(Record) /\ Len(logs'[f]) <= Len(logs[f])
              /\ \A i \in 1..Len(logs'[f]) : logs'[f][i] = logs[f][i]
      BY <3>1, TailFact DEF QInv
    <3>5. ASSUME NEW f \in DOMAIN logs, NEW i \in DOMAIN logs'[f]
          PROVE  i \in DOMAIN logs[f] /\ logs'[f][i] = logs[f][i]
      <4>1. logs[f] \in Seq(Record)
        BY DEF QInv, DiskInv
      <4>2. logs'[f] \in Seq(Record) /\ Len(logs'[f]) <= Len(logs[f])
        BY <3>4
      <4>3. i \in 1..Len(logs'[f])
        BY <4>2
      <4>4. i \in 1..Len(logs[f])
        BY <4>1, <4>2, <4>3
      <4> QED BY <3>4, <4>1, <4>3, <4>4
    <3>6. Kept
      BY <3>3, <3>4, <3>5
    <3>7. Seqs /\ Replays
      BY <3>1
    <3> HIDE DEF Kept, Seqs, Replays
    <3> QED BY <2>0, <3>6, <3>7
  <2>6. CASE ReplayWAL
    <3>1. UNCHANGED <<meta, logs, status>> /\ status = "replay" /\ pending' \subseteq pending
      BY <2>6 DEF ReplayWAL
    <3>2. nextFileNum' \in Nat /\ nextFileNum <= nextFileNum'
      <4>1. nextFileNum' = nextFileNum \/ nextFileNum' = nextFileNum + 1
        BY <2>6 DEF ReplayWAL
      <4> QED BY <1>0, <4>1
    <3>3. Kept /\ Seqs /\ Replays
      BY <3>1, <3>2
    <3> HIDE DEF Kept, Seqs, Replays
    <3> QED BY <2>0, <3>3
  <2>7. CASE OpenDone
    <3>1. UNCHANGED <<meta, logSeqNum>> /\ status = "recovered" /\ status' = "open"
      BY <2>7 DEF OpenDone
    <3>2. PICK v : v = <<>> /\ logs' = Put(logs, CurLog, v)
      BY <2>7 DEF OpenDone
    <3>3. \A f \in DOMAIN logs' : \/ f \in DOMAIN logs /\ logs'[f] = logs[f]
                                  \/ DOMAIN logs'[f] = {}
      BY <3>2 DEF Put
    <3>4. Kept
      BY <3>1, <3>3
    <3>5. Seqs /\ Replays
      BY <1>0, <3>1
    <3> HIDE DEF Kept, Seqs, Replays
    <3> QED BY <2>0, <3>4, <3>5
  <2>8. CASE \E c \in Clients : SwitchMem(c)
    <3>0. PICK c \in Clients : SwitchMem(c)
      BY <2>8
    <3>1. UNCHANGED <<meta, logSeqNum, status>> /\ status = "open"
      BY <3>0, BusyFact DEF SwitchMem
    <3>2. PICK v, l : v = <<>> /\ logs' = Put(l, op[c].new, v)
                      /\ (l = logs \/ \E S : l = Drop(logs, S))
      BY <3>0 DEF SwitchMem
    <3>3. \A f \in DOMAIN l : f \in DOMAIN logs /\ l[f] = logs[f]
      BY <3>2 DEF Drop
    <3>4. \A f \in DOMAIN logs' : \/ f \in DOMAIN logs /\ logs'[f] = logs[f]
                                  \/ DOMAIN logs'[f] = {}
      BY <3>2, <3>3 DEF Put
    <3>5. Kept
      BY <3>1, <3>4
    <3>6. Seqs /\ Replays
      BY <1>0, <3>1
    <3> HIDE DEF Kept, Seqs, Replays
    <3> QED BY <2>0, <3>5, <3>6
  <2> HIDE DEF Kept, Seqs, Replays
  <2> QED BY <1>5, <2>1, <2>2, <2>3, <2>4, <2>5, <2>6, <2>7, <2>8 DEF Next, Client, Flusher, Recovery
<1> QED
  BY <1>1, <1>2, <1>3, <1>4, <1>5
\* A database nobody has opened yet.
LEMMA RInit == Init => RInv
<1> SUFFICES ASSUME Init PROVE RInv
  OBVIOUS
<1>1. QInv
  BY QInit
<1>2. DOMAIN ats = {} /\ DOMAIN logs = {} /\ DOMAIN queue = {}
  BY DEF Init
<1>3. AtsInv
  BY <1>2, EmptyFact DEF Init, AtsInv
<1>4. NumInv /\ TrashInv /\ MetaInv
  BY <1>2 DEF Init, NumInv, TrashInv, MetaInv
<1>5. \A k \in Keys : At(arr)[k] = 0
  BY <1>2, EmptyFact DEF At
<1>6. OrderInv
  BY <1>2, <1>5 DEF Init, OrderInv
<1>7. PendingInv /\ HolderInv /\ InstallInv
  BY DEF Init, PendingInv, HolderInv, Making, InstallInv
<1>8. LogInv
  BY <1>2 DEF Init, LogInv
<1>9. LatestInv
  BY DEF Init, LatestInv, Live
<1> QED
  BY <1>1, <1>3, <1>4, <1>6, <1>7, <1>8, <1>9 DEF RInv

\* Every action keeps the second invariant.
LEMMA RStep == RInv /\ [Next]_vars => RInv'
<1> SUFFICES ASSUME RInv, [Next]_vars PROVE RInv'
  OBVIOUS
<1>1. QInv'
  BY QStep DEF RInv
<1>2. AtsInv'
  BY AtsStep
<1>3. NumInv' /\ TrashInv' /\ MetaInv' /\ LogInv'
  BY NumStep, TrashStep, MetaStep, LogStep
<1>4. OrderInv' /\ PendingInv' /\ HolderInv' /\ LatestInv' /\ InstallInv'
  BY <1>2, OrderStep, PendingStep, HolderStep, LatestStep, InstallStep
<1> QED
  BY <1>1, <1>2, <1>3, <1>4 DEF RInv

\* File numbers and the order of the writes are kept by every step of every client, of
\* the flush and of newPlainDB, kills included.
THEOREM TablesSound == Spec => []RInv
<1>1. Init => RInv
  BY RInit
<1>2. RInv /\ [Next]_vars => RInv'
  BY RStep
<1> QED
  BY <1>1, <1>2, PTL DEF Spec

\* A reader always finds the newest applied write of a key (plainDB.Get), for any
\* number of clients, keys, memtables, flushes and kills: a late writer of a replaced
\* memtable is not lost and covers nothing newer, and an array table that replaces
\* memtables, or is rebuilt by replayWAL, has all that they had.
THEOREM ReaderFindsNewest == Spec => []ReadLatest
<1>1. RInv => ReadLatest
  <2> SUFFICES ASSUME RInv, status = "open", NEW k \in Keys PROVE Get(k) = latest[k]
    BY DEF ReadLatest
  <2>1. Top(queue, At(arr), k, latest[k])
    BY DEF RInv, LatestInv, Live
  <2> QED BY <2>1, GetFact DEF RInv, QInv
<1>2. Spec => []RInv
  BY TablesSound
<1> QED
  BY <1>1, <1>2, PTL
=============================================================================
