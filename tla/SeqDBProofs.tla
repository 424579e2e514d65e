---------------------------- MODULE SeqDBProofs ----------------------------
(***************************************************************************)
(* Proof that the sequential DB loses no wakeup of its flush (FlushComes)  *)
(* and that the bitree gives up no super table that is still needed        *)
(* (NeededStay), for every number of keys, writes and memtables and every  *)
(* bound on the calls.                                                     *)
(*                                                                         *)
(* FlushComes is not inductive.  A writer that gives its reference back    *)
(* schedules a flush if the count has come to zero; that this is so only   *)
(* for a memtable that is not the mutable one, and always so for such a    *)
(* one, follows from what the counts are made of (RefsInv): the queue's    *)
(* own reference of the mutable memtable and the writer's.  That the       *)
(* memtable the writer fills is still in the queue then (WriterInv)        *)
(* follows from what a running flush has taken (RunInv): leading memtables *)
(* nobody writes, never the mutable one.                                   *)
(***************************************************************************)
EXTENDS SeqDB, NumberFacts, TLAPS

Pcs == {"none", "start", "keys", "vals", "num", "room", "switch", "begin", "swap",
        "map", "end"}
Data == [Keys -> Nat]
Mem == [id : Nat, data : Data, refs : Nat, used : Nat]

TypeInv ==
  /\ status \in {"closed", "open", "closing", "flushed"} /\ flushPc \in Pcs
  /\ queue \in Seq(Mem) /\ "n" \in DOMAIN fl /\ fl.n \in Nat
  /\ wr \in [pc : {"idle", "add"}, key : Nat, seq : Nat, mem : Nat]
  /\ "stalled" \in DOMAIN calls

\* A DB that is open, or closing, has a mutable memtable; nothing of the queue
\* outlives the close.
StatusInv ==
  /\ status \in {"open", "closing"} => Len(queue) > 0
  /\ status \in {"closed", "flushed"} => queue = <<>> /\ flushPc = "none"

\* Memtables are numbered as they were made.
IdsInv == \A i, j \in 1..Len(queue) : i < j => queue[i].id < queue[j].id

\* The references of a memtable: the queue's, and the writer's.
Own(i) == IF i = Len(queue) THEN 1 ELSE 0
Writing(i) == IF wr.pc = "add" /\ wr.mem = queue[i].id THEN 1 ELSE 0
RefsInv == \A i \in 1..Len(queue) : queue[i].refs = Own(i) + Writing(i)

\* The memtable a writer fills is in the queue, and a waiting manual flush and the
\* writer are clients of an open DB.
WriterInv ==
  /\ wr.pc = "add" => /\ status = "open" /\ wr.key \in Keys
                      /\ \E i \in 1..Len(queue) : queue[i].id = wr.mem
  /\ calls.stalled => status = "open"

\* A running flush has taken leading memtables nobody writes; Close's own, all.
RunInv ==
  flushPc \notin {"none", "start"} =>
    /\ fl.n <= Len(queue)
    /\ status = "open" => fl.n < Len(queue)
    /\ \A i \in 1..fl.n : i < Len(queue) => queue[i].refs = 0

IInv == TypeInv /\ StatusInv /\ IdsInv /\ RefsInv /\ WriterInv /\ RunInv /\ FlushComes
-----------------------------------------------------------------------------
(***************************************************************************)
(* The operators of the model.                                             *)
(***************************************************************************)

\* flush takes a prefix of the queue without writers and never the mutable memtable.
LEMMA ReadyFact ==
  ASSUME queue \in Seq(Mem), Ready > 0, Len(queue) > 0
  PROVE  Ready \in Nat /\ Ready < Len(queue) /\ \A i \in 1..Ready : queue[i].refs = 0
<1> DEFINE stop == {i \in 1..Len(queue) : i = Len(queue) \/ queue[i].refs > 0}
<1>1. Len(queue) \in Nat /\ DOMAIN queue = 1..Len(queue)
  OBVIOUS
<1>2. stop \subseteq Nat /\ Len(queue) \in stop
  BY <1>1
<1>3. Min(stop) \in stop /\ \A y \in stop : Min(stop) <= y
  <2> HIDE DEF stop
  <2> QED BY <1>2, MinFact
<1>4. Ready = Min(stop) - 1
  BY <1>1 DEF Ready
<1> DEFINE m == Min(stop)
<1>5. m \in 1..Len(queue)
  BY <1>3
<1>6. \A i \in 1..Len(queue) : i < m => queue[i].refs = 0
  <2> SUFFICES ASSUME NEW i \in 1..Len(queue), i < m PROVE queue[i].refs = 0
    OBVIOUS
  <2>1. queue[i] \in Mem
    OBVIOUS
  <2>2. queue[i].refs \in Nat
    BY <2>1 DEF Mem
  <2>3. queue[i].refs > 0 => i \in stop
    OBVIOUS
  <2> HIDE DEF stop
  <2> QED BY <1>1, <1>3, <1>5, <2>2, <2>3
<1> HIDE DEF stop, m
<1> QED
  BY <1>1, <1>4, <1>5, <1>6 DEF m

\* maybeScheduleFlush leaves a running flush alone and starts one for a queue of
\* more than the mutable memtable.
LEMMA ScheduleFact ==
  ASSUME NEW r \in Pcs, NEW q
  PROVE  /\ ScheduleFlush(r, q) \in Pcs
         /\ r # "none" => ScheduleFlush(r, q) = r
         /\ ScheduleFlush(r, q) \in {r, "start"}
         /\ status # "open" => ScheduleFlush(r, q) = r
         /\ status = "open" /\ Len(q) > 1 => ScheduleFlush(r, q) # "none"
BY DEF ScheduleFlush, Pcs

\* A memtable starts empty, with the queue's reference.
LEMMA NewMemFact ==
  ASSUME NEW i \in Nat
  PROVE  NewMem(i) \in Mem /\ NewMem(i).id = i /\ NewMem(i).refs = 1
BY SeqAssumption DEF NewMem, Mem, Empty, Data

\* makeRoomForWrite's switch, entry by entry: the old mutable memtable loses the
\* queue's reference, a new one follows.
LEMMA SwitchShape ==
  ASSUME TypeInv, Len(queue) > 0, queue[Len(queue)].refs > 0
  PROVE  LET n == Len(queue) IN
         /\ NewQueue \in Seq(Mem) /\ Len(NewQueue) = n + 1
         /\ \A i \in 1..n : NewQueue[i].id = queue[i].id
         /\ \A i \in 1..(n - 1) : NewQueue[i].refs = queue[i].refs
         /\ NewQueue[n].refs = queue[n].refs - 1
         /\ NewQueue[n + 1].id = queue[n].id + 1 /\ NewQueue[n + 1].refs = 1
<1> DEFINE n == Len(queue)
           e == [queue[n] EXCEPT !.refs = queue[n].refs - 1]
           h == [queue EXCEPT ![n] = e]
           new == NewMem(queue[n].id + 1)
<1>1. n \in Nat /\ n > 0 /\ n \in 1..n /\ DOMAIN queue = 1..n /\ queue \in Seq(Mem)
  BY DEF TypeInv
<1>2. \A i \in 1..n : queue[i] \in Mem
  BY <1>1
<1>3. queue[n].id \in Nat /\ queue[n].refs - 1 \in Nat
  <2>1. queue[n] \in Mem
    BY <1>1, <1>2
  <2> QED BY <2>1 DEF Mem
<1>4. new \in Mem /\ new.id = queue[n].id + 1 /\ new.refs = 1
  BY <1>3, NewMemFact
<1>6. e \in Mem /\ e.id = queue[n].id /\ e.refs = queue[n].refs - 1
  <2>1. queue[n] \in Mem
    BY <1>1, <1>2
  <2> QED BY <1>3, <2>1 DEF Mem
<1>7. NewQueue = h \o <<new>>
  BY DEF NewQueue, Mutable
<1> HIDE DEF e, new
<1>8. h \in Seq(Mem) /\ Len(h) = n /\ \A i \in 1..n : h[i] = IF i = n THEN e ELSE queue[i]
  BY <1>1, <1>2, <1>6
<1> HIDE DEF h
<1> HIDE DEF n
<1>9. NewQueue \in Seq(Mem) /\ Len(NewQueue) = n + 1 /\ NewQueue[n + 1] = new
      /\ \A i \in 1..n : NewQueue[i] = h[i]
  BY <1>1, <1>4, <1>7, <1>8
<1>10. \A i \in 1..n : NewQueue[i].id = queue[i].id
  BY <1>6, <1>8, <1>9
<1>11. \A i \in 1..(n - 1) : NewQueue[i].refs = queue[i].refs
  BY <1>1, <1>8, <1>9
<1>12. NewQueue[n].refs = queue[n].refs - 1
  BY <1>1, <1>6, <1>8, <1>9
<1> QED
  BY <1>4, <1>9, <1>10, <1>11, <1>12 DEF n

\* prepareBySize, entry by entry: the mutable memtable gets a writer's reference.
LEMMA PrepareShape ==
  ASSUME NEW q \in Seq(Mem), Len(q) > 0
  PROVE  LET p == PrepareBySize(q) IN
         /\ p \in Seq(Mem) /\ Len(p) = Len(q)
         /\ \A i \in 1..Len(q) : p[i].id = q[i].id
         /\ \A i \in 1..Len(q) : p[i].refs = q[i].refs + (IF i = Len(q) THEN 1 ELSE 0)
<1> DEFINE n == Len(q)
           e == [q[n] EXCEPT !.refs = q[n].refs + 1, !.used = q[n].used + 1]
<1>1. n \in Nat /\ n > 0 /\ n \in 1..n /\ DOMAIN q = 1..n
  OBVIOUS
<1>2. q[n] \in Mem
  BY <1>1
<1>3. q[n].refs + 1 \in Nat /\ q[n].used + 1 \in Nat
  BY <1>2 DEF Mem
<1>4. e \in Mem /\ e.id = q[n].id /\ e.refs = q[n].refs + 1
  BY <1>2, <1>3 DEF Mem
<1>5. PrepareBySize(q) = [q EXCEPT ![n] = e]
  BY DEF PrepareBySize
<1> HIDE DEF e
<1> DEFINE p == PrepareBySize(q)
<1>6. p \in Seq(Mem) /\ Len(p) = n /\ \A i \in 1..n : p[i] = IF i = n THEN e ELSE q[i]
  BY <1>1, <1>4, <1>5
<1> HIDE DEF p
<1>7. \A i \in 1..n : q[i].refs \in Nat
  <2>1. \A i \in 1..n : q[i] \in Mem
    OBVIOUS
  <2> QED BY <2>1 DEF Mem
<1>8. \A i \in 1..n : p[i].refs = q[i].refs + (IF i = n THEN 1 ELSE 0)
  <2> SUFFICES ASSUME NEW i \in 1..n
               PROVE  p[i].refs = q[i].refs + (IF i = n THEN 1 ELSE 0)
    OBVIOUS
  <2>1. CASE i = n
    BY <1>1, <1>4, <1>6, <2>1
  <2>2. CASE i # n
    <3>1. p[i].refs = q[i].refs /\ q[i].refs \in Nat
      BY <1>6, <1>7, <2>2
    <3> QED BY <2>2, <3>1
  <2> QED BY <2>1, <2>2
<1>9. \A i \in 1..n : p[i].id = q[i].id
  BY <1>4, <1>6
<1> QED
  BY <1>6, <1>8, <1>9 DEF p

\* Set's memTable.add, entry by entry: the memtable gets the write and gives the
\* writer's reference back.
LEMMA AddShape ==
  ASSUME TypeInv, RefsInv, WriterInv, Add
  PROVE  \E i \in 1..Len(queue) :
           /\ queue[i].id = wr.mem /\ wr.pc = "add"
           /\ queue' \in Seq(Mem) /\ Len(queue') = Len(queue)
           /\ \A j \in 1..Len(queue) : queue'[j].id = queue[j].id
           /\ \A j \in 1..Len(queue) : j # i => queue'[j] = queue[j]
           /\ queue[i].refs > 0 /\ queue'[i].refs = queue[i].refs - 1
           /\ wr' = NoWrite
           /\ flushPc' = IF queue'[i].refs = 0 THEN ScheduleFlush(flushPc, queue') ELSE flushPc
<1> DEFINE Q(i) == [queue EXCEPT ![i].data[wr.key] = wr.seq, ![i].refs = @ - 1]
<1>1. Len(queue) \in Nat /\ DOMAIN queue = 1..Len(queue) /\ queue \in Seq(Mem)
  BY DEF TypeInv
<1>2. PICK i \in 1..Len(queue) :
        /\ wr.pc = "add" /\ queue[i].id = wr.mem /\ queue' = Q(i) /\ wr' = NoWrite
        /\ flushPc' = IF Q(i)[i].refs = 0 THEN ScheduleFlush(flushPc, Q(i)) ELSE flushPc
  BY <1>1 DEF Add
<1>3. wr.key \in Keys /\ wr.seq \in Nat
  BY <1>2 DEF TypeInv, WriterInv
<1> DEFINE d == [queue[i].data EXCEPT ![wr.key] = wr.seq]
           e == [queue[i] EXCEPT !.data = d, !.refs = queue[i].refs - 1]
<1>4. queue[i] \in Mem
  BY <1>1
<1>5. queue[i].data \in Data /\ queue[i].refs \in Nat /\ d \in Data
  BY <1>3, <1>4 DEF Mem, Data
<1>6. queue[i].refs > 0
  BY <1>1, <1>2, <1>5 DEF RefsInv, Own, Writing
<1>7. queue[i].refs - 1 \in Nat
  BY <1>5, <1>6
<1>8. queue' = [queue EXCEPT ![i] = e]
  BY <1>1, <1>2, <1>4 DEF Mem
<1> HIDE DEF d
<1>9. e \in Mem /\ e.id = queue[i].id /\ e.refs = queue[i].refs - 1
  BY <1>4, <1>5, <1>7 DEF Mem
<1> HIDE DEF e
<1>10. /\ queue' \in Seq(Mem) /\ Len(queue') = Len(queue)
       /\ \A j \in 1..Len(queue) : queue'[j] = IF j = i THEN e ELSE queue[j]
  BY <1>1, <1>8, <1>9
<1>11. flushPc' = IF queue'[i].refs = 0 THEN ScheduleFlush(flushPc, queue') ELSE flushPc
  BY <1>2
<1> HIDE DEF Q
<1> QED
  BY <1>2, <1>6, <1>9, <1>10, <1>11
-----------------------------------------------------------------------------
(***************************************************************************)
(* What the steps do to the queue, the writer and the flush.               *)
(***************************************************************************)

Running == Pcs \ {"none", "start"}

\* Steps of readers, compactions and the flush's work on the bitree.
Calm == /\ UNCHANGED <<status, queue, wr>> /\ "n" \in DOMAIN fl' /\ fl'.n = fl.n
        /\ "stalled" \in DOMAIN calls' /\ (calls'.stalled => status = "open")
        /\ \/ flushPc' = flushPc
           \/ flushPc \in Running /\ flushPc' \in Running

\* A manual flush's switch, a flush's beginning, its end, a close, the end of the
\* process, and its beginning.
Grow == /\ Switch /\ UNCHANGED <<status, wr, fl>> /\ status = "open"
        /\ "stalled" \in DOMAIN calls'
Begin == /\ UNCHANGED <<status, queue, wr, calls>> /\ flushPc' \in Running
         /\ "n" \in DOMAIN fl'
         /\ \/ flushPc = "start" /\ Ready > 0 /\ fl'.n = Ready
            \/ flushPc = "none" /\ status = "closing" /\ fl'.n = Len(queue)
End == /\ flushPc = "end" /\ fl' = NoFlush /\ queue' = Rest
       /\ flushPc' = ScheduleFlush("none", Rest)
       /\ status' = IF status = "closing" /\ Rest = <<>> THEN "flushed" ELSE status
       /\ UNCHANGED <<wr, calls>>
Stop == /\ status = "open" /\ status' = "closing" /\ wr.pc = "idle" /\ ~calls.stalled
        /\ UNCHANGED <<queue, wr, flushPc, fl>> /\ "stalled" \in DOMAIN calls' /\ ~calls'.stalled
Gone == /\ status' = "closed" /\ queue' = <<>> /\ wr' = NoWrite /\ flushPc' = "none"
        /\ fl' = NoFlush /\ "stalled" \in DOMAIN calls' /\ ~calls'.stalled
Begun == /\ status = "closed" /\ status' = "open" /\ queue' = <<NewMem(1)>>
         /\ UNCHANGED <<wr, flushPc, fl, calls>>

\* A reader's, a compaction's or a stalling manual flush's step leaves queue, writer
\* and flush alone.
LEMMA ClientCalm ==
  ASSUME TypeInv, WriterInv,
         \/ \E k \in Keys : Get(k) \/ CompactTo(k)
         \/ Reader \/ Compactor \/ FlushStall
  PROVE  Calm
<1> USE DEF Calm
<1>1. CASE \E k \in Keys : Get(k)
  BY <1>1 DEF Get, TypeInv, WriterInv
<1>2. CASE \E k \in Keys : CompactTo(k)
  BY <1>2 DEF CompactTo, TypeInv, WriterInv
<1>3. CASE Reader
  BY <1>3 DEF Reader, GetLoad, GetTable, GetDone, TypeInv, WriterInv
<1>4. CASE Compactor
  BY <1>4 DEF Compactor, CompactMin, CompactDelete, CompactBegin, CompactSwap, TypeInv,
              WriterInv
<1>5. CASE FlushStall
  BY <1>5 DEF FlushStall, TypeInv, WriterInv
<1> QED
  BY <1>1, <1>2, <1>3, <1>4, <1>5

\* So does the work of a flush between taking the memtables and dropping them.
LEMMA FlushCalm ==
  ASSUME TypeInv, WriterInv,
         \/ FlushKeys \/ FlushVals \/ FlushNum \/ RoomTable
         \/ RoomSwitch \/ RoomBegin \/ RoomSwap \/ RoomMap
  PROVE  Calm
<1> USE DEF Calm, Running, Pcs
<1>1. CASE FlushKeys \/ FlushVals \/ FlushNum
  BY <1>1 DEF FlushKeys, FlushVals, FlushNum, Finish, TypeInv, WriterInv
<1>2. CASE RoomTable
  BY <1>2 DEF RoomTable, TypeInv, WriterInv
<1>3. CASE RoomSwitch \/ RoomMap
  BY <1>3 DEF RoomSwitch, RoomMap, TypeInv, WriterInv
<1>4. CASE RoomBegin
  BY <1>4 DEF RoomBegin, TypeInv, WriterInv
<1>5. CASE RoomSwap
  BY <1>5 DEF RoomSwap, TypeInv, WriterInv
<1> QED
  BY <1>1, <1>2, <1>3, <1>4, <1>5

\* The other steps, without what they do to the bitree.
LEMMA OtherSteps ==
  ASSUME TypeInv, WriterInv
  PROVE  /\ Flush \/ FlushSwitch => Grow
         /\ FlushStart \/ CloseFlush => Begin
         /\ FlushEnd => End
         /\ Close => Stop
         /\ CloseDone \/ Crash => Gone
         /\ Open => Begun
<1>1. Flush \/ FlushSwitch => Grow
  <2>1. Flush => Grow
    BY DEF Flush, Grow, TypeInv, WriterInv
  <2>2. FlushSwitch => Grow
    BY DEF FlushSwitch, Grow, TypeInv, WriterInv
  <2> QED BY <2>1, <2>2
<1>2. FlushStart => Begin
  BY DEF FlushStart, RunFlush, Begin, Running, Pcs, NoFlush
<1>3. CloseFlush => Begin
  BY DEF CloseFlush, RunFlush, Begin, Running, Pcs, NoFlush
<1>4. FlushEnd => End
  BY DEF FlushEnd, End
<1>5. Close => Stop
  BY DEF Close, Stop, TypeInv
<1>6. CloseDone => Gone
  BY DEF CloseDone, Gone, Forget, TypeInv, WriterInv
<1>7. Crash => Gone
  BY DEF Crash, Gone, Forget, TypeInv
<1>8. Open => Begun
  BY DEF Open, Begun
<1> QED
  BY <1>1, <1>2, <1>3, <1>4, <1>5, <1>6, <1>7, <1>8

\* Every step of the DB is of one of these kinds.
LEMMA StepKinds ==
  ASSUME TypeInv, WriterInv, Next
  PROVE  \/ Calm \/ Grow \/ Begin \/ End \/ Stop \/ Gone \/ Begun
         \/ (\E k \in Keys, del \in BOOLEAN : Set(k, del)) \/ Add
<1> HIDE DEF Calm, Grow, Begin, End, Stop, Gone, Begun
<1> QED
  BY ClientCalm, FlushCalm, OtherSteps DEF Next, Flusher
-----------------------------------------------------------------------------
(***************************************************************************)
(* The inductive step, one lemma for each kind of step.                    *)
(***************************************************************************)

\* What a queue of the type is.
LEMMA QueueFact ==
  ASSUME TypeInv
  PROVE  /\ queue \in Seq(Mem) /\ Len(queue) \in Nat /\ DOMAIN queue = 1..Len(queue)
         /\ \A i \in 1..Len(queue) : queue[i] \in Mem /\ queue[i].id \in Nat /\ queue[i].refs \in Nat
<1>1. queue \in Seq(Mem) /\ Len(queue) \in Nat /\ DOMAIN queue = 1..Len(queue)
  BY DEF TypeInv
<1>2. \A i \in 1..Len(queue) : queue[i] \in Mem
  BY <1>1
<1> QED BY <1>1, <1>2 DEF Mem

\* Readers, compactions and the flush's own work keep the invariant.
LEMMA CalmStep ==
  ASSUME IInv, Calm
  PROVE  IInv'
<1> USE DEF IInv
<1>1. UNCHANGED <<status, queue, wr>> /\ fl'.n = fl.n
  BY DEF Calm
<1>2. flushPc' \in Pcs /\ ((flushPc' \in {"none", "start"}) <=> (flushPc \in {"none", "start"}))
      /\ (flushPc' = "none" <=> flushPc = "none")
  BY DEF Calm, TypeInv, Running, Pcs
<1>3. TypeInv'
  BY <1>1, <1>2 DEF TypeInv, Calm
<1>4. StatusInv' /\ IdsInv'
  BY <1>1, <1>2 DEF StatusInv, IdsInv
<1>5. RefsInv'
  BY <1>1 DEF RefsInv, Own, Writing
<1>6. WriterInv'
  BY <1>1 DEF WriterInv, Calm
<1>7. RunInv'
  BY <1>1, <1>2 DEF RunInv
<1>8. FlushComes'
  BY <1>1, <1>2 DEF FlushComes
<1> QED BY <1>3, <1>4, <1>5, <1>6, <1>7, <1>8

\* A manual flush's switch keeps it: without a writer in the old mutable memtable a
\* flush is scheduled, else that writer will.
LEMMA GrowStep ==
  ASSUME IInv, Grow
  PROVE  IInv'
<1> USE DEF IInv
<1> DEFINE n == Len(queue)
           q == NewQueue
<1>1. /\ queue' = q /\ UNCHANGED <<status, wr, fl>> /\ status = "open"
      /\ "stalled" \in DOMAIN calls'
      /\ flushPc' = IF q[n].refs = 0 THEN ScheduleFlush(flushPc, q) ELSE flushPc
  BY DEF Grow, Switch
<1>2. n \in Nat /\ n > 0 /\ n \in 1..n
  BY <1>1, QueueFact DEF StatusInv
<1>3. queue[n].refs > 0
  BY <1>2 DEF RefsInv, Own, Writing
<1>4. /\ q \in Seq(Mem) /\ Len(q) = n + 1
      /\ \A i \in 1..n : q[i].id = queue[i].id
      /\ \A i \in 1..(n - 1) : q[i].refs = queue[i].refs
      /\ q[n].refs = queue[n].refs - 1
      /\ q[n + 1].id = queue[n].id + 1 /\ q[n + 1].refs = 1
  BY <1>2, <1>3, SwitchShape
<1> HIDE DEF n, q
<1>5. /\ flushPc \in Pcs /\ flushPc' \in Pcs /\ flushPc' \in {flushPc, "start"}
      /\ flushPc # "none" => flushPc' = flushPc
      /\ q[n].refs = 0 => flushPc' # "none"
  <2>1. flushPc \in Pcs
    BY DEF TypeInv
  <2>2. Len(q) > 1
    BY <1>2, <1>4
  <2> QED BY <1>1, <2>1, <2>2, ScheduleFact
<1>6. TypeInv'
  BY <1>1, <1>4, <1>5 DEF TypeInv
<1>7. StatusInv'
  BY <1>1, <1>2, <1>4 DEF StatusInv
<1>8. \A i \in 1..n : queue[i].id \in Nat /\ queue[i].id <= queue[n].id
  <2>1. \A i \in 1..n : queue[i].id \in Nat
    BY QueueFact DEF n
  <2>2. \A i \in 1..n : i < n => queue[i].id < queue[n].id
    BY <1>2 DEF IdsInv, n
  <2> QED BY <1>2, <2>1, <2>2
<1>9. IdsInv'
  <2> SUFFICES ASSUME NEW i \in 1..(n + 1), NEW j \in 1..(n + 1), i < j
               PROVE  q[i].id < q[j].id
    BY <1>1, <1>4 DEF IdsInv
  <2>1. i \in 1..n
    BY <1>2
  <2>2. CASE j \in 1..n
    BY <1>4, <2>1, <2>2 DEF IdsInv, n
  <2>3. CASE j = n + 1
    BY <1>2, <1>4, <1>8, <2>1, <2>3
  <2> QED BY <1>2, <2>2, <2>3
<1>10. wr.pc = "add" => wr.mem \in Nat /\ wr.mem <= queue[n].id
  BY <1>8 DEF WriterInv, n
<1>11. RefsInv'
  <2> SUFFICES ASSUME NEW i \in 1..(n + 1)
               PROVE  q[i].refs = (IF i = n + 1 THEN 1 ELSE 0)
                                  + (IF wr.pc = "add" /\ wr.mem = q[i].id THEN 1 ELSE 0)
    BY <1>1, <1>4 DEF RefsInv, Own, Writing
  <2>0. \A j \in 1..n : queue[j].refs = (IF j = n THEN 1 ELSE 0)
                                  + (IF wr.pc = "add" /\ wr.mem = queue[j].id THEN 1 ELSE 0)
    BY DEF RefsInv, Own, Writing, n
  <2>1. CASE i \in 1..(n - 1)
    <3>1. i \in 1..n /\ i # n /\ i # n + 1
      BY <1>2, <2>1
    <3> QED BY <1>4, <2>0, <2>1, <3>1
  <2>2. CASE i = n
    <3>1. n # n + 1
      BY <1>2
    <3> QED BY <1>2, <1>4, <2>0, <2>2, <3>1
  <2>3. CASE i = n + 1
    <3>1. ~(wr.pc = "add" /\ wr.mem = q[n + 1].id)
      BY <1>2, <1>4, <1>8, <1>10
    <3> QED BY <1>4, <2>3, <3>1
  <2> QED BY <1>2, <2>1, <2>2, <2>3
<1>12. WriterInv'
  <2>1. wr.pc = "add" => \E i \in 1..(n + 1) : q[i].id = wr.mem
    BY <1>2, <1>4 DEF WriterInv, n
  <2> QED BY <1>1, <1>4, <2>1 DEF WriterInv
<1>13. RunInv'
  <2> SUFFICES ASSUME flushPc \notin {"none", "start"}
               PROVE  fl.n < n + 1 /\ \A i \in 1..fl.n : q[i].refs = 0
    BY <1>1, <1>2, <1>4, <1>5 DEF RunInv, TypeInv
  <2>1. fl.n \in Nat /\ fl.n < n /\ \A i \in 1..fl.n : i < n => queue[i].refs = 0
    BY <1>1 DEF RunInv, TypeInv, n
  <2>2. \A i \in 1..fl.n : i \in 1..(n - 1) /\ i < n
    BY <1>2, <2>1
  <2> QED BY <1>2, <1>4, <2>1, <2>2
<1>14. FlushComes'
  <2>1. q[n].refs \in Nat
    BY <1>2, <1>3, <1>4, QueueFact DEF n
  <2>2. flushPc' # "none" \/ q[n].refs > 0
    BY <1>5, <2>1
  <2> QED BY <1>1, <1>2, <1>4, <2>2 DEF FlushComes
<1> QED BY <1>6, <1>7, <1>9, <1>11, <1>12, <1>13, <1>14
\* A memtable that Set has prepared has the writer's reference, and the queue's if
\* it is the mutable one; the one a switch leaves behind has none, and is flushed.
LEMMA SetStep ==
  ASSUME IInv, NEW k \in Keys, NEW del \in BOOLEAN, Set(k, del)
  PROVE  IInv'
<1> USE DEF IInv
<1> DEFINE n == Len(queue)
           b == IF Full THEN NewQueue ELSE queue
           m == Len(b)
           q == PrepareBySize(b)
           s == Len(hist.keyOf) + 1
<1>1. /\ queue' = q /\ UNCHANGED <<status, fl, calls>> /\ status = "open" /\ wr.pc = "idle"
      /\ wr' = [pc |-> "add", key |-> k, seq |-> s, mem |-> q[Len(q)].id]
      /\ flushPc' = IF Full /\ q[n].refs = 0 THEN ScheduleFlush(flushPc, q) ELSE flushPc
  BY DEF Set
<1>2. n \in Nat /\ n > 0 /\ n \in 1..n
  BY <1>1, QueueFact DEF StatusInv
<1>3. \A i \in 1..n : queue[i].refs = IF i = n THEN 1 ELSE 0
  BY <1>1, <1>2 DEF RefsInv, Own, Writing
<1>4. Full => /\ NewQueue \in Seq(Mem) /\ Len(NewQueue) = n + 1
              /\ \A i \in 1..n : NewQueue[i].id = queue[i].id
              /\ \A i \in 1..(n - 1) : NewQueue[i].refs = queue[i].refs
              /\ NewQueue[n].refs = queue[n].refs - 1
              /\ NewQueue[n + 1].id = queue[n].id + 1 /\ NewQueue[n + 1].refs = 1
  BY <1>2, <1>3, SwitchShape
<1> HIDE DEF n
<1>5. b \in Seq(Mem) /\ m = (IF Full THEN n + 1 ELSE n) /\ m \in Nat /\ m > 0 /\ m >= n
  BY <1>2, <1>4, QueueFact DEF n
<1>6. \A i \in 1..n : b[i].id = queue[i].id
  BY <1>4
<1>7. \A i \in 1..n : queue[i].id \in Nat /\ queue[i].id <= queue[n].id
  <2>1. \A i \in 1..n : queue[i].id \in Nat
    BY QueueFact DEF n
  <2>2. \A i \in 1..n : i < n => queue[i].id < queue[n].id
    BY <1>2 DEF IdsInv, n
  <2> QED BY <1>2, <2>1, <2>2
<1>8. \A i, j \in 1..m : i < j => b[i].id < b[j].id
  <2> SUFFICES ASSUME NEW i \in 1..m, NEW j \in 1..m, i < j PROVE b[i].id < b[j].id
    OBVIOUS
  <2>1. i \in 1..n
    BY <1>2, <1>5
  <2>2. CASE j \in 1..n
    BY <1>6, <2>1, <2>2 DEF IdsInv, n
  <2>3. CASE Full /\ j = n + 1
    BY <1>2, <1>4, <1>6, <1>7, <2>1, <2>3
  <2> QED BY <1>2, <1>5, <2>2, <2>3
<1>9. \A i \in 1..m : b[i].refs = IF i = m THEN 1 ELSE 0
  <2>1. CASE Full
    <3> SUFFICES ASSUME NEW i \in 1..(n + 1)
                 PROVE  NewQueue[i].refs = IF i = n + 1 THEN 1 ELSE 0
      BY <1>5, <2>1
    <3>1. CASE i \in 1..(n - 1)
      <4>1. i \in 1..n /\ i # n /\ i # n + 1
        BY <1>2, <3>1
      <4> QED BY <1>3, <1>4, <2>1, <3>1, <4>1
    <3>2. CASE i = n
      BY <1>2, <1>3, <1>4, <2>1, <3>2
    <3>3. CASE i = n + 1
      BY <1>4, <2>1, <3>3
    <3> QED BY <1>2, <3>1, <3>2, <3>3
  <2>2. CASE ~Full
    BY <1>3, <1>5, <2>2
  <2> QED BY <2>1, <2>2
<1> HIDE DEF b, m
<1>10. /\ q \in Seq(Mem) /\ Len(q) = m
       /\ \A i \in 1..m : q[i].id = b[i].id
       /\ \A i \in 1..m : q[i].refs = IF i = m THEN 2 ELSE 0
  <2>1. /\ q \in Seq(Mem) /\ Len(q) = m
        /\ \A i \in 1..m : q[i].id = b[i].id
        /\ \A i \in 1..m : q[i].refs = b[i].refs + (IF i = m THEN 1 ELSE 0)
    BY <1>5, PrepareShape DEF m
  <2>2. \A i \in 1..m : q[i].refs = IF i = m THEN 2 ELSE 0
    BY <1>9, <2>1
  <2> QED BY <2>1, <2>2
<1> HIDE DEF q
<1>11. /\ flushPc \in Pcs /\ flushPc' \in Pcs /\ flushPc' \in {flushPc, "start"}
       /\ flushPc # "none" => flushPc' = flushPc
       /\ Full => flushPc' # "none"
  <2>1. flushPc \in Pcs
    BY DEF TypeInv
  <2>2. Full => Len(q) > 1 /\ q[n].refs = 0
    BY <1>2, <1>5, <1>10
  <2> QED BY <1>1, <2>1, <2>2, ScheduleFact
<1>12. wr'.pc = "add" /\ wr'.key = k /\ wr'.mem = q[m].id
  BY <1>1, <1>10
<1>13. wr' \in [pc : {"idle", "add"}, key : Nat, seq : Nat, mem : Nat]
  <2>1. s \in Nat
    BY DEF Set
  <2>2. q[m].id \in Nat
    <3>1. q[m] \in Mem
      BY <1>5, <1>10
    <3> QED BY <3>1 DEF Mem
  <2>3. k \in Nat
    BY SeqAssumption DEF Keys
  <2> HIDE DEF s
  <2> QED BY <1>1, <1>10, <2>1, <2>2, <2>3
<1>14. TypeInv'
  BY <1>1, <1>10, <1>11, <1>13 DEF TypeInv
<1>15. StatusInv'
  BY <1>1, <1>5, <1>10 DEF StatusInv
<1>16. IdsInv'
  BY <1>1, <1>8, <1>10 DEF IdsInv
<1>17. RefsInv'
  <2> SUFFICES ASSUME NEW i \in 1..m
               PROVE  q[i].refs = (IF i = m THEN 1 ELSE 0) + (IF q[m].id = q[i].id THEN 1 ELSE 0)
    BY <1>1, <1>10, <1>12 DEF RefsInv, Own, Writing
  <2>1. CASE i = m
    BY <1>10, <2>1
  <2>2. CASE i # m
    <3>1. i < m /\ m \in 1..m
      BY <1>5, <2>2
    <3>2. q[i].id < q[m].id
      BY <1>8, <1>10, <3>1
    <3>3. q[i].id \in Nat /\ q[m].id \in Nat
      <4>1. q[i] \in Mem /\ q[m] \in Mem
        BY <1>10, <3>1
      <4> QED BY <4>1 DEF Mem
    <3>4. q[i].id # q[m].id
      BY <3>2, <3>3
    <3> QED BY <1>10, <2>2, <3>4
  <2> QED BY <2>1, <2>2
<1>18. WriterInv'
  BY <1>1, <1>5, <1>10, <1>12 DEF WriterInv
<1>19. RunInv'
  <2> SUFFICES ASSUME flushPc \notin {"none", "start"}
               PROVE  fl.n < m /\ \A i \in 1..fl.n : i < m => q[i].refs = 0
    BY <1>1, <1>5, <1>10, <1>11 DEF RunInv, TypeInv
  <2>1. fl.n \in Nat /\ fl.n < n
    BY <1>1 DEF RunInv, TypeInv, n
  <2>2. fl.n < m /\ \A i \in 1..fl.n : i \in 1..m /\ i # m
    BY <1>2, <1>5, <2>1
  <2> QED BY <1>10, <2>2
<1>20. FlushComes'
  <2>1. CASE Full
    BY <1>11, <2>1 DEF FlushComes
  <2>2. CASE ~Full
    <3>1. m = n
      BY <1>5, <2>2
    <3>2. \A i \in 1..(n - 1) : i \in 1..n /\ i # n
      BY <1>2
    <3>3. n > 1 => flushPc # "none"
      BY <1>1, <1>3, <3>2 DEF FlushComes, n
    <3> QED BY <1>1, <1>10, <1>11, <3>1, <3>3 DEF FlushComes
  <2> QED BY <2>1, <2>2
<1> QED BY <1>14, <1>15, <1>16, <1>17, <1>18, <1>19, <1>20

\* A writer that has added its entry leaves, and starts the flush of a memtable it
\* was the last to write.
LEMMA AddStep ==
  ASSUME IInv, Add
  PROVE  IInv'
<1> USE DEF IInv
<1> DEFINE n == Len(queue)
<1>1. PICK i \in 1..n :
           /\ queue[i].id = wr.mem /\ wr.pc = "add"
           /\ queue' \in Seq(Mem) /\ Len(queue') = n
           /\ \A j \in 1..n : queue'[j].id = queue[j].id
           /\ \A j \in 1..n : j # i => queue'[j] = queue[j]
           /\ queue[i].refs > 0 /\ queue'[i].refs = queue[i].refs - 1
           /\ wr' = NoWrite
           /\ flushPc' = IF queue'[i].refs = 0 THEN ScheduleFlush(flushPc, queue') ELSE flushPc
  BY AddShape
<1>2. UNCHANGED <<status, fl, calls>> /\ status = "open"
  BY <1>1 DEF Add, WriterInv
<1>3. n \in Nat /\ n > 0
  BY <1>1, QueueFact
<1> HIDE DEF n
<1>4. \A j \in 1..n : j # i => queue[j].id # queue[i].id
  <2> SUFFICES ASSUME NEW j \in 1..n, j # i, queue[j].id = queue[i].id PROVE FALSE
    OBVIOUS
  <2>1. j < i \/ i < j
    BY <1>3
  <2>2. queue[j].id \in Nat /\ queue[i].id \in Nat
    BY QueueFact DEF n
  <2>3. queue[j].id < queue[i].id \/ queue[i].id < queue[j].id
    BY <2>1 DEF IdsInv, n
  <2> QED BY <2>2, <2>3
<1>5. \A j \in 1..n : queue[j].refs = (IF j = n THEN 1 ELSE 0) + (IF j = i THEN 1 ELSE 0)
  BY <1>1, <1>4 DEF RefsInv, Own, Writing, n
<1>6. \A j \in 1..n : queue'[j].refs = IF j = n THEN 1 ELSE 0
  <2> SUFFICES ASSUME NEW j \in 1..n PROVE queue'[j].refs = IF j = n THEN 1 ELSE 0
    OBVIOUS
  <2>1. CASE j = i
    BY <1>1, <1>5, <2>1
  <2>2. CASE j # i
    BY <1>1, <1>5, <2>2
  <2> QED BY <2>1, <2>2
<1>7. /\ flushPc \in Pcs /\ flushPc' \in Pcs /\ flushPc' \in {flushPc, "start"}
      /\ flushPc # "none" => flushPc' = flushPc
      /\ i # n => flushPc' # "none"
  <2>1. flushPc \in Pcs
    BY DEF TypeInv
  <2>2. i # n => n > 1 /\ queue'[i].refs = 0
    BY <1>3, <1>6
  <2>3. i # n => Len(queue') > 1
    BY <1>1, <2>2
  <2> QED BY <1>1, <1>2, <2>1, <2>2, <2>3, ScheduleFact
<1>8. TypeInv'
  <2>1. wr' \in [pc : {"idle", "add"}, key : Nat, seq : Nat, mem : Nat]
    BY <1>1 DEF NoWrite
  <2> QED BY <1>1, <1>2, <1>7, <2>1 DEF TypeInv
<1>9. StatusInv' /\ IdsInv'
  <2>1. StatusInv'
    BY <1>1, <1>2, <1>3 DEF StatusInv
  <2>2. IdsInv'
    BY <1>1 DEF IdsInv, n
  <2> QED BY <2>1, <2>2
<1>10. wr'.pc = "idle"
  BY <1>1 DEF NoWrite
<1>11. RefsInv'
  BY <1>1, <1>6, <1>10 DEF RefsInv, Own, Writing
<1>12. WriterInv'
  BY <1>2, <1>10 DEF WriterInv
<1>13. RunInv'
  <2> SUFFICES ASSUME flushPc \notin {"none", "start"}
               PROVE  fl.n < n /\ \A j \in 1..fl.n : queue'[j].refs = 0
    BY <1>1, <1>2, <1>3, <1>7 DEF RunInv, TypeInv
  <2>1. fl.n \in Nat /\ fl.n < n
    BY <1>2 DEF RunInv, TypeInv, n
  <2>2. \A j \in 1..fl.n : j \in 1..n /\ j # n
    BY <1>3, <2>1
  <2> QED BY <1>6, <2>1, <2>2
<1>14. FlushComes'
  <2>1. CASE i # n
    BY <1>7, <2>1 DEF FlushComes
  <2>2. CASE i = n
    <3>1. \A j \in 1..(n - 1) : j \in 1..n /\ j # n
      BY <1>3
    <3>2. n > 1 => flushPc # "none"
      BY <1>2, <1>5, <2>2, <3>1 DEF FlushComes, n
    <3> QED BY <1>1, <1>7, <3>2 DEF FlushComes
  <2> QED BY <2>1, <2>2
<1> QED BY <1>8, <1>9, <1>11, <1>12, <1>13, <1>14
\* What a flush takes has no writer, and leaves the mutable memtable.
LEMMA BeginStep ==
  ASSUME IInv, Begin
  PROVE  IInv'
<1> USE DEF IInv
<1> DEFINE n == Len(queue)
<1>1. UNCHANGED <<status, queue, wr, calls>> /\ flushPc' \in Running /\ "n" \in DOMAIN fl'
  BY DEF Begin
<1>2. n \in Nat
  BY QueueFact
<1>3. /\ fl'.n \in Nat /\ fl'.n <= n
      /\ status = "open" => fl'.n < n
      /\ \A i \in 1..fl'.n : i < n => queue[i].refs = 0
  <2>1. CASE flushPc = "start" /\ Ready > 0 /\ fl'.n = Ready
    <3>1. n > 0
      BY <2>1 DEF StatusInv, TypeInv
    <3>2. Ready \in Nat /\ Ready < n /\ \A i \in 1..Ready : queue[i].refs = 0
      BY <2>1, <3>1, QueueFact, ReadyFact
    <3> QED BY <1>2, <2>1, <3>2
  <2>2. CASE flushPc = "none" /\ status = "closing" /\ fl'.n = n
    <3>1. wr.pc # "add"
      BY <2>2 DEF WriterInv
    <3>2. \A i \in 1..n : i < n => queue[i].refs = 0
      BY <1>2, <3>1 DEF RefsInv, Own, Writing
    <3> QED BY <1>2, <2>2, <3>2
  <2> QED BY <2>1, <2>2 DEF Begin
<1> HIDE DEF n
<1>4. TypeInv'
  BY <1>1, <1>3 DEF TypeInv, Running
<1>5. StatusInv'
  <2>1. status \notin {"closed", "flushed"}
    BY DEF Begin, StatusInv
  <2> QED BY <1>1, <2>1 DEF StatusInv
<1>6. IdsInv' /\ RefsInv' /\ WriterInv'
  BY <1>1 DEF IdsInv, RefsInv, WriterInv, Own, Writing
<1>7. RunInv'
  BY <1>1, <1>3 DEF RunInv, n
<1>8. FlushComes'
  BY <1>1 DEF FlushComes, Running
<1> QED BY <1>4, <1>5, <1>6, <1>7, <1>8

\* The flushed memtables go, and what is left is scheduled.
LEMMA EndStep ==
  ASSUME IInv, End
  PROVE  IInv'
<1> USE DEF IInv
<1> DEFINE n == Len(queue)
           m == n - fl.n
           r == Rest
<1>1. /\ flushPc = "end" /\ fl' = NoFlush /\ queue' = r
      /\ flushPc' = ScheduleFlush("none", r) /\ UNCHANGED <<wr, calls>>
      /\ status' = IF status = "closing" /\ r = <<>> THEN "flushed" ELSE status
  BY DEF End
<1>2. n \in Nat /\ fl.n \in Nat /\ fl.n <= n /\ (status = "open" => fl.n < n) /\ queue \in Seq(Mem)
      /\ \A i \in 1..fl.n : i < n => queue[i].refs = 0
  BY <1>1, QueueFact DEF RunInv, TypeInv
<1>3. r \in Seq(Mem) /\ Len(r) = m /\ m \in Nat /\ \A i \in 1..m : r[i] = queue[i + fl.n]
  BY <1>2 DEF Rest
<1> HIDE DEF n, r
<1>4. m <= n /\ (status = "open" => m > 0) /\ \A i \in 1..m : i + fl.n \in 1..n /\ (i + fl.n = n <=> i = m)
  BY <1>2
<1>5. status \in {"open", "closing"}
  BY <1>1 DEF StatusInv, TypeInv
<1>6. /\ flushPc' \in {"none", "start"} /\ (status # "open" => flushPc' = "none")
      /\ status = "open" /\ m > 1 => flushPc' # "none"
  <2>1. "none" \in Pcs
    BY DEF Pcs
  <2> QED BY <1>1, <1>3, <2>1, ScheduleFact
<1>7. TypeInv'
  <2>1. "n" \in DOMAIN fl' /\ fl'.n \in Nat
    BY <1>1 DEF NoFlush
  <2> QED BY <1>1, <1>3, <1>5, <1>6, <2>1 DEF TypeInv, Pcs
<1>8. StatusInv'
  <2>1. r # <<>> => m > 0
    BY <1>3
  <2> QED BY <1>1, <1>3, <1>4, <1>5, <1>6, <2>1 DEF StatusInv
<1>9. IdsInv'
  <2> SUFFICES ASSUME NEW i \in 1..m, NEW j \in 1..m, i < j
               PROVE  queue[i + fl.n].id < queue[j + fl.n].id
    BY <1>1, <1>3 DEF IdsInv
  <2>1. i + fl.n \in 1..n /\ j + fl.n \in 1..n /\ i + fl.n < j + fl.n
    BY <1>2, <1>4
  <2> QED BY <2>1 DEF IdsInv, n
<1>10. RefsInv'
  <2> SUFFICES ASSUME NEW i \in 1..m
               PROVE  queue[i + fl.n].refs =
                        (IF i = m THEN 1 ELSE 0)
                        + (IF wr.pc = "add" /\ wr.mem = queue[i + fl.n].id THEN 1 ELSE 0)
    BY <1>1, <1>3 DEF RefsInv, Own, Writing
  <2>1. i + fl.n \in 1..n /\ (i + fl.n = n <=> i = m)
    BY <1>4
  <2> DEFINE j == i + fl.n
  <2>2. j \in 1..n /\ (j = n <=> i = m)
    BY <2>1
  <2> HIDE DEF j, m
  <2>3. queue[j].refs = (IF j = n THEN 1 ELSE 0)
                        + (IF wr.pc = "add" /\ wr.mem = queue[j].id THEN 1 ELSE 0)
    BY <2>2 DEF RefsInv, Own, Writing, n
  <2> QED BY <2>2, <2>3 DEF j
<1>11. WriterInv'
  <2>1. ASSUME wr.pc = "add" PROVE \E i \in 1..m : r[i].id = wr.mem
    <3>1. PICK j \in 1..n : queue[j].id = wr.mem
      BY <2>1 DEF WriterInv, n
    <3>2. status = "open" /\ fl.n < n
      BY <1>2, <2>1 DEF WriterInv
    <3>3. queue[j].refs >= 1
      BY <2>1, <3>1 DEF RefsInv, Own, Writing, n
    <3>4. ~(j \in 1..fl.n)
      BY <1>2, <3>2, <3>3
    <3>5. j - fl.n \in 1..m /\ (j - fl.n) + fl.n = j
      BY <1>2, <3>1, <3>4
    <3> QED BY <1>3, <3>1, <3>5
  <2>2. status' = "closing" \/ status' = "flushed" \/ status' = "open"
    BY <1>1, <1>5
  <2>3. wr.pc = "add" \/ calls.stalled => status' = "open"
    BY <1>1 DEF WriterInv
  <2> QED BY <1>1, <1>3, <2>1, <2>3 DEF WriterInv
<1>12. RunInv'
  BY <1>6 DEF RunInv
<1>13. FlushComes'
  <2>1. status' = "open" => status = "open"
    BY <1>1
  <2> QED BY <1>1, <1>3, <1>6, <2>1 DEF FlushComes
<1> QED BY <1>7, <1>8, <1>9, <1>10, <1>11, <1>12, <1>13

\* Close waits for the clients; a process that ends or begins has one memtable at
\* most.
LEMMA LifeStep ==
  ASSUME IInv, Stop \/ Gone \/ Begun
  PROVE  IInv'
<1> USE DEF IInv
<1>1. CASE Stop
  <2>1. UNCHANGED <<queue, wr, flushPc, fl>> /\ status = "open" /\ status' = "closing"
        /\ wr.pc = "idle" /\ "stalled" \in DOMAIN calls' /\ ~calls'.stalled
    BY <1>1 DEF Stop
  <2>2. TypeInv' /\ StatusInv'
    BY <2>1 DEF TypeInv, StatusInv
  <2>3. IdsInv' /\ RefsInv'
    BY <2>1 DEF IdsInv, RefsInv, Own, Writing
  <2>4. WriterInv' /\ RunInv' /\ FlushComes'
    BY <2>1 DEF WriterInv, RunInv, FlushComes
  <2> QED BY <2>2, <2>3, <2>4
<1>2. CASE Gone
  <2>1. /\ status' = "closed" /\ queue' = <<>> /\ wr' = NoWrite /\ flushPc' = "none"
        /\ fl' = NoFlush /\ "stalled" \in DOMAIN calls' /\ ~calls'.stalled
    BY <1>2 DEF Gone
  <2>2. TypeInv'
    BY <2>1 DEF TypeInv, NoWrite, NoFlush, Pcs
  <2>3. StatusInv' /\ IdsInv' /\ RefsInv'
    BY <2>1 DEF StatusInv, IdsInv, RefsInv
  <2>4. WriterInv' /\ RunInv' /\ FlushComes'
    BY <2>1 DEF WriterInv, RunInv, FlushComes, NoWrite
  <2> QED BY <2>2, <2>3, <2>4
<1>3. CASE Begun
  <2>1. /\ status = "closed" /\ status' = "open" /\ queue' = <<NewMem(1)>>
        /\ UNCHANGED <<wr, flushPc, fl, calls>>
    BY <1>3 DEF Begun
  <2>2. wr.pc = "idle" /\ flushPc = "none"
    BY <2>1 DEF WriterInv, StatusInv, TypeInv
  <2>3. NewMem(1) \in Mem /\ NewMem(1).refs = 1
    BY NewMemFact
  <2>4. Len(queue') = 1 /\ queue'[1] = NewMem(1) /\ queue' \in Seq(Mem)
    BY <2>1, <2>3
  <2>5. TypeInv'
    BY <2>1, <2>4 DEF TypeInv
  <2>6. StatusInv' /\ IdsInv'
    BY <2>1, <2>4 DEF StatusInv, IdsInv
  <2>7. RefsInv'
    BY <2>1, <2>2, <2>3, <2>4 DEF RefsInv, Own, Writing
  <2>8. WriterInv' /\ RunInv' /\ FlushComes'
    BY <2>1, <2>2, <2>4 DEF WriterInv, RunInv, FlushComes
  <2> QED BY <2>5, <2>6, <2>7, <2>8
<1> QED BY <1>1, <1>2, <1>3

\* A DB that was never opened has neither queue nor flush.
LEMMA IInit == Init => IInv
<1> SUFFICES ASSUME Init PROVE IInv
  OBVIOUS
<1>1. TypeInv
  BY DEF Init, TypeInv, NoWrite, NoFlush, Pcs
<1>2. StatusInv /\ IdsInv /\ RefsInv
  BY DEF Init, StatusInv, IdsInv, RefsInv
<1>3. WriterInv /\ RunInv /\ FlushComes
  BY DEF Init, WriterInv, RunInv, FlushComes, NoWrite
<1> QED BY <1>1, <1>2, <1>3 DEF IInv

\* Every step keeps the invariant.
LEMMA IStep == IInv /\ [Next]_vars => IInv'
<1> SUFFICES ASSUME IInv, [Next]_vars PROVE IInv'
  OBVIOUS
<1>1. CASE UNCHANGED vars
  <2>1. Calm
    BY <1>1 DEF vars, Calm, IInv, TypeInv, WriterInv
  <2> QED BY <2>1, CalmStep
<1>2. CASE Next
  <2>1. TypeInv /\ WriterInv
    BY DEF IInv
  <2> QED
    BY <1>2, <2>1, StepKinds, CalmStep, GrowStep, BeginStep, EndStep, LifeStep, SetStep, AddStep
<1> QED BY <1>1, <1>2

\* The sequential DB's queue, reference counts, writer and flush fit together in
\* every reachable state (sequential_db.go, sequential_flush.go).
THEOREM QueueSound == Spec => []IInv
<1>1. Init => IInv
  BY IInit
<1>2. IInv /\ [Next]_vars => IInv'
  BY IStep
<1> QED
  BY <1>1, <1>2, PTL DEF Spec

\* No wakeup is lost: while the open sequential DB has an immutable memtable, a flush
\* is scheduled or running, or a writer still holds a reference and will schedule it
\* (Set, makeRoomForWrite, maybeScheduleFlush, flush).
THEOREM FlushAlwaysComes == Spec => []FlushComes
<1>1. IInv => FlushComes
  BY DEF IInv
<1> QED
  BY <1>1, QueueSound, PTL
-----------------------------------------------------------------------------
(***************************************************************************)
(* No super table that is needed goes: NeededStay.                         *)
(*                                                                         *)
(* A table may be freed when its number is at most meta.min, so what has   *)
(* to be shown is that the number of the table of a key that is not below  *)
(* the compaction's stays above it.  meta.min comes from the version of    *)
(* the index that the pool had when CompactTo read it, and that version    *)
(* may be older than the index.  AheadInv therefore compares the table of  *)
(* a key with the bounds below the key in every version that is left, and, *)
(* while a compaction is between reading and recording it, with the number *)
(* it is about to record.                                                  *)
(***************************************************************************)
Places == 1..BdbMaxKey

\* The types of the bitree's state, and what a version of the index is.
TreeTypeInv ==
  /\ meta \in [min : Nat, next : Nat \ {0}] /\ meta.min < meta.next
  /\ {"cut", "hidden"} \subseteq DOMAIN hist
  /\ hist.cut \in 0..MaxKey /\ hist.hidden \subseteq Keys
  /\ DOMAIN fl = DOMAIN NoFlush /\ fl.ver \in Nat
  /\ cp \in [pc : {"idle", "min", "delete", "begin", "swap"}, keys : SUBSET Places,
             fn : Nat, ver : Nat]

VersInv ==
  /\ DOMAIN vers \subseteq Nat /\ DOMAIN vers # {}
  /\ \E m \in Nat : \A v \in DOMAIN vers : v <= m
  /\ \A v \in DOMAIN vers :
       /\ DOMAIN vers[v] \subseteq Places
       /\ \A b \in DOMAIN vers[v] : vers[v][b] \in Nat \ {0} /\ vers[v][b] < meta.next
       /\ status # "closed" => BdbMaxKey \in DOMAIN vers[v]

\* The versions in use are still there.
PinInv ==
  /\ status # "closed" => pool \in DOMAIN vers /\ pool # 0
  /\ fl.ver # 0 => fl.ver \in DOMAIN vers
  /\ cp.ver # 0 => cp.ver \in DOMAIN vers
  /\ flushPc = "swap" => fl.ver # 0
  /\ cp.pc = "swap" => cp.ver # 0
  /\ status = "closed" => /\ cp.pc = "idle" /\ rd.pc = "idle" /\ flushPc = "none"
                          /\ cp.ver = 0 /\ fl.ver = 0

\* Table t is above all that is, or is about to be, given up for keys below k.
Ahead(t, k) ==
  /\ t > meta.min /\ t \in DOMAIN files
  /\ cp.pc = "min" => t > cp.fn
  /\ \A v \in DOMAIN vers : \A b \in DOMAIN vers[v] : b < k => vers[v][b] < t

AheadInv ==
  \A k \in Places \ hist.hidden :
    k >= hist.cut /\ Seek(Index, k) # 0 => Ahead(Seek(Index, k), k)

\* The largest bound names the mutable table, or the one that is about to be; a flush
\* fills the mutable table, and its last key is a key.
FillInv ==
  status # "closed" =>
    /\ flushPc \notin {"begin", "swap", "map"} => Index[BdbMaxKey] = stMutable
    /\ flushPc \in {"begin", "swap", "map"} => Index[BdbMaxKey] = fl.new
    /\ flushPc \in {"keys", "vals", "num", "room", "switch"} =>
         fl.st = stMutable /\ LastKey \in Keys
    /\ flushPc = "switch" =>
         /\ fl.new \in DOMAIN files /\ fl.new \in Nat /\ fl.new < meta.next
         /\ \A v \in DOMAIN vers : \A b \in DOMAIN vers[v] : vers[v][b] < fl.new

\* What a compaction deletes is below the keys it was called for.
CutInv ==
  /\ cp.pc \in {"min", "delete"} => \A b \in cp.keys : b < hist.cut
  /\ cp.pc = "min" => cp.fn < meta.next

TreeInv == TreeTypeInv /\ VersInv /\ PinInv /\ AheadInv /\ FillInv /\ CutInv

\* The current version is the largest, so it is there.
LEMMA CurFact ==
  ASSUME VersInv
  PROVE  /\ Cur \in DOMAIN vers /\ Cur \in Nat /\ \A v \in DOMAIN vers : v <= Cur
         /\ Index = vers[Cur] /\ DOMAIN Index \subseteq Places
         /\ \A b \in DOMAIN Index : Index[b] \in Nat \ {0} /\ Index[b] < meta.next
<1>1. PICK m \in Nat : \A v \in DOMAIN vers : v <= m
  BY DEF VersInv
<1>2. DOMAIN vers \subseteq Nat /\ DOMAIN vers # {}
  BY DEF VersInv
<1>3. Cur \in DOMAIN vers /\ \A v \in DOMAIN vers : Cur >= v
  <2> DEFINE D == DOMAIN vers
  <2>1. D \subseteq Nat /\ D # {} /\ \A v \in D : v <= m
    BY <1>1, <1>2
  <2> HIDE DEF D
  <2>2. Max(D) \in D /\ \A v \in D : Max(D) >= v
    BY <2>1, MaxFact
  <2> QED BY <2>2 DEF D, Cur
<1>4. Index = vers[Cur]
  BY DEF Index
<1> QED BY <1>2, <1>3, <1>4 DEF VersInv

\* Cursor.Seek lands on the first bound at or above the key.
LEMMA SeekFact ==
  ASSUME NEW i, DOMAIN i \subseteq Places, NEW k \in Places,
         \A b \in DOMAIN i : i[b] # 0
  PROVE  \/ Seek(i, k) = 0 /\ \A b \in DOMAIN i : b < k
         \/ \E c \in DOMAIN i : /\ c >= k /\ Seek(i, k) = i[c] /\ Seek(i, k) # 0
                                /\ \A b \in DOMAIN i : b >= k => b >= c
<1> DEFINE up == {b \in DOMAIN i : b >= k}
<1>0. BdbMaxKey \in Nat
  BY SeqAssumption DEF BdbMaxKey
<1>1. Places \subseteq Nat
  BY <1>0 DEF Places
<1>2. CASE up = {}
  <2>1. Seek(i, k) = 0
    BY <1>2 DEF Seek
  <2>2. ASSUME NEW b \in DOMAIN i PROVE b < k
    <3>1. b \notin up
      BY <1>2
    <3>2. b \in Nat /\ k \in Nat /\ ~(b >= k)
      BY <1>1, <3>1
    <3> QED BY <3>2
  <2> QED BY <2>1, <2>2
<1>3. CASE up # {}
  <2> DEFINE c == Min(up)
  <2>1. c \in up /\ \A b \in up : c <= b
    <3>1. up \subseteq Nat
      BY <1>1
    <3> HIDE DEF up
    <3> QED BY <1>3, <3>1, MinFact
  <2>2. Seek(i, k) = i[c]
    BY <1>3 DEF Seek
  <2> HIDE DEF c
  <2>3. \A b \in DOMAIN i : b >= k => b >= c
    BY <1>1, <2>1
  <2> QED BY <2>1, <2>2, <2>3
<1> QED BY <1>2, <1>3

\* The first bound at or above a key is all Seek depends on.
LEMMA SeekIs ==
  ASSUME NEW i, DOMAIN i \subseteq Places, NEW k \in Places,
         \A b \in DOMAIN i : i[b] # 0,
         NEW c \in DOMAIN i, c >= k, \A b \in DOMAIN i : b >= k => b >= c
  PROVE  Seek(i, k) = i[c]
<1>0. Places \subseteq Nat
  BY SeqAssumption DEF BdbMaxKey, Places
<1>1. PICK d \in DOMAIN i : d >= k /\ Seek(i, k) = i[d] /\ \A b \in DOMAIN i : b >= k => b >= d
  <2>0. c \in Nat /\ k \in Nat /\ c >= k
    BY <1>0
  <2>1. ~(c < k)
    BY ONLY <2>0
  <2> QED BY <2>1, SeekFact
<1>2. c \in Nat /\ d \in Nat /\ k \in Nat
  BY <1>0
<1>3. c = d
  BY <1>1, <1>2
<1> QED BY <1>1, <1>3

\* freePages releases neither the current version nor one in use.
LEMMA ReleasedFact ==
  ASSUME NEW p, NEW F \in Released(p)
  PROVE  F \subseteq DOMAIN vers /\ Cur \notin F /\ \A v \in p : v \notin F
BY DEF Released

\* What a release frees is not above meta.min (checkStFreed).
LEMMA FreeFact ==
  ASSUME NEW F, Free(F)
  PROVE  /\ \A t \in DOMAIN stMap : ~(t <= meta.min) => t \in DOMAIN stMap'
         /\ \A t \in DOMAIN files : ~(t <= meta.min) => t \in DOMAIN files'
<1>1. \A t \in Freed(F) : t <= meta.min
  BY DEF Freed
<1>2. DOMAIN stMap' = DOMAIN stMap \ Freed(F)
  BY DEF Free, Drop
<1>3. DOMAIN files' = DOMAIN files \ (Freed(F) \cap DOMAIN stMap)
  BY DEF Free, Drop
<1> QED BY <1>1, <1>2, <1>3

\* The tables above meta.min stay.
Keeping ==
  /\ \A t \in DOMAIN stMap : ~(t <= meta.min) => t \in DOMAIN stMap'
  /\ \A t \in DOMAIN files : ~(t <= meta.min) => t \in DOMAIN files'

\* Only versions that are not current go.
Thin ==
  /\ DOMAIN vers' \subseteq DOMAIN vers /\ Cur \in DOMAIN vers'
  /\ \A v \in DOMAIN vers' : vers'[v] = vers[v]

\* A release is such a step, and leaves the versions in use.
LEMMA ReleaseThin ==
  ASSUME VersInv, NEW p, NEW F \in Released(p), Free(F), vers' = Drop(vers, F)
  PROVE  Thin /\ Keeping /\ \A v \in p : v \in DOMAIN vers => v \in DOMAIN vers'
<1>1. Keeping
  BY FreeFact DEF Keeping
<1>2. F \subseteq DOMAIN vers /\ Cur \notin F /\ \A v \in p : v \notin F
  BY ReleasedFact
<1>3. DOMAIN vers' = DOMAIN vers \ F /\ \A v \in DOMAIN vers' : vers'[v] = vers[v]
  BY DEF Drop
<1> QED BY <1>1, <1>2, <1>3, CurFact DEF Thin

\* The index is the same after it,
LEMMA ThinFact ==
  ASSUME VersInv, Thin
  PROVE  Cur' = Cur /\ Index' = Index
<1>1. Cur \in DOMAIN vers /\ Cur \in Nat /\ \A v \in DOMAIN vers : v <= Cur
  BY CurFact
<1> DEFINE D == DOMAIN vers'
<1>2. D \subseteq Nat /\ Cur \in D /\ \A v \in D : v <= Cur
  BY <1>1 DEF Thin, VersInv
<1> DEFINE m == Max(D)
<1>3. m \in D /\ \A v \in D : m >= v
  <2> HIDE DEF D
  <2> QED BY <1>1, <1>2, MaxFact
<1>4. m = Cur
  <2> HIDE DEF D, m
  <2>1. m \in Nat /\ m <= Cur /\ m >= Cur
    BY <1>2, <1>3
  <2> QED BY <1>1, <2>1
<1>5. Cur' = Cur
  BY <1>4 DEF Cur
<1>6. Index' = vers'[Cur'] /\ Index = vers[Cur]
  BY DEF Index
<1>7. vers'[Cur] = vers[Cur]
  BY DEF Thin
<1> QED BY <1>5, <1>6, <1>7

\* the versions that are left are as they were,
LEMMA ThinVers ==
  ASSUME VersInv, Thin, meta'.next >= meta.next, meta.next \in Nat, meta'.next \in Nat,
         status # "closed" \/ status' = "closed"
  PROVE  VersInv'
<1>1. PICK m \in Nat : \A v \in DOMAIN vers : v <= m
  BY DEF VersInv
<1>2. DOMAIN vers' \subseteq Nat /\ DOMAIN vers' # {} /\ \A v \in DOMAIN vers' : v <= m
  BY <1>1 DEF VersInv, Thin
<1>3. ASSUME NEW v \in DOMAIN vers'
      PROVE  /\ DOMAIN vers'[v] \subseteq Places
             /\ \A b \in DOMAIN vers'[v] : vers'[v][b] \in Nat \ {0} /\ vers'[v][b] < meta'.next
             /\ status' # "closed" => BdbMaxKey \in DOMAIN vers'[v]
  <2>1. v \in DOMAIN vers /\ vers'[v] = vers[v]
    BY DEF Thin
  <2>2. /\ DOMAIN vers[v] \subseteq Places
        /\ \A b \in DOMAIN vers[v] : vers[v][b] \in Nat \ {0} /\ vers[v][b] < meta.next
        /\ status # "closed" => BdbMaxKey \in DOMAIN vers[v]
    BY <2>1 DEF VersInv
  <2> QED BY <2>1, <2>2
<1> QED BY <1>2, <1>3 DEF VersInv, Places, BdbMaxKey

\* and no table gets ahead of a key's.
LEMMA ThinAhead ==
  ASSUME TreeTypeInv, VersInv, AheadInv, Thin, Keeping, meta'.min = meta.min,
         hist'.cut = hist.cut, hist'.hidden = hist.hidden,
         cp'.pc = "min" => cp.pc = "min" /\ cp'.fn = cp.fn
  PROVE  AheadInv'
<1> SUFFICES ASSUME NEW k \in Places, k \notin hist.hidden, k >= hist.cut, Seek(Index, k) # 0
             PROVE  Ahead(Seek(Index, k), k)'
  BY ThinFact DEF AheadInv, Seek, Places, BdbMaxKey
<1> DEFINE t == Seek(Index, k)
<1>1. Ahead(t, k)
  BY DEF AheadInv
<1>2. Seek(Index, k)' = t
  BY ThinFact DEF Seek
<1>3. t \in Nat
  <2>1. t \in Nat \ {0}
    BY CurFact, SeekFact
  <2> QED BY <2>1
<1> HIDE DEF t
<1>4. t > meta'.min /\ t \in DOMAIN files'
  BY <1>1, <1>3 DEF Ahead, Keeping, TreeTypeInv
<1>5. cp'.pc = "min" => t > cp'.fn
  BY <1>1 DEF Ahead
<1>6. \A v \in DOMAIN vers' : \A b \in DOMAIN vers'[v] : b < k => vers'[v][b] < t
  BY <1>1 DEF Ahead, Thin
<1> QED BY <1>2, <1>4, <1>5, <1>6 DEF Ahead

\* hist as far as the bitree's invariant reads it.
SameHist ==
  /\ hist'.cut = hist.cut /\ hist'.hidden = hist.hidden
  /\ {"cut", "hidden"} \subseteq DOMAIN hist'

\* The parts that follow from that alone.
LEMMA ThinTree ==
  ASSUME TreeInv, Thin, Keeping, meta' = meta, SameHist, status # "closed",
         cp'.pc = "min" => cp.pc = "min" /\ cp'.fn = cp.fn
  PROVE  VersInv' /\ AheadInv' /\ Index' = Index /\ Cur \in DOMAIN vers'
<1>1. TreeTypeInv /\ VersInv /\ AheadInv
  BY DEF TreeInv
<1>2. meta.next \in Nat /\ meta'.next = meta.next /\ meta'.min = meta.min
  BY <1>1 DEF TreeTypeInv
<1>3. VersInv'
  BY <1>1, <1>2, ThinVers
<1>4. AheadInv'
  BY <1>1, <1>2, ThinAhead DEF SameHist
<1> QED BY <1>1, <1>3, <1>4, ThinFact DEF Thin

\* A step that leaves the bitree alone.
Idle ==
  /\ UNCHANGED <<vers, pool, meta, stMutable, fl, cp>> /\ SameHist
  /\ DOMAIN files' = DOMAIN files /\ DOMAIN stMap' = DOMAIN stMap
  /\ status # "closed" /\ status' # "closed"
  /\ flushPc' = flushPc \/ (flushPc = "none" /\ flushPc' = "start")

\* It keeps the bitree's invariant.
LEMMA IdleTree ==
  ASSUME TreeInv, Idle
  PROVE  TreeInv' /\ Keeping
<1>1. Thin /\ Keeping
  BY CurFact DEF TreeInv, Idle, Thin, Keeping
<1>2. VersInv' /\ AheadInv' /\ Index' = Index
  BY <1>1, ThinTree DEF Idle
<1>3. TreeTypeInv'
  BY DEF TreeInv, TreeTypeInv, Idle, SameHist, Places, BdbMaxKey, NoFlush, Keys
<1>4. PinInv'
  BY DEF TreeInv, PinInv, Idle
<1>5. FillInv'
  <2>1. FillInv /\ fl' = fl /\ stMutable' = stMutable /\ meta' = meta /\ vers' = vers
        /\ DOMAIN files' = DOMAIN files /\ status # "closed"
    BY DEF TreeInv, Idle
  <2>2. LastKey' = LastKey
    BY <2>1 DEF LastKey
  <2> QED BY <1>2, <2>1, <2>2 DEF FillInv, Idle, Keys, BdbMaxKey
<1>6. CutInv'
  BY DEF TreeInv, CutInv, Idle, SameHist
<1> QED BY <1>1, <1>2, <1>3, <1>4, <1>5, <1>6 DEF TreeInv

\* Set, Add, the manual flush, Get and Close are such steps.
LEMMA ClientIdle ==
  ASSUME IInv, TreeInv,
         \/ \E k \in Keys : Get(k) \/ \E del \in BOOLEAN : Set(k, del)
         \/ Add \/ Flush \/ FlushStall \/ FlushSwitch \/ GetLoad \/ GetDone \/ Close
  PROVE  Idle
<1>0. TypeInv /\ WriterInv /\ TreeTypeInv /\ PinInv /\ flushPc \in Pcs
  BY DEF IInv, TypeInv, TreeInv
<1>1. \A q : /\ ScheduleFlush(flushPc, q) \in {flushPc, "start"}
             /\ flushPc # "none" => ScheduleFlush(flushPc, q) = flushPc
  BY <1>0, ScheduleFact
<1>2. \A q : \/ ScheduleFlush(flushPc, q) = flushPc
             \/ flushPc = "none" /\ ScheduleFlush(flushPc, q) = "start"
  BY <1>1
<1> HIDE DEF ScheduleFlush
<1>3. CASE \E k \in Keys : Get(k)
  BY <1>0, <1>3 DEF Get, Idle, SameHist, TreeTypeInv, treeVars
<1>4. CASE \E k \in Keys : \E del \in BOOLEAN : Set(k, del)
  <2>1. PICK k \in Keys, del \in BOOLEAN : Set(k, del)
    BY <1>4
  <2>2. SameHist
    BY <1>0, <2>1 DEF Set, SameHist, TreeTypeInv
  <2>3. flushPc' = flushPc \/ (flushPc = "none" /\ flushPc' = "start")
    BY <1>2, <2>1 DEF Set
  <2> QED BY <2>1, <2>2, <2>3 DEF Set, Idle, treeVars
<1>5. CASE Add
  <2>1. PICK i \in DOMAIN queue :
          LET q == [queue EXCEPT ![i].data[wr.key] = wr.seq, ![i].refs = @ - 1] IN
          /\ wr.pc = "add"
          /\ flushPc' = IF q[i].refs = 0 THEN ScheduleFlush(flushPc, q) ELSE flushPc
          /\ hist' = [hist EXCEPT !.latest[wr.key] = wr.seq]
          /\ UNCHANGED <<treeVars, status, fl, cp>>
    BY <1>5 DEF Add
  <2>2. SameHist
    BY <1>0, <2>1 DEF SameHist, TreeTypeInv
  <2>3. flushPc' = flushPc \/ (flushPc = "none" /\ flushPc' = "start")
    BY <1>2, <2>1
  <2>4. status = "open"
    BY <1>0, <2>1 DEF WriterInv
  <2> QED BY <2>1, <2>2, <2>3, <2>4 DEF Idle, treeVars
<1>6. CASE Flush \/ FlushSwitch
  <2>1. Switch /\ UNCHANGED <<treeVars, status, fl, cp, hist>> /\ (status = "open" \/ calls.stalled)
    BY <1>6 DEF Flush, FlushSwitch
  <2>2. flushPc' = flushPc \/ (flushPc = "none" /\ flushPc' = "start")
    BY <1>2, <2>1 DEF Switch
  <2>3. status = "open"
    BY <1>0, <2>1 DEF WriterInv
  <2> QED BY <1>0, <2>1, <2>2, <2>3 DEF Idle, SameHist, TreeTypeInv, treeVars
<1>7. CASE FlushStall \/ Close
  BY <1>0, <1>7 DEF FlushStall, Close, Idle, SameHist, TreeTypeInv, treeVars
<1>8. CASE GetLoad \/ GetDone
  <2>1. rd.pc # "idle" /\ UNCHANGED <<treeVars, status, flushPc, fl, cp, hist>>
    BY <1>8 DEF GetLoad, GetDone
  <2> QED BY <1>0, <2>1 DEF Idle, SameHist, TreeTypeInv, treeVars, PinInv
<1> QED BY <1>3, <1>4, <1>5, <1>6, <1>7, <1>8

\* What a flush has to write is empty, or its last key is a key.
LEMMA EntriesFact ==
  ASSUME NEW q
  PROVE  LET e == Entries(q) IN e # <<>> => e[Len(e)].key \in Keys
<1> DEFINE newest(k) == Max({q[i].data[k] : i \in DOMAIN q})
           S == {k \in Keys : newest(k) # 0}
           ks == Ascending(S)
           c == Cardinality(S)
           e == Entries(q)
<1>1. MaxKey \in Nat /\ S \in SUBSET (1..MaxKey)
  BY SeqAssumption DEF Keys
<1>2. e = [i \in DOMAIN ks |-> [key |-> ks[i], val |-> Value(newest(ks[i]))]]
  BY DEF Entries
<1>3. c \in Nat /\ ks \in [1..c -> S]
  <2> HIDE DEF S
  <2> QED BY <1>1, AscendingFact
<1>4. S \subseteq Keys
  OBVIOUS
<1> HIDE DEF newest, S, ks, c, e
<1>5. e = [i \in 1..c |-> [key |-> ks[i], val |-> Value(newest(ks[i]))]]
  BY <1>2, <1>3
<1>6. Len(e) = c
  BY <1>3, <1>5
<1>7. c = 0 => e = <<>>
  BY <1>5
<1>8. c # 0 => e[c].key = ks[c] /\ ks[c] \in S
  BY <1>3, <1>5
<1> QED BY <1>4, <1>6, <1>7, <1>8 DEF e

\* FlushStart and CloseFlush take the mutable table.
LEMMA RunTree ==
  ASSUME TreeInv, IInv, FlushStart \/ CloseFlush
  PROVE  TreeInv' /\ Keeping
<1>1. PICK n : RunFlush(n)
  BY DEF FlushStart, CloseFlush
<1>2. /\ UNCHANGED <<treeVars, status, cp>> /\ flushPc \in {"start", "none"}
      /\ status # "closed"
  <2>1. CASE FlushStart
    <3>1. flushPc = "start" /\ UNCHANGED <<treeVars, status, cp>>
      BY <2>1 DEF FlushStart, RunFlush
    <3> QED BY <3>1 DEF TreeInv, PinInv
  <2>2. CASE CloseFlush
    BY <2>2 DEF CloseFlush, RunFlush
  <2> QED BY <2>1, <2>2
<1> DEFINE buf == Entries(SubSeq(queue, 1, n))
<1>3. fl' = [NoFlush EXCEPT !.n = n, !.buf = buf, !.st = stMutable]
  BY <1>1 DEF RunFlush
<1>4. flushPc' = IF buf = <<>> THEN "end" ELSE "keys"
  BY <1>1 DEF RunFlush
<1>5. buf # <<>> => buf[Len(buf)].key \in Keys
  BY EntriesFact
<1>6. \E A, B : hist' = [hist EXCEPT !.rewritten = A, !.misplaced = B]
  BY <1>1 DEF RunFlush
<1>7. SameHist
  BY <1>6 DEF SameHist, TreeInv, TreeTypeInv
<1> HIDE DEF buf
<1>8. DOMAIN fl' = DOMAIN NoFlush /\ fl'.ver = 0 /\ fl'.st = stMutable /\ fl'.buf = buf
  BY <1>3 DEF NoFlush
<1>9. Thin /\ Keeping
  BY <1>2, CurFact DEF TreeInv, Thin, Keeping, treeVars
<1>10. VersInv' /\ AheadInv' /\ Index' = Index
  BY <1>2, <1>7, <1>9, ThinTree DEF treeVars
<1>11. TreeTypeInv'
  BY <1>2, <1>7, <1>8 DEF TreeInv, TreeTypeInv, SameHist, treeVars, Places, BdbMaxKey, NoFlush, Keys
<1>12. PinInv'
  BY <1>2, <1>4, <1>8 DEF TreeInv, PinInv, treeVars
<1>13. FillInv'
  <2>1. flushPc' = "keys" => LastKey' \in Keys
    BY <1>4, <1>5, <1>8 DEF LastKey
  <2> QED BY <1>2, <1>4, <1>8, <1>10, <2>1 DEF TreeInv, FillInv, treeVars, BdbMaxKey, Keys
<1>14. CutInv'
  BY <1>2, <1>7 DEF TreeInv, CutInv, SameHist, treeVars
<1> QED BY <1>9, <1>10, <1>11, <1>12, <1>13, <1>14 DEF TreeInv

\* The flush's writes, the table it creates and the map leave the index alone.
LEMMA WriteTree ==
  ASSUME TreeInv, FlushKeys \/ FlushVals \/ FlushNum \/ FlushEnd
  PROVE  TreeInv' /\ Keeping
<1>0. TreeTypeInv /\ VersInv /\ PinInv /\ FillInv /\ CutInv
  BY DEF TreeInv
<1>1. UNCHANGED <<vers, pool, meta, stMutable, cp>> /\ flushPc # "none"
  BY DEF FlushKeys, FlushVals, FlushNum, Finish, FlushEnd, treeVars
<1>2. status # "closed"
  BY <1>0, <1>1 DEF PinInv
<1>3. status' # "closed"
  BY <1>2 DEF FlushKeys, FlushVals, FlushNum, Finish, FlushEnd
<1>4. SameHist
  <2>1. CASE FlushEnd
    BY <1>0, <2>1 DEF FlushEnd, SameHist, TreeTypeInv
  <2>2. CASE FlushKeys \/ FlushVals \/ FlushNum
    BY <1>0, <2>2 DEF FlushKeys, FlushVals, FlushNum, Finish, SameHist, TreeTypeInv
  <2> QED BY <2>1, <2>2
<1>5. DOMAIN files' = DOMAIN files /\ DOMAIN stMap' = DOMAIN stMap
  BY DEF FlushKeys, FlushVals, FlushNum, Finish, FlushEnd, treeVars
<1>6. Thin /\ Keeping
  BY <1>0, <1>1, <1>5, CurFact DEF Thin, Keeping
<1>7. VersInv' /\ AheadInv' /\ Index' = Index
  BY <1>1, <1>2, <1>4, <1>6, ThinTree
<1>8. CASE FlushEnd
  <2>1. fl' = NoFlush /\ flushPc = "end" /\ flushPc' = ScheduleFlush("none", Rest)
    BY <1>8 DEF FlushEnd
  <2>2. flushPc' \in {"none", "start"}
    BY <2>1 DEF ScheduleFlush
  <2>3. fl'.ver = 0
    BY <2>1 DEF NoFlush
  <2>4. TreeTypeInv'
    BY <1>0, <1>1, <1>4, <2>1, <2>3 DEF TreeTypeInv, SameHist, Places, BdbMaxKey, NoFlush, Keys
  <2>5. PinInv'
    BY <1>0, <1>1, <1>2, <1>3, <2>2, <2>3 DEF PinInv
  <2>6. FillInv'
    BY <1>0, <1>1, <1>2, <1>7, <2>1, <2>2 DEF FillInv, BdbMaxKey
  <2>7. CutInv'
    BY <1>0, <1>1, <1>4 DEF CutInv, SameHist
  <2> QED BY <1>6, <1>7, <2>4, <2>5, <2>6, <2>7 DEF TreeInv
<1>9. CASE FlushKeys \/ FlushVals \/ FlushNum
  <2>1. /\ fl' = fl /\ flushPc \in {"keys", "vals", "num"}
        /\ flushPc' \in {"vals", "num", "room", "end"} /\ status' = status
    BY <1>9 DEF FlushKeys, FlushVals, FlushNum, Finish
  <2>2. LastKey' = LastKey
    BY <2>1 DEF LastKey
  <2>4. TreeTypeInv'
    BY <1>0, <1>1, <1>4, <2>1 DEF TreeTypeInv, SameHist, Places, BdbMaxKey, NoFlush, Keys
  <2>5. PinInv'
    BY <1>0, <1>1, <1>2, <2>1 DEF PinInv
  <2>6. FillInv'
    BY <1>0, <1>1, <1>2, <1>7, <2>1, <2>2 DEF FillInv, BdbMaxKey, Keys
  <2>7. CutInv'
    BY <1>0, <1>1, <1>4 DEF CutInv, SameHist
  <2> QED BY <1>6, <1>7, <2>4, <2>5, <2>6, <2>7 DEF TreeInv
<1> QED BY <1>8, <1>9

\* A new super table has a number above all there are.
LEMMA RoomTableTree ==
  ASSUME TreeInv, RoomTable
  PROVE  TreeInv' /\ Keeping
<1>0. TreeTypeInv /\ VersInv /\ PinInv /\ FillInv /\ CutInv /\ AheadInv
  BY DEF TreeInv
<1>1. /\ UNCHANGED <<vers, pool, stMap, stMutable, status, cp, hist>>
      /\ flushPc = "room" /\ flushPc' = "switch"
      /\ meta' = [meta EXCEPT !.next = @ + 1] /\ files' = Put(files, meta.next, NewTable)
      /\ fl' = [fl EXCEPT !.new = meta.next]
  BY DEF RoomTable
<1>2. status # "closed"
  BY <1>0, <1>1 DEF PinInv
<1>3. /\ meta.next \in Nat /\ meta'.next = meta.next + 1 /\ meta'.min = meta.min
      /\ meta' \in [min : Nat, next : Nat \ {0}] /\ meta'.min < meta'.next
  BY <1>0, <1>1 DEF TreeTypeInv
<1>4. DOMAIN files' = DOMAIN files \cup {meta.next}
  BY <1>1 DEF Put
<1>5. /\ DOMAIN fl' = DOMAIN NoFlush /\ fl'.new = meta.next /\ fl'.st = fl.st
      /\ fl'.buf = fl.buf /\ fl'.ver = fl.ver
  BY <1>0, <1>1 DEF TreeTypeInv, NoFlush
<1>6. Thin /\ Keeping
  BY <1>0, <1>1, <1>4, CurFact DEF Thin, Keeping
<1>7. VersInv' /\ Index' = Index
  BY <1>0, <1>1, <1>2, <1>3, <1>6, ThinVers, ThinFact
<1>8. AheadInv'
  BY <1>0, <1>1, <1>3, <1>6, ThinAhead
<1>9. TreeTypeInv'
  BY <1>0, <1>1, <1>3, <1>5 DEF TreeTypeInv, Places, BdbMaxKey, NoFlush, Keys
<1>10. PinInv'
  BY <1>0, <1>1, <1>2, <1>5 DEF PinInv
<1>11. FillInv'
  <2>1. LastKey' = LastKey
    BY <1>5 DEF LastKey
  <2>2. \A v \in DOMAIN vers : \A b \in DOMAIN vers[v] : vers[v][b] < meta.next
    BY <1>0 DEF VersInv
  <2> QED BY <1>0, <1>1, <1>2, <1>3, <1>4, <1>5, <1>7, <2>1, <2>2 DEF FillInv, BdbMaxKey, Keys
<1>12. CutInv'
  <2>1. cp.pc = "min" => cp.fn \in Nat /\ cp.fn < meta.next
    BY <1>0 DEF CutInv, TreeTypeInv
  <2> QED BY <1>0, <1>1, <1>3, <2>1 DEF CutInv
<1> QED BY <1>6, <1>7, <1>8, <1>9, <1>10, <1>11, <1>12 DEF TreeInv

\* Once the new table is in the map it is the mutable one.
LEMMA RoomMapTree ==
  ASSUME TreeInv, RoomMap
  PROVE  TreeInv' /\ Keeping
<1>0. TreeTypeInv /\ VersInv /\ PinInv /\ FillInv /\ CutInv
  BY DEF TreeInv
<1>1. /\ UNCHANGED <<files, meta, vers, pool, status, fl, cp, hist>>
      /\ flushPc = "map" /\ flushPc' = "end"
      /\ stMap' = Put(stMap, fl.new, 0) /\ stMutable' = fl.new
  BY DEF RoomMap
<1>2. status # "closed"
  BY <1>0, <1>1 DEF PinInv
<1>3. DOMAIN stMap \subseteq DOMAIN stMap'
  BY <1>1 DEF Put
<1>4. SameHist
  BY <1>0, <1>1 DEF TreeTypeInv, SameHist
<1>5. Thin /\ Keeping
  BY <1>0, <1>1, <1>3, CurFact DEF Thin, Keeping
<1>6. VersInv' /\ AheadInv' /\ Index' = Index
  BY <1>1, <1>2, <1>4, <1>5, ThinTree
<1>7. TreeTypeInv'
  BY <1>0, <1>1 DEF TreeTypeInv, Places, BdbMaxKey, NoFlush, Keys
<1>8. PinInv' /\ CutInv'
  BY <1>0, <1>1, <1>2 DEF PinInv, CutInv
<1>9. FillInv'
  BY <1>0, <1>1, <1>2, <1>6 DEF FillInv, BdbMaxKey
<1> QED BY <1>5, <1>6, <1>7, <1>8, <1>9 DEF TreeInv

\* TxPool.Update of a flush: it begins to read the index,
LEMMA RoomBeginTree ==
  ASSUME TreeInv, RoomBegin
  PROVE  TreeInv' /\ Keeping
<1>0. TreeTypeInv /\ VersInv /\ PinInv /\ FillInv /\ CutInv
  BY DEF TreeInv
<1>1. /\ UNCHANGED <<meta, pool, stMutable, status, cp, hist>>
      /\ flushPc = "begin" /\ flushPc' = "swap" /\ fl' = [fl EXCEPT !.ver = Cur]
  BY DEF RoomBegin
<1>2. PICK F \in Released(Pins(pool, fl, rd, cp)) : Free(F) /\ vers' = Drop(vers, F)
  BY DEF RoomBegin, EmptyCommit
<1>3. /\ Thin /\ Keeping
      /\ \A v \in Pins(pool, fl, rd, cp) : v \in DOMAIN vers => v \in DOMAIN vers'
  BY <1>0, <1>2, ReleaseThin
<1>4. status # "closed"
  BY <1>0, <1>1 DEF PinInv
<1>5. SameHist
  BY <1>0, <1>1 DEF TreeTypeInv, SameHist
<1>6. VersInv' /\ AheadInv' /\ Index' = Index /\ Cur \in DOMAIN vers'
  BY <1>1, <1>3, <1>4, <1>5, ThinTree
<1>7. DOMAIN fl' = DOMAIN NoFlush /\ fl'.ver = Cur /\ fl'.new = fl.new /\ Cur \in Nat /\ Cur # 0
  <2>1. pool \in DOMAIN vers /\ pool # 0 /\ pool \in Nat /\ pool <= Cur /\ Cur \in Nat
    BY <1>0, <1>4, CurFact DEF PinInv, VersInv
  <2> QED BY <1>0, <1>1, <2>1 DEF TreeTypeInv, NoFlush
<1>8. TreeTypeInv'
  BY <1>0, <1>1, <1>7 DEF TreeTypeInv, Places, BdbMaxKey, NoFlush, Keys
<1>9. PinInv'
  <2>1. pool \in DOMAIN vers' /\ (cp.ver # 0 => cp.ver \in DOMAIN vers')
    BY <1>0, <1>3, <1>4 DEF PinInv, Pins
  <2> QED BY <1>0, <1>1, <1>4, <1>6, <1>7, <2>1 DEF PinInv
<1>10. FillInv'
  BY <1>0, <1>1, <1>4, <1>6, <1>7 DEF FillInv, BdbMaxKey
<1>11. CutInv'
  BY <1>0, <1>1 DEF CutInv
<1> QED BY <1>3, <1>6, <1>8, <1>9, <1>10, <1>11 DEF TreeInv

\* and puts what it reads into the pool.
LEMMA RoomSwapTree ==
  ASSUME TreeInv, RoomSwap
  PROVE  TreeInv' /\ Keeping
<1>0. TreeTypeInv /\ VersInv /\ PinInv /\ FillInv /\ CutInv
  BY DEF TreeInv
<1>1. /\ UNCHANGED <<meta, stMutable, status, cp>>
      /\ flushPc = "swap" /\ flushPc' = "map" /\ fl' = [fl EXCEPT !.ver = 0]
      /\ pool' = fl.ver
      /\ hist' = [hist EXCEPT !.best = IF fl.ver > @ THEN fl.ver ELSE @]
  BY DEF RoomSwap, Swap
<1>2. PICK F \in Released(Pins(fl.ver, fl', rd, cp)) : Free(F) /\ vers' = Drop(vers, F)
  BY DEF RoomSwap, Swap
<1>3. /\ Thin /\ Keeping
      /\ \A v \in Pins(fl.ver, fl', rd, cp) : v \in DOMAIN vers => v \in DOMAIN vers'
  BY <1>0, <1>2, ReleaseThin
<1>4. status # "closed"
  BY <1>0, <1>1 DEF PinInv
<1>5. SameHist
  BY <1>0, <1>1 DEF TreeTypeInv, SameHist
<1>6. VersInv' /\ AheadInv' /\ Index' = Index /\ Cur \in DOMAIN vers'
  BY <1>1, <1>3, <1>4, <1>5, ThinTree
<1>7. DOMAIN fl' = DOMAIN NoFlush /\ fl'.ver = 0 /\ fl'.new = fl.new
  BY <1>0, <1>1 DEF TreeTypeInv, NoFlush
<1>8. TreeTypeInv'
  BY <1>0, <1>1, <1>5, <1>7 DEF TreeTypeInv, SameHist, Places, BdbMaxKey, NoFlush, Keys
<1>9. PinInv'
  <2>1. fl.ver \in DOMAIN vers' /\ fl.ver # 0 /\ (cp.ver # 0 => cp.ver \in DOMAIN vers')
    BY <1>0, <1>1, <1>3, <1>4 DEF PinInv, Pins
  <2> QED BY <1>0, <1>1, <1>4, <1>6, <1>7, <2>1 DEF PinInv
<1>10. FillInv'
  BY <1>0, <1>1, <1>4, <1>6, <1>7 DEF FillInv, BdbMaxKey
<1>11. CutInv'
  BY <1>0, <1>1, <1>5 DEF CutInv, SameHist
<1> QED BY <1>3, <1>6, <1>8, <1>9, <1>10, <1>11 DEF TreeInv

\* The table of the largest bound is ahead of all others.
LEMMA MaxAhead ==
  ASSUME TreeInv, status # "closed"
  PROVE  /\ BdbMaxKey \in DOMAIN Index /\ Index[BdbMaxKey] \in Nat \ {0}
         /\ BdbMaxKey \in Places \ hist.hidden /\ BdbMaxKey >= hist.cut
         /\ Ahead(Index[BdbMaxKey], BdbMaxKey)
<1>0. TreeTypeInv /\ VersInv /\ AheadInv
  BY DEF TreeInv
<1> DEFINE t == Index[BdbMaxKey]
<1>1. BdbMaxKey \in DOMAIN Index /\ t \in Nat \ {0}
  BY <1>0, CurFact DEF VersInv
<1>2. /\ BdbMaxKey \in Places /\ BdbMaxKey \notin hist.hidden /\ BdbMaxKey >= hist.cut
      /\ \A b \in DOMAIN Index : b >= BdbMaxKey => b >= BdbMaxKey
  BY <1>0, SeqAssumption DEF TreeTypeInv, Places, BdbMaxKey, Keys
<1>3. Seek(Index, BdbMaxKey) = t
  <2>1. DOMAIN Index \subseteq Places /\ \A b \in DOMAIN Index : Index[b] # 0
    BY <1>0, CurFact
  <2>2. BdbMaxKey >= BdbMaxKey
    BY SeqAssumption DEF BdbMaxKey
  <2> QED BY <1>1, <1>2, <2>1, <2>2, SeekIs
<1> QED BY <1>0, <1>1, <1>2, <1>3 DEF AheadInv

\* A flush that is under way is so after a step of somebody else that leaves its
\* variables and the index alone.
LEMMA OtherFill ==
  ASSUME TreeInv, Thin, Keeping, Index' = Index, status # "closed",
         UNCHANGED <<stMutable, status, flushPc, fl>>, meta'.next = meta.next
  PROVE  FillInv'
<1>0. TreeTypeInv /\ VersInv /\ FillInv /\ AheadInv
  BY DEF TreeInv
<1>1. LastKey' = LastKey
  BY DEF LastKey
<1>2. ASSUME flushPc = "switch"
      PROVE  /\ fl.new \in DOMAIN files' /\ fl.new \in Nat /\ fl.new < meta.next
             /\ \A v \in DOMAIN vers' : \A b \in DOMAIN vers'[v] : vers'[v][b] < fl.new
  <2>1. /\ fl.new \in DOMAIN files /\ fl.new \in Nat /\ fl.new < meta.next
        /\ \A v \in DOMAIN vers : \A b \in DOMAIN vers[v] : vers[v][b] < fl.new
    BY <1>0, <1>2 DEF FillInv
  <2>2. fl.new > meta.min
    <3>1. Index[BdbMaxKey] < fl.new
      BY <1>0, <2>1, MaxAhead, CurFact
    <3>2. meta.min \in Nat /\ Index[BdbMaxKey] \in Nat /\ Index[BdbMaxKey] > meta.min
      BY <1>0, MaxAhead DEF TreeTypeInv, Ahead
    <3> QED BY <2>1, <3>1, <3>2
  <2>3. fl.new \in DOMAIN files'
    <3>1. meta.min \in Nat
      BY <1>0 DEF TreeTypeInv
    <3> QED BY <2>1, <2>2, <3>1 DEF Keeping
  <2> QED BY <2>1, <2>3 DEF Thin
<1> QED BY <1>0, <1>1, <1>2 DEF FillInv, Keys, BdbMaxKey

\* A Get that gives its version back.
LEMMA GetTableTree ==
  ASSUME TreeInv, GetTable
  PROVE  TreeInv' /\ Keeping
<1>0. TreeTypeInv /\ VersInv /\ PinInv /\ FillInv /\ CutInv
  BY DEF TreeInv
<1>1. UNCHANGED <<meta, pool, stMutable, status, flushPc, fl, cp, hist>> /\ rd.pc = "table"
  BY DEF GetTable
<1>2. status # "closed"
  BY <1>0, <1>1 DEF PinInv
<1>3. /\ Thin /\ Keeping /\ pool \in DOMAIN vers'
      /\ fl.ver # 0 => fl.ver \in DOMAIN vers'
      /\ cp.ver # 0 => cp.ver \in DOMAIN vers'
  <2>1. CASE UNCHANGED <<vers, stMap, files>>
    BY <1>0, <1>2, <2>1, CurFact DEF Thin, Keeping, PinInv
  <2>2. CASE \E F \in Released(Pins(pool, fl, rd', cp)) : Free(F) /\ vers' = Drop(vers, F)
    <3>1. PICK F \in Released(Pins(pool, fl, rd', cp)) : Free(F) /\ vers' = Drop(vers, F)
      BY <2>2
    <3>2. /\ Thin /\ Keeping
          /\ \A v \in Pins(pool, fl, rd', cp) : v \in DOMAIN vers => v \in DOMAIN vers'
      BY <1>0, <3>1, ReleaseThin
    <3> QED BY <1>0, <1>2, <3>2 DEF PinInv, Pins
  <2> QED BY <2>1, <2>2 DEF GetTable
<1>4. SameHist
  BY <1>0, <1>1 DEF TreeTypeInv, SameHist
<1>5. VersInv' /\ AheadInv' /\ Index' = Index
  BY <1>1, <1>2, <1>3, <1>4, ThinTree
<1>6. TreeTypeInv'
  BY <1>0, <1>1 DEF TreeTypeInv, Places, BdbMaxKey, NoFlush, Keys
<1>7. PinInv' /\ CutInv'
  BY <1>0, <1>1, <1>2, <1>3 DEF PinInv, CutInv
<1>8. FillInv'
  BY <1>1, <1>2, <1>3, <1>5, OtherFill
<1> QED BY <1>3, <1>5, <1>6, <1>7, <1>8 DEF TreeInv

\* TxPool.Update of a compaction.
LEMMA CompactSwapTree ==
  ASSUME TreeInv, CompactBegin \/ CompactSwap
  PROVE  TreeInv' /\ Keeping
<1>0. TreeTypeInv /\ VersInv /\ PinInv /\ FillInv /\ CutInv
  BY DEF TreeInv
<1>1. UNCHANGED <<meta, stMutable, status, flushPc, fl>> /\ cp.pc \in {"begin", "swap"}
  BY DEF CompactBegin, CompactSwap
<1>2. status # "closed"
  BY <1>0, <1>1 DEF PinInv
<1>3. CASE CompactBegin
  <2>1. cp' = [cp EXCEPT !.pc = "swap", !.ver = Cur] /\ UNCHANGED <<pool, hist>>
    BY <1>3 DEF CompactBegin
  <2>2. PICK F \in Released(Pins(pool, fl, rd, cp)) : Free(F) /\ vers' = Drop(vers, F)
    BY <1>3 DEF CompactBegin, EmptyCommit
  <2>3. /\ Thin /\ Keeping
        /\ \A v \in Pins(pool, fl, rd, cp) : v \in DOMAIN vers => v \in DOMAIN vers'
    BY <1>0, <2>2, ReleaseThin
  <2>4. SameHist
    BY <1>0, <2>1 DEF TreeTypeInv, SameHist
  <2>5. Cur \in Nat /\ Cur # 0
    <3>1. pool \in DOMAIN vers /\ pool # 0 /\ pool \in Nat /\ pool <= Cur /\ Cur \in Nat
      BY <1>0, <1>2, CurFact DEF PinInv, VersInv
    <3> QED BY <3>1
  <2>6. /\ cp' \in [pc : {"idle", "min", "delete", "begin", "swap"}, keys : SUBSET Places,
                    fn : Nat, ver : Nat]
        /\ cp'.pc = "swap" /\ cp'.ver = Cur
    BY <1>0, <2>1, <2>5 DEF TreeTypeInv
  <2>7. VersInv' /\ AheadInv' /\ Index' = Index /\ Cur \in DOMAIN vers'
    BY <1>1, <1>2, <2>3, <2>4, <2>6, ThinTree
  <2>8. TreeTypeInv'
    BY <1>0, <1>1, <2>1, <2>6 DEF TreeTypeInv, Places, BdbMaxKey, NoFlush, Keys
  <2>9. PinInv'
    <3>1. pool \in DOMAIN vers' /\ (fl.ver # 0 => fl.ver \in DOMAIN vers')
      BY <1>0, <1>2, <2>3 DEF PinInv, Pins
    <3> QED BY <1>0, <1>1, <1>2, <2>1, <2>5, <2>6, <2>7, <3>1 DEF PinInv
  <2>10. CutInv'
    BY <2>6 DEF CutInv
  <2>11. FillInv'
    BY <1>1, <1>2, <2>3, <2>7, OtherFill
  <2> QED BY <2>3, <2>7, <2>8, <2>9, <2>10, <2>11 DEF TreeInv
<1>4. CASE CompactSwap
  <2>1. /\ cp' = NoCompact /\ pool' = cp.ver /\ cp.pc = "swap"
        /\ hist' = [hist EXCEPT !.best = IF cp.ver > @ THEN cp.ver ELSE @]
    BY <1>4 DEF CompactSwap, Swap
  <2>2. PICK F \in Released(Pins(cp.ver, fl, rd, NoCompact)) : Free(F) /\ vers' = Drop(vers, F)
    BY <1>4 DEF CompactSwap, Swap
  <2>3. /\ Thin /\ Keeping
        /\ \A v \in Pins(cp.ver, fl, rd, NoCompact) : v \in DOMAIN vers => v \in DOMAIN vers'
    BY <1>0, <2>2, ReleaseThin
  <2>4. SameHist
    BY <1>0, <2>1 DEF TreeTypeInv, SameHist
  <2>6. /\ cp' \in [pc : {"idle", "min", "delete", "begin", "swap"}, keys : SUBSET Places,
                    fn : Nat, ver : Nat]
        /\ cp'.pc = "idle" /\ cp'.ver = 0
    BY <2>1 DEF NoCompact
  <2>7. VersInv' /\ AheadInv' /\ Index' = Index /\ Cur \in DOMAIN vers'
    BY <1>1, <1>2, <2>3, <2>4, <2>6, ThinTree
  <2>8. TreeTypeInv'
    BY <1>0, <1>1, <2>4, <2>6 DEF TreeTypeInv, SameHist, Places, BdbMaxKey, NoFlush, Keys
  <2>9. PinInv'
    <3>1. cp.ver \in DOMAIN vers' /\ cp.ver # 0 /\ (fl.ver # 0 => fl.ver \in DOMAIN vers')
      BY <1>0, <1>2, <2>1, <2>3 DEF PinInv, Pins
    <3> QED BY <1>0, <1>1, <1>2, <2>1, <2>6, <3>1 DEF PinInv
  <2>10. CutInv'
    BY <2>6 DEF CutInv
  <2>11. FillInv'
    BY <1>1, <1>2, <2>3, <2>7, OtherFill
  <2> QED BY <2>3, <2>7, <2>8, <2>9, <2>10, <2>11 DEF TreeInv
<1> QED BY <1>3, <1>4

\* The bounds CompactTo is about to delete are below the key it is called with.
LEMMA BoundsFact ==
  ASSUME NEW i, DOMAIN i \subseteq Places, BdbMaxKey \in DOMAIN i, NEW k \in Keys
  PROVE  \A b \in Bounds(i, k) : b \in DOMAIN i /\ b < k
<1> DEFINE up == {b \in DOMAIN i : b >= k}
           c == Min(up)
<1>1. Places \subseteq Nat /\ k \in Nat /\ BdbMaxKey >= k
  BY SeqAssumption DEF Places, BdbMaxKey, Keys
<1>2. c \in up /\ \A b \in up : c <= b
  <2>1. up \subseteq Nat /\ up # {}
    BY <1>1
  <2> HIDE DEF up
  <2> QED BY <2>1, MinFact
<1>3. Bounds(i, k) = {b \in DOMAIN i : b < c}
  BY DEF Bounds
<1> HIDE DEF c
<1>4. ASSUME NEW b \in DOMAIN i, b < c PROVE b < k
  <2>1. b \in Nat /\ c \in Nat
    BY <1>1, <1>2
  <2>2. b \notin up
    <3> HIDE DEF up
    <3> QED BY <1>2, <1>4, <2>1
  <2> QED BY <1>1, <2>1, <2>2
<1> QED BY <1>3, <1>4

\* CompactTo reads the pool's version: the largest number it finds is still below the
\* tables of the keys that are not compacted away.
LEMMA CompactToTree ==
  ASSUME TreeInv, NEW x \in Keys, CompactTo(x)
  PROVE  TreeInv' /\ Keeping
<1>0. TreeTypeInv /\ VersInv /\ PinInv /\ FillInv /\ CutInv /\ AheadInv
  BY DEF TreeInv
<1> DEFINE i == vers[pool]
           bs == Bounds(i, x)
           N == {i[b] : b \in bs}
<1>1. /\ UNCHANGED <<treeVars, status, flushPc, fl, rd>> /\ status = "open" /\ bs # {}
      /\ cp' = [NoCompact EXCEPT !.pc = "min", !.keys = bs, !.fn = Max(N)]
      /\ hist' = [hist EXCEPT !.cut = IF x > @ THEN x ELSE @]
  BY DEF CompactTo
<1>2. /\ DOMAIN i \subseteq Places /\ BdbMaxKey \in DOMAIN i /\ pool \in DOMAIN vers
      /\ \A b \in DOMAIN i : i[b] \in Nat \ {0} /\ i[b] < meta.next
  BY <1>0, <1>1 DEF PinInv, VersInv
<1>3. \A b \in bs : b \in DOMAIN i /\ b < x
  BY <1>2, BoundsFact
<1>4. meta.next \in Nat /\ x \in Nat /\ hist.cut \in Nat
  BY <1>0, SeqAssumption DEF TreeTypeInv, Keys
<1> HIDE DEF bs
<1>5. Max(N) \in N
  <2>1. N \subseteq Nat /\ N # {} /\ \A y \in N : y <= meta.next
    BY <1>1, <1>2, <1>3, <1>4
  <2> HIDE DEF N
  <2> QED BY <1>4, <2>1, MaxFact
<1> DEFINE top == Max(N)
<1>6. PICK b0 \in bs : top = i[b0]
  BY <1>5
<1> HIDE DEF top
<1>7. cp'.pc = "min" /\ cp'.keys = bs /\ cp'.fn = top /\ cp'.ver = 0
  BY <1>1 DEF NoCompact, top
<1>8. top \in Nat /\ top < meta.next
  BY <1>2, <1>3, <1>6
<1>9. cp' \in [pc : {"idle", "min", "delete", "begin", "swap"}, keys : SUBSET Places,
               fn : Nat, ver : Nat]
  <2>1. bs \subseteq Places
    BY <1>2, <1>3
  <2>2. cp' = [pc |-> "min", keys |-> bs, fn |-> top, ver |-> 0]
    BY <1>1 DEF NoCompact, top
  <2> QED BY <1>8, <2>1, <2>2
<1>10. /\ {"cut", "hidden"} \subseteq DOMAIN hist' /\ hist'.hidden = hist.hidden
       /\ hist'.cut \in 0..MaxKey /\ hist'.cut >= hist.cut /\ hist'.cut >= x
  <2>1. hist'.cut = IF x > hist.cut THEN x ELSE hist.cut
    BY <1>0, <1>1 DEF TreeTypeInv
  <2>2. hist.cut \in 0..MaxKey /\ x \in 1..MaxKey
    BY <1>0 DEF TreeTypeInv, Keys
  <2>3. hist'.cut \in 0..MaxKey /\ hist'.cut >= hist.cut /\ hist'.cut >= x
    BY SeqAssumption, <1>4, <2>1, <2>2
  <2> QED BY <1>0, <1>1, <2>3 DEF TreeTypeInv
<1>11. Index' = Index /\ Cur' = Cur
  BY <1>1 DEF Index, Cur, treeVars
<1>12. AheadInv'
  <2> SUFFICES ASSUME NEW k \in Places, k \notin hist.hidden, k >= hist'.cut, Seek(Index, k) # 0
               PROVE  Ahead(Seek(Index, k), k)'
    BY <1>10, <1>11 DEF AheadInv, Seek, Places, BdbMaxKey
  <2>1. k \in Nat /\ k >= hist.cut /\ k >= x /\ hist'.cut \in Nat
    BY <1>4, <1>10, SeqAssumption DEF Places, BdbMaxKey
  <2> DEFINE t == Seek(Index, k)
  <2>2. Ahead(t, k)
    BY <1>0, <2>1 DEF AheadInv
  <2>3. Seek(Index, k)' = t
    BY <1>11 DEF Seek
  <2>4. b0 < k
    BY <1>2, <1>3, <1>4, <2>1, SeqAssumption DEF Places, BdbMaxKey
  <2>5. t > top
    <3>1. i[b0] < t
      BY <1>2, <1>3, <2>2, <2>4 DEF Ahead
    <3>2. t \in Nat
      BY <1>0, CurFact, SeekFact
    <3> QED BY <1>6, <1>8, <3>1, <3>2
  <2> HIDE DEF t
  <2> QED BY <1>1, <1>7, <2>2, <2>3, <2>5 DEF Ahead, treeVars
<1>13. TreeTypeInv'
  BY <1>0, <1>1, <1>9, <1>10 DEF TreeTypeInv, treeVars, Places, BdbMaxKey, NoFlush, Keys
<1>14. VersInv'
  BY <1>0, <1>1 DEF VersInv, treeVars, Places, BdbMaxKey
<1>15. PinInv'
  BY <1>0, <1>1, <1>7 DEF PinInv, treeVars
<1>16. FillInv'
  <2>1. LastKey' = LastKey
    BY <1>1 DEF LastKey
  <2> QED BY <1>0, <1>1, <1>11, <2>1 DEF FillInv, treeVars, BdbMaxKey, Keys
<1>17. CutInv'
  <2>1. \A b \in bs : b < hist'.cut
    <3> SUFFICES ASSUME NEW b \in bs PROVE b < hist'.cut
      OBVIOUS
    <3>1. b \in Nat /\ b < x
      BY <1>2, <1>3, SeqAssumption DEF Places, BdbMaxKey
    <3>2. hist'.cut \in Nat /\ hist'.cut >= x
      BY <1>10, SeqAssumption
    <3> QED BY <1>4, <3>1, <3>2
  <2> QED BY <1>1, <1>7, <1>8, <2>1 DEF CutInv, treeVars
<1>18. Keeping
  BY <1>1 DEF Keeping, treeVars
<1> QED BY <1>12, <1>13, <1>14, <1>15, <1>16, <1>17, <1>18 DEF TreeInv

\* From where it is recorded, the tables up to it may go.
LEMMA CompactMinTree ==
  ASSUME TreeInv, CompactMin
  PROVE  TreeInv' /\ Keeping
<1>0. TreeTypeInv /\ VersInv /\ PinInv /\ FillInv /\ CutInv /\ AheadInv
  BY DEF TreeInv
<1>1. /\ UNCHANGED <<files, vers, pool, stMap, stMutable, status, flushPc, fl, rd, hist>>
      /\ cp.pc = "min" /\ cp' = [cp EXCEPT !.pc = "delete"]
      /\ meta' = [meta EXCEPT !.min = cp.fn]
  BY DEF CompactMin
<1>2. /\ cp' \in [pc : {"idle", "min", "delete", "begin", "swap"}, keys : SUBSET Places,
                  fn : Nat, ver : Nat]
      /\ cp'.pc = "delete" /\ cp'.keys = cp.keys /\ cp'.ver = cp.ver
  BY <1>0, <1>1 DEF TreeTypeInv
<1>3. /\ meta' \in [min : Nat, next : Nat \ {0}] /\ meta'.min = cp.fn /\ meta'.next = meta.next
      /\ cp.fn < meta.next
  BY <1>0, <1>1 DEF TreeTypeInv, CutInv
<1>4. Index' = Index /\ Cur' = Cur
  BY <1>1 DEF Index, Cur
<1>5. AheadInv'
  <2> SUFFICES ASSUME NEW k \in Places, k \notin hist.hidden, k >= hist.cut, Seek(Index, k) # 0
               PROVE  Ahead(Seek(Index, k), k)'
    BY <1>1, <1>4 DEF AheadInv, Seek, Places, BdbMaxKey
  <2> DEFINE t == Seek(Index, k)
  <2>2. Ahead(t, k)
    BY <1>0 DEF AheadInv
  <2>3. Seek(Index, k)' = t
    BY <1>4 DEF Seek
  <2> HIDE DEF t
  <2> QED BY <1>1, <1>2, <1>3, <2>2, <2>3 DEF Ahead
<1>6. TreeTypeInv'
  BY <1>0, <1>1, <1>2, <1>3 DEF TreeTypeInv, Places, BdbMaxKey, NoFlush, Keys
<1>7. VersInv'
  BY <1>0, <1>1, <1>3 DEF VersInv, Places, BdbMaxKey
<1>8. PinInv' /\ CutInv'
  BY <1>0, <1>1, <1>2 DEF PinInv, CutInv
<1>9. FillInv'
  <2>1. LastKey' = LastKey
    BY <1>1 DEF LastKey
  <2> QED BY <1>0, <1>1, <1>3, <1>4, <2>1 DEF FillInv, BdbMaxKey, Keys
<1>10. Keeping
  BY <1>1 DEF Keeping
<1> QED BY <1>5, <1>6, <1>7, <1>8, <1>9, <1>10 DEF TreeInv

\* A commit adds a version, the new current one.
Committed(i) ==
  /\ Cur + 1 \in DOMAIN vers' /\ vers'[Cur + 1] = i
  /\ \A v \in DOMAIN vers' : v = Cur + 1 \/ (v \in DOMAIN vers /\ vers'[v] = vers[v])

\* A write transaction that commits keeps every version that is in use.
LEMMA CommitFact ==
  ASSUME TreeInv, NEW i, Commit(i), status # "closed"
  PROVE  /\ Committed(i) /\ Keeping /\ Index' = i
         /\ pool \in DOMAIN vers'
         /\ fl.ver # 0 => fl.ver \in DOMAIN vers'
         /\ cp.ver # 0 => cp.ver \in DOMAIN vers'
         /\ DOMAIN vers' \subseteq Nat /\ \E m \in Nat : \A v \in DOMAIN vers' : v <= m
<1>0. TreeTypeInv /\ VersInv /\ PinInv
  BY DEF TreeInv
<1>1. PICK F \in Released(Pins(pool, fl, rd, cp)) :
        Free(F) /\ vers' = Put(Drop(vers, F), Cur + 1, i)
  BY DEF Commit
<1>2. F \subseteq DOMAIN vers /\ Cur \notin F /\ \A v \in Pins(pool, fl, rd, cp) : v \notin F
  BY <1>1, ReleasedFact
<1>3. Keeping
  BY <1>1, FreeFact DEF Keeping
<1>4. Cur \in DOMAIN vers /\ Cur \in Nat /\ \A v \in DOMAIN vers : v <= Cur
  BY <1>0, CurFact
<1>5. DOMAIN vers' = (DOMAIN vers \ F) \cup {Cur + 1}
  BY <1>1 DEF Put, Drop
<1>6. \A v \in DOMAIN vers' : vers'[v] = IF v = Cur + 1 THEN i ELSE vers[v]
  BY <1>1, <1>5 DEF Put, Drop
<1>7. Committed(i)
  BY <1>5, <1>6 DEF Committed
<1> DEFINE D == DOMAIN vers'
           m == Max(D)
<1>8. D \subseteq Nat /\ Cur + 1 \in D /\ Cur + 1 \in Nat /\ \A v \in D : v <= Cur + 1
  BY <1>0, <1>4, <1>5 DEF VersInv
<1>9. m \in D /\ \A v \in D : m >= v
  <2> HIDE DEF D
  <2> QED BY <1>8, MaxFact
<1>10. m = Cur + 1
  <2> HIDE DEF D, m
  <2>1. m \in Nat /\ m <= Cur + 1 /\ m >= Cur + 1
    BY <1>8, <1>9
  <2> QED BY <1>4, <2>1
<1>11. Index' = i
  <2>1. Cur' = Cur + 1
    BY <1>10 DEF Cur
  <2> QED BY <1>7, <2>1 DEF Index, Committed
<1>12. /\ pool \in DOMAIN vers'
       /\ fl.ver # 0 => fl.ver \in DOMAIN vers'
       /\ cp.ver # 0 => cp.ver \in DOMAIN vers'
  BY <1>0, <1>2, <1>5 DEF PinInv, Pins
<1> QED BY <1>3, <1>7, <1>8, <1>11, <1>12

\* The new version is one if its bounds are.
LEMMA CommitVers ==
  ASSUME TreeInv, NEW i, Commit(i), status # "closed", UNCHANGED <<meta, status>>,
         DOMAIN i \subseteq Places, BdbMaxKey \in DOMAIN i,
         \A b \in DOMAIN i : i[b] \in Nat \ {0} /\ i[b] < meta.next
  PROVE  VersInv'
<1>0. VersInv
  BY DEF TreeInv
<1>1. /\ Committed(i)
      /\ DOMAIN vers' \subseteq Nat /\ \E m \in Nat : \A v \in DOMAIN vers' : v <= m
  BY CommitFact
<1>2. ASSUME NEW v \in DOMAIN vers'
      PROVE  /\ DOMAIN vers'[v] \subseteq Places
             /\ \A b \in DOMAIN vers'[v] : vers'[v][b] \in Nat \ {0} /\ vers'[v][b] < meta.next
             /\ BdbMaxKey \in DOMAIN vers'[v]
  <2>1. CASE v = Cur + 1
    BY <1>1, <2>1 DEF Committed
  <2>2. CASE v \in DOMAIN vers /\ vers'[v] = vers[v]
    BY <1>0, <2>2 DEF VersInv
  <2> QED BY <1>1, <2>1, <2>2 DEF Committed
<1>3. DOMAIN vers' # {}
  BY <1>1 DEF Committed
<1> QED BY <1>1, <1>2, <1>3 DEF VersInv, Places, BdbMaxKey

\* A compaction's transaction deletes no bound at or above its key.
LEMMA CompactDeleteTree ==
  ASSUME TreeInv, CompactDelete
  PROVE  TreeInv' /\ Keeping
<1>0. TreeTypeInv /\ VersInv /\ PinInv /\ FillInv /\ CutInv /\ AheadInv
  BY DEF TreeInv
<1> DEFINE i == Drop(Index, cp.keys)
<1>1. /\ UNCHANGED <<meta, pool, stMutable, status, flushPc, fl, rd, hist>>
      /\ cp.pc = "delete" /\ cp' = [cp EXCEPT !.pc = "begin"] /\ Commit(i)
  BY DEF CompactDelete
<1>2. status # "closed"
  BY <1>0, <1>1 DEF PinInv
<1>3. /\ cp' \in [pc : {"idle", "min", "delete", "begin", "swap"}, keys : SUBSET Places,
                  fn : Nat, ver : Nat]
      /\ cp'.pc = "begin" /\ cp'.ver = cp.ver
  BY <1>0, <1>1 DEF TreeTypeInv
<1>4. \A b \in cp.keys : b < hist.cut
  BY <1>0, <1>1 DEF CutInv
<1>5. Places \subseteq Nat /\ hist.cut \in Nat /\ cp.keys \subseteq Places
  BY <1>0, SeqAssumption DEF TreeTypeInv, Places, BdbMaxKey
<1>6. /\ DOMAIN Index \subseteq Places
      /\ \A b \in DOMAIN Index : Index[b] \in Nat \ {0} /\ Index[b] < meta.next
  BY <1>0, CurFact
<1>7. DOMAIN i = DOMAIN Index \ cp.keys /\ \A b \in DOMAIN i : i[b] = Index[b]
  BY DEF Drop
<1> HIDE DEF i
<1>8. BdbMaxKey \in DOMAIN i
  <2>1. BdbMaxKey \in DOMAIN Index /\ BdbMaxKey \in Places /\ BdbMaxKey >= hist.cut
    BY <1>2, MaxAhead
  <2>2. BdbMaxKey \in Nat /\ ~(BdbMaxKey < hist.cut)
    BY <1>5, <2>1
  <2> QED BY <1>4, <1>7, <2>1, <2>2
<1>9. DOMAIN i \subseteq Places /\ \A b \in DOMAIN i : i[b] \in Nat \ {0} /\ i[b] < meta.next
  BY <1>6, <1>7
<1>10. /\ Committed(i) /\ Keeping /\ Index' = i
       /\ pool \in DOMAIN vers'
       /\ fl.ver # 0 => fl.ver \in DOMAIN vers'
       /\ cp.ver # 0 => cp.ver \in DOMAIN vers'
  BY <1>1, <1>2, CommitFact
<1>11. VersInv'
  BY <1>1, <1>2, <1>8, <1>9, CommitVers
<1>12. AheadInv'
  <2>0. \A k : Seek(Index, k)' = Seek(i, k)
    BY <1>10 DEF Seek
  <2> SUFFICES ASSUME NEW k \in Places, k \notin hist.hidden, k >= hist.cut
               PROVE  /\ Seek(i, k) > meta.min /\ Seek(i, k) \in DOMAIN files'
                      /\ \A v \in DOMAIN vers' : \A b \in DOMAIN vers'[v] :
                           b < k => vers'[v][b] < Seek(i, k)
    BY <1>1, <1>3, <2>0 DEF AheadInv, Ahead, Places, BdbMaxKey
  <2>1. BdbMaxKey \in DOMAIN Index /\ BdbMaxKey >= k /\ k \in Nat
    BY <1>2, <1>5, MaxAhead, SeqAssumption DEF Places, BdbMaxKey
  <2>2. PICK c \in DOMAIN Index : /\ c >= k /\ Seek(Index, k) = Index[c] /\ Seek(Index, k) # 0
                                  /\ \A b \in DOMAIN Index : b >= k => b >= c
    <3>1. ~(\A b \in DOMAIN Index : b < k)
      <4>1. BdbMaxKey \in Nat /\ ~(BdbMaxKey < k)
        BY <2>1, SeqAssumption DEF BdbMaxKey
      <4> QED BY <2>1, <4>1
    <3>2. \A b \in DOMAIN Index : Index[b] # 0
      BY <1>6
    <3> QED BY <1>6, <3>1, <3>2, SeekFact
  <2>3. c \in DOMAIN i
    <3>0. c \in Nat /\ c >= k /\ k >= hist.cut /\ hist.cut \in Nat /\ k \in Nat
      BY <1>5, <1>6, <2>1, <2>2
    <3>1. ~(c < hist.cut)
      BY ONLY <3>0
    <3> QED BY <1>4, <1>7, <3>1
  <2>4. Seek(i, k) = i[c] /\ i[c] = Index[c]
    <3>1. \A b \in DOMAIN i : i[b] # 0
      BY <1>9
    <3>2. \A b \in DOMAIN i : b >= k => b >= c
      BY <1>7, <2>2
    <3> QED BY <1>7, <1>9, <2>2, <2>3, <3>1, <3>2, SeekIs
  <2> DEFINE t == Index[c]
  <2>5. Ahead(t, k)
    BY <1>0, <2>2 DEF AheadInv
  <2>6. t \in Nat
    BY <1>6
  <2> HIDE DEF t
  <2>7. t > meta.min /\ t \in DOMAIN files'
    <3>1. meta.min \in Nat
      BY <1>0 DEF TreeTypeInv
    <3> QED BY <1>10, <2>5, <2>6, <3>1 DEF Ahead, Keeping
  <2>8. ASSUME NEW v \in DOMAIN vers', NEW b \in DOMAIN vers'[v], b < k PROVE vers'[v][b] < t
    <3>1. CASE v = Cur + 1
      <4>1. b \in DOMAIN Index /\ vers'[v][b] = vers[Cur][b] /\ Cur \in DOMAIN vers
            /\ DOMAIN Index = DOMAIN vers[Cur]
        BY <1>0, <1>7, <1>10, <2>8, <3>1, CurFact DEF Committed
      <4> QED BY <2>5, <2>8, <4>1 DEF Ahead
    <3>2. CASE v \in DOMAIN vers /\ vers'[v] = vers[v]
      BY <2>5, <2>8, <3>2 DEF Ahead
    <3> QED BY <1>10, <3>1, <3>2 DEF Committed
  <2> QED BY <2>4, <2>7, <2>8 DEF t
<1>13. TreeTypeInv'
  BY <1>0, <1>1, <1>3 DEF TreeTypeInv, Places, BdbMaxKey, NoFlush, Keys
<1>14. PinInv' /\ CutInv'
  BY <1>0, <1>1, <1>2, <1>3, <1>10 DEF PinInv, CutInv
<1>15. FillInv'
  <2>1. LastKey' = LastKey
    BY <1>1 DEF LastKey
  <2>2. Index'[BdbMaxKey] = Index[BdbMaxKey]
    BY <1>7, <1>8, <1>10
  <2>3. ASSUME flushPc = "switch"
        PROVE  /\ fl.new \in DOMAIN files'
               /\ \A v \in DOMAIN vers' : \A b \in DOMAIN vers'[v] : vers'[v][b] < fl.new
    <3>1. /\ fl.new \in DOMAIN files /\ fl.new \in Nat
          /\ \A v \in DOMAIN vers : \A b \in DOMAIN vers[v] : vers[v][b] < fl.new
      BY <1>0, <1>2, <2>3 DEF FillInv
    <3>2. fl.new > meta.min /\ meta.min \in Nat
      <4>1. Index[BdbMaxKey] < fl.new
        BY <1>0, <1>2, <3>1, MaxAhead, CurFact
      <4>2. meta.min \in Nat /\ Index[BdbMaxKey] \in Nat /\ Index[BdbMaxKey] > meta.min
        BY <1>0, <1>2, MaxAhead DEF TreeTypeInv, Ahead
      <4> QED BY <3>1, <4>1, <4>2
    <3>3. fl.new \in DOMAIN files'
      BY <1>10, <3>1, <3>2 DEF Keeping
    <3>4. ASSUME NEW v \in DOMAIN vers', NEW b \in DOMAIN vers'[v] PROVE vers'[v][b] < fl.new
      <4>1. CASE v = Cur + 1
        <5>1. b \in DOMAIN Index /\ vers'[v][b] = vers[Cur][b] /\ Cur \in DOMAIN vers
              /\ DOMAIN Index = DOMAIN vers[Cur]
          BY <1>0, <1>7, <1>10, <3>4, <4>1, CurFact DEF Committed
        <5> QED BY <3>1, <5>1
      <4>2. CASE v \in DOMAIN vers /\ vers'[v] = vers[v]
        BY <3>1, <4>2
      <4> QED BY <1>10, <4>1, <4>2 DEF Committed
    <3> QED BY <3>3, <3>4
  <2> QED BY <1>0, <1>1, <1>2, <2>1, <2>2, <2>3 DEF FillInv, Keys, BdbMaxKey
<1> QED BY <1>10, <1>11, <1>12, <1>13, <1>14, <1>15 DEF TreeInv

\* switchBdbKey: the new table is ahead of all others, and the old one stays ahead of
\* what it was ahead of, but for the keys whose tables the switch hides.
LEMMA RoomSwitchTree ==
  ASSUME TreeInv, RoomSwitch
  PROVE  TreeInv' /\ Keeping
<1>0. TreeTypeInv /\ VersInv /\ PinInv /\ FillInv /\ CutInv /\ AheadInv
  BY DEF TreeInv
<1> DEFINE i == Switched
           l == LastKey
           n == fl.new
           o == fl.st
<1>1. /\ UNCHANGED <<meta, pool, stMutable, status, fl, rd, cp>> /\ Commit(i)
      /\ flushPc = "switch" /\ flushPc' = "begin"
      /\ hist' = [hist EXCEPT !.hidden = @ \cup Hidden]
  BY DEF RoomSwitch
<1>2. status # "closed"
  BY <1>0, <1>1 DEF PinInv
<1>3. /\ Index[BdbMaxKey] = o /\ l \in Keys /\ n \in DOMAIN files /\ n \in Nat /\ n < meta.next
      /\ \A v \in DOMAIN vers : \A b \in DOMAIN vers[v] : vers[v][b] < n
  BY <1>0, <1>1, <1>2 DEF FillInv
<1>4. /\ Places \subseteq Nat /\ hist.cut \in Nat /\ BdbMaxKey \in Places /\ l \in Places
      /\ BdbMaxKey \in Nat /\ l < BdbMaxKey /\ \A b \in Places : b <= BdbMaxKey
      /\ \A b \in Places : b # BdbMaxKey => b \in Keys
  BY <1>0, <1>3, SeqAssumption DEF TreeTypeInv, Places, BdbMaxKey, Keys
<1>5. /\ DOMAIN Index \subseteq Places /\ Cur \in DOMAIN vers /\ Index = vers[Cur]
      /\ \A b \in DOMAIN Index : Index[b] \in Nat \ {0} /\ Index[b] < meta.next
      /\ \A b \in DOMAIN Index : Index[b] # 0
  BY <1>0, CurFact
<1>6. /\ BdbMaxKey \in DOMAIN Index /\ o \in Nat \ {0} /\ Ahead(o, BdbMaxKey)
  BY <1>2, <1>3, MaxAhead
<1>7. o < n /\ n # 0
  <2>1. o < n
    BY <1>3, <1>5, <1>6
  <2> QED BY <1>3, <1>6, <2>1
<1>8. /\ DOMAIN i = DOMAIN Index \cup {l, BdbMaxKey} /\ i[BdbMaxKey] = n
      /\ i[l] = o /\ \A b \in DOMAIN i : b # l /\ b # BdbMaxKey => b \in DOMAIN Index /\ i[b] = Index[b]
  BY <1>4 DEF Switched
<1> HIDE DEF i, l, n, o
<1>9. /\ DOMAIN i \subseteq Places /\ BdbMaxKey \in DOMAIN i /\ l \in DOMAIN i
      /\ \A b \in DOMAIN i : i[b] \in Nat \ {0} /\ i[b] < meta.next
  <2>1. \A b \in DOMAIN i : i[b] = n \/ i[b] = o \/ (b \in DOMAIN Index /\ i[b] = Index[b])
    BY <1>8
  <2>2. o < meta.next
    BY <1>3, <1>5, <1>6
  <2> QED BY <1>3, <1>4, <1>5, <1>6, <1>7, <1>8, <2>1, <2>2
<1>10. /\ Committed(i) /\ Keeping /\ Index' = i
       /\ pool \in DOMAIN vers'
       /\ fl.ver # 0 => fl.ver \in DOMAIN vers'
       /\ cp.ver # 0 => cp.ver \in DOMAIN vers'
  BY <1>1, <1>2, CommitFact
<1>11. VersInv'
  BY <1>1, <1>2, <1>9, CommitVers
<1>12. /\ hist'.cut = hist.cut /\ hist'.hidden = hist.hidden \cup Hidden
       /\ {"cut", "hidden"} \subseteq DOMAIN hist' /\ Hidden \subseteq Keys
  BY <1>0, <1>1 DEF TreeTypeInv, Hidden
<1>13. meta.min \in Nat /\ (cp.pc = "min" => cp.fn \in Nat)
  BY <1>0 DEF TreeTypeInv
<1>14. AheadInv'
  <2>0. \A k : Seek(Index, k)' = Seek(i, k)
    BY <1>10 DEF Seek
  <2> SUFFICES ASSUME NEW k \in Places, k \notin hist.hidden, k \notin Hidden, k >= hist.cut
               PROVE  /\ Seek(i, k) > meta.min /\ Seek(i, k) \in DOMAIN files'
                      /\ cp.pc = "min" => Seek(i, k) > cp.fn
                      /\ \A v \in DOMAIN vers' : \A b \in DOMAIN vers'[v] :
                           b < k => vers'[v][b] < Seek(i, k)
    BY <1>1, <1>12, <2>0 DEF AheadInv, Ahead, Places, BdbMaxKey
  <2>1. BdbMaxKey >= k /\ k \in Nat
    BY <1>4
  <2>2. PICK c \in DOMAIN Index : /\ c >= k /\ Seek(Index, k) = Index[c] /\ Seek(Index, k) # 0
                                  /\ \A b \in DOMAIN Index : b >= k => b >= c
    <3>1. ~(BdbMaxKey < k)
      BY <1>4, <2>1
    <3> QED BY <1>5, <1>6, <3>1, SeekFact
  <2>3. c \in Nat /\ l \in Nat
    BY <1>4, <1>5
  <2>4. Ahead(Index[c], k)
    BY <1>0, <2>2 DEF AheadInv
  \* It is enough to compare the key's table with the new version.
  <2>5. ASSUME NEW t \in Nat, t = Seek(i, k), t >= Index[c], t \in DOMAIN files,
               \A b \in DOMAIN i : b < k => i[b] < t
        PROVE  /\ t > meta.min /\ t \in DOMAIN files'
               /\ cp.pc = "min" => t > cp.fn
               /\ \A v \in DOMAIN vers' : \A b \in DOMAIN vers'[v] : b < k => vers'[v][b] < t
    <3>1. Index[c] \in Nat
      BY <1>5
    <3>2. t > meta.min /\ (cp.pc = "min" => t > cp.fn)
      BY <1>13, <2>4, <2>5, <3>1 DEF Ahead
    <3>3. t \in DOMAIN files'
      BY <1>10, <1>13, <2>5, <3>2 DEF Keeping
    <3>4. ASSUME NEW v \in DOMAIN vers', NEW b \in DOMAIN vers'[v], b < k PROVE vers'[v][b] < t
      <4>1. CASE v = Cur + 1
        BY <1>10, <2>5, <3>4, <4>1 DEF Committed
      <4>2. CASE v \in DOMAIN vers /\ vers'[v] = vers[v]
        <5>1. vers[v][b] < Index[c] /\ vers[v][b] \in Nat
          BY <1>0, <2>4, <3>4, <4>2 DEF Ahead, VersInv
        <5> QED BY <2>5, <3>1, <4>2, <5>1
      <4> QED BY <1>10, <4>1, <4>2 DEF Committed
    <3> QED BY <3>2, <3>3, <3>4
  <2>6. \A b \in DOMAIN Index : b < k => Index[b] < Index[c]
    BY <1>5, <2>4 DEF Ahead
  <2>7. Index[c] \in Nat /\ Index[c] \in DOMAIN files
    BY <1>5, <2>4 DEF Ahead
  <2>8. \A b \in DOMAIN i : i[b] # 0
    BY <1>9
  <2>9. CASE c = BdbMaxKey /\ k <= l
    <3>1. Index[c] = o
      BY <1>3, <2>9 DEF o
    <3>2. \A b \in DOMAIN i : b >= k => b >= l
      <4> SUFFICES ASSUME NEW b \in DOMAIN i, b >= k PROVE b >= l
        OBVIOUS
      <4>1. CASE b = l
        BY <2>3, <4>1
      <4>2. CASE b = BdbMaxKey
        BY <1>4, <2>3, <4>2
      <4>3. CASE b # l /\ b # BdbMaxKey
        <5>1. b \in DOMAIN Index /\ b >= BdbMaxKey
          BY <1>8, <2>2, <2>9, <4>3
        <5>2. b \in Nat
          BY <1>4, <1>5, <5>1
        <5>3. BdbMaxKey \in Nat /\ l < BdbMaxKey
          BY <1>4
        <5> QED BY <2>3, <5>1, <5>2, <5>3
      <4> QED BY <4>1, <4>2, <4>3
    <3>3. Seek(i, k) = o
      <4>1. l >= k
        BY <2>1, <2>3, <2>9
      <4> QED BY <1>8, <1>9, <2>8, <3>2, <4>1, SeekIs
    <3>4. \A b \in DOMAIN i : b < k => i[b] < o
      <4> SUFFICES ASSUME NEW b \in DOMAIN i, b < k PROVE i[b] < o
        OBVIOUS
      <4>1. b \in Nat
        BY <1>4, <1>9
      <4>2. b # l /\ b # BdbMaxKey
        BY <1>4, <2>1, <2>3, <2>9, <4>1
      <4> QED BY <1>8, <2>6, <3>1, <4>2
    <3>5. o \in Nat /\ o >= Index[c] /\ o \in DOMAIN files
      BY <2>7, <3>1
    <3> QED BY <2>5, <3>3, <3>4, <3>5
  <2>10. CASE c = BdbMaxKey /\ l < k
    <3>1. Index[c] = o
      BY <1>3, <2>10 DEF o
    <3>2. \A b \in DOMAIN i : b >= k => b >= BdbMaxKey
      <4> SUFFICES ASSUME NEW b \in DOMAIN i, b >= k PROVE b >= BdbMaxKey
        OBVIOUS
      <4>1. b \in Nat
        BY <1>4, <1>9
      <4>2. b # l
        BY <2>1, <2>3, <2>10, <4>1
      <4>3. CASE b = BdbMaxKey
        BY <1>4, <4>3
      <4>4. CASE b # BdbMaxKey
        BY <1>8, <2>2, <2>10, <4>2, <4>4
      <4> QED BY <4>3, <4>4
    <3>3. Seek(i, k) = n
      BY <1>8, <1>9, <2>1, <2>8, <3>2, SeekIs
    <3>4. \A b \in DOMAIN i : b < k => i[b] < n
      <4> SUFFICES ASSUME NEW b \in DOMAIN i, b < k PROVE i[b] < n
        OBVIOUS
      <4>1. b \in Nat
        BY <1>4, <1>9
      <4>2. b # BdbMaxKey
        BY <1>4, <2>1, <4>1
      <4>3. CASE b = l
        BY <1>7, <1>8, <4>3
      <4>4. CASE b # l
        BY <1>3, <1>5, <1>8, <4>2, <4>4 DEF n
      <4> QED BY <4>3, <4>4
    <3>5. n \in Nat /\ n >= Index[c] /\ n \in DOMAIN files
      BY <1>3, <1>6, <1>7, <3>1 DEF n
    <3> QED BY <2>5, <3>3, <3>4, <3>5
  <2>11. CASE c # BdbMaxKey
    <3>1. c \in Keys /\ k \in Keys /\ k <= c
      <4>1. c \in Keys
        BY <1>4, <1>5, <2>11
      <4> QED BY <2>1, <2>2, <2>3, <4>1, SeqAssumption DEF Keys, Places
    <3>2. c < l
      <4>1. ~(c >= l)
        BY <2>2, <3>1 DEF Hidden, l
      <4> QED BY <2>3, <4>1
    <3>3. \A b \in DOMAIN i : b >= k => b >= c
      <4> SUFFICES ASSUME NEW b \in DOMAIN i, b >= k PROVE b >= c
        OBVIOUS
      <4>1. CASE b = l
        BY <2>3, <3>2, <4>1
      <4>2. CASE b = BdbMaxKey
        BY <1>4, <1>5, <4>2
      <4>3. CASE b # l /\ b # BdbMaxKey
        BY <1>8, <2>2, <4>3
      <4> QED BY <4>1, <4>2, <4>3
    <3>4. c # l /\ c \in DOMAIN i /\ i[c] = Index[c]
      <4>1. c # l
        BY <2>3, <3>2
      <4> QED BY <1>8, <2>11, <4>1
    <3>5. Seek(i, k) = Index[c]
      BY <1>9, <2>2, <2>8, <3>3, <3>4, SeekIs
    <3>6. \A b \in DOMAIN i : b < k => i[b] < Index[c]
      <4> SUFFICES ASSUME NEW b \in DOMAIN i, b < k PROVE i[b] < Index[c]
        OBVIOUS
      <4>1. b \in Nat
        BY <1>4, <1>9
      <4>2. b # l /\ b # BdbMaxKey
        BY <1>4, <2>1, <2>3, <3>1, <3>2, <4>1
      <4> QED BY <1>8, <2>6, <4>2
    <3>7. Index[c] >= Index[c]
      BY <2>7
    <3> QED BY <2>5, <2>7, <3>5, <3>6, <3>7
  <2>12. k <= l \/ l < k
    BY <2>1, <2>3
  <2> QED BY <2>9, <2>10, <2>11, <2>12
<1>15. TreeTypeInv'
  BY <1>0, <1>1, <1>12 DEF TreeTypeInv, Places, BdbMaxKey, NoFlush, Keys
<1>16. PinInv' /\ CutInv'
  BY <1>0, <1>1, <1>2, <1>10, <1>12 DEF PinInv, CutInv
<1>17. FillInv'
  BY <1>1, <1>8, <1>10 DEF FillInv, BdbMaxKey, n
<1> QED BY <1>10, <1>11, <1>14, <1>15, <1>16, <1>17 DEF TreeInv

\* A process that ends leaves the index as its only version.
LEMMA VersionFact ==
  ASSUME NEW i, vers' = OneVersion(i)
  PROVE  DOMAIN vers' = {1} /\ vers'[1] = i /\ Cur' = 1 /\ Index' = i
<1>1. DOMAIN vers' = {1} /\ vers'[1] = i
  BY DEF OneVersion
<1>2. Max({1}) = 1
  <2> DEFINE D == {1}
  <2>1. D \subseteq Nat /\ D # {} /\ \A y \in D : y <= 1
    OBVIOUS
  <2>2. 1 \in Nat
    OBVIOUS
  <2> HIDE DEF D
  <2>3. Max(D) \in D
    BY <2>1, <2>2, MaxFact
  <2> QED BY <2>3 DEF D
<1>3. Cur' = 1
  BY <1>1, <1>2 DEF Cur
<1> QED BY <1>1, <1>3 DEF Index

\* CloseDone, and a kill at any step: the tables of the index are on disk.
LEMMA GoneTree ==
  ASSUME TreeInv, CloseDone \/ Crash
  PROVE  TreeInv'
<1>0. TreeTypeInv /\ VersInv /\ AheadInv
  BY DEF TreeInv
<1>1. /\ vers' = OneVersion(Index) /\ UNCHANGED <<meta, hist>> /\ status' = "closed"
      /\ flushPc' = "none" /\ fl' = NoFlush /\ rd' = NoGet /\ cp' = NoCompact
  BY DEF CloseDone, Crash, Forget
<1>2. DOMAIN files' = DOMAIN files
  BY DEF CloseDone, Crash
<1>3. DOMAIN vers' = {1} /\ vers'[1] = Index /\ Index' = Index
  BY <1>1, VersionFact
<1>4. /\ Cur \in DOMAIN vers /\ Index = vers[Cur] /\ DOMAIN Index \subseteq Places
      /\ \A b \in DOMAIN Index : Index[b] \in Nat \ {0} /\ Index[b] < meta.next
  BY <1>0, CurFact
<1>5. VersInv'
  <2>1. DOMAIN vers' \subseteq Nat /\ DOMAIN vers' # {} /\ \A v \in DOMAIN vers' : v <= 1
    BY <1>3
  <2>2. 1 \in Nat
    OBVIOUS
  <2> QED BY <1>1, <1>3, <1>4, <2>1, <2>2 DEF VersInv, Places, BdbMaxKey
<1>6. cp'.pc = "idle" /\ cp'.ver = 0 /\ fl'.ver = 0 /\ rd'.pc = "idle"
      /\ DOMAIN fl' = DOMAIN NoFlush
      /\ cp' \in [pc : {"idle", "min", "delete", "begin", "swap"}, keys : SUBSET Places,
                  fn : Nat, ver : Nat]
  BY <1>1 DEF NoCompact, NoFlush, NoGet
<1>7. AheadInv'
  <2>0. \A k : Seek(Index, k)' = Seek(Index, k)
    BY <1>3 DEF Seek
  <2> SUFFICES ASSUME NEW k \in Places, k \notin hist.hidden, k >= hist.cut, Seek(Index, k) # 0
               PROVE  /\ Seek(Index, k) > meta.min /\ Seek(Index, k) \in DOMAIN files
                      /\ \A b \in DOMAIN Index : b < k => Index[b] < Seek(Index, k)
    BY <1>1, <1>2, <1>3, <1>6, <2>0 DEF AheadInv, Ahead, Places, BdbMaxKey
  <2>1. Ahead(Seek(Index, k), k)
    BY <1>0 DEF AheadInv
  <2> QED BY <1>4, <2>1 DEF Ahead
<1>8. TreeTypeInv'
  BY <1>0, <1>1, <1>6 DEF TreeTypeInv, Places, BdbMaxKey, NoFlush, Keys
<1>9. PinInv' /\ CutInv' /\ FillInv'
  BY <1>1, <1>6 DEF PinInv, CutInv, FillInv
<1> QED BY <1>5, <1>7, <1>8, <1>9 DEF TreeInv

\* OpenBitree drops bounds of tables that a compaction passed, none that a key not
\* below the compaction's is looked up by, and a new mutable table is ahead of all.
LEMMA OpenTree ==
  ASSUME TreeInv, Open
  PROVE  TreeInv'
<1>0. TreeTypeInv /\ VersInv /\ AheadInv /\ PinInv
  BY DEF TreeInv
<1> DEFINE new == BdbMaxKey \notin DOMAIN KeptIndex
           i == IF new THEN Put(KeptIndex, BdbMaxKey, meta.next) ELSE KeptIndex
<1>1. /\ status = "closed" /\ status' = "open" /\ vers' = OneVersion(i) /\ pool' = 1
      /\ files' = (IF new THEN Put(KeptFiles, meta.next, NewTable) ELSE KeptFiles)
      /\ meta' = (IF new THEN [meta EXCEPT !.next = @ + 1] ELSE meta)
      /\ stMutable' = i[BdbMaxKey] /\ UNCHANGED <<flushPc, fl, rd, cp>>
  BY DEF Open
<1>2. /\ {"cut", "hidden"} \subseteq DOMAIN hist' /\ hist'.cut = hist.cut
      /\ hist'.hidden = hist.hidden
  BY <1>0 DEF Open, TreeTypeInv
<1>3. cp.pc = "idle" /\ flushPc = "none"
  BY <1>0, <1>1 DEF PinInv
<1>4. /\ DOMAIN Index \subseteq Places
      /\ \A b \in DOMAIN Index : Index[b] \in Nat \ {0} /\ Index[b] < meta.next
      /\ \A b \in DOMAIN Index : Index[b] # 0
      /\ Cur \in DOMAIN vers /\ Index = vers[Cur]
  BY <1>0, CurFact
<1>5. /\ DOMAIN KeptIndex = {b \in DOMAIN Index : Index[b] \in DOMAIN files /\ Index[b] > meta.min}
      /\ \A b \in DOMAIN KeptIndex : KeptIndex[b] = Index[b]
  BY DEF KeptIndex, Kept
<1>6. DOMAIN KeptFiles = {f \in DOMAIN files : f > meta.min}
  BY DEF KeptFiles, Kept
<1> HIDE DEF KeptIndex, KeptFiles
<1>7. /\ meta.next \in Nat \ {0} /\ meta.min \in Nat /\ meta.min < meta.next
      /\ hist.cut \in Nat /\ hist.cut < BdbMaxKey /\ BdbMaxKey \in Nat /\ BdbMaxKey \in Places
      /\ \A b \in Places : b \in Nat /\ b <= BdbMaxKey
  BY <1>0, SeqAssumption DEF TreeTypeInv, Places, BdbMaxKey
<1>8. /\ BdbMaxKey \in DOMAIN i /\ DOMAIN i = DOMAIN KeptIndex \cup {BdbMaxKey}
      /\ DOMAIN i \subseteq Places
      /\ \A b \in DOMAIN i : b # BdbMaxKey => b \in DOMAIN KeptIndex
      /\ \A b \in DOMAIN KeptIndex : b \in DOMAIN Index /\ i[b] = Index[b]
      /\ new => i[BdbMaxKey] = meta.next
  BY <1>4, <1>5, <1>7 DEF Put
<1>9. /\ DOMAIN KeptFiles \subseteq DOMAIN files' /\ (new => meta.next \in DOMAIN files')
  BY <1>1 DEF Put
<1>10. /\ meta' \in [min : Nat, next : Nat \ {0}] /\ meta'.min = meta.min
       /\ meta'.next >= meta.next /\ meta'.next \in Nat /\ meta'.min < meta'.next
       /\ new => meta.next < meta'.next
  <2>1. CASE new
    <3>1. meta' = [meta EXCEPT !.next = @ + 1]
      BY <1>1, <2>1
    <3>2. meta' \in [min : Nat, next : Nat \ {0}] /\ meta'.min = meta.min /\ meta'.next = meta.next + 1
      BY <1>0, <1>7, <3>1 DEF TreeTypeInv
    <3> QED BY <1>7, <3>2
  <2>2. CASE ~new
    BY <1>0, <1>1, <1>7, <2>2 DEF TreeTypeInv
  <2> QED BY <2>1, <2>2
<1> HIDE DEF i, new
<1>11. DOMAIN vers' = {1} /\ vers'[1] = i /\ Index' = i
  BY <1>1, VersionFact
<1>12. \A b \in DOMAIN i : i[b] \in Nat \ {0} /\ i[b] < meta'.next
  <2> SUFFICES ASSUME NEW b \in DOMAIN i PROVE i[b] \in Nat \ {0} /\ i[b] < meta'.next
    OBVIOUS
  <2>1. CASE b \in DOMAIN KeptIndex
    <3>1. i[b] \in Nat \ {0} /\ i[b] < meta.next
      BY <1>4, <1>8, <2>1
    <3> QED BY <1>7, <1>10, <3>1
  <2>2. CASE b \notin DOMAIN KeptIndex
    <3>1. b = BdbMaxKey /\ new
      BY <1>8, <2>2 DEF new
    <3> QED BY <1>7, <1>8, <1>10, <3>1
  <2> QED BY <2>1, <2>2
<1>13. VersInv'
  <2>1. DOMAIN vers' \subseteq Nat /\ DOMAIN vers' # {} /\ \A v \in DOMAIN vers' : v <= 1
    BY <1>11
  <2>2. 1 \in Nat
    OBVIOUS
  <2> QED BY <1>8, <1>11, <1>12, <2>1, <2>2 DEF VersInv, Places, BdbMaxKey
<1>14. AheadInv'
  <2>0. \A k : Seek(Index, k)' = Seek(i, k)
    BY <1>11 DEF Seek
  <2> SUFFICES ASSUME NEW k \in Places, k \notin hist.hidden, k >= hist.cut
               PROVE  /\ Seek(i, k) > meta.min /\ Seek(i, k) \in DOMAIN files'
                      /\ \A b \in DOMAIN i : b < k => i[b] < Seek(i, k)
    BY <1>1, <1>2, <1>3, <1>10, <1>11, <2>0 DEF AheadInv, Ahead, Places, BdbMaxKey
  <2>1. k \in Nat /\ k <= BdbMaxKey
    BY <1>7
  <2>2. \A b \in DOMAIN i : i[b] # 0
    BY <1>12
  <2>3. ASSUME Seek(Index, k) # 0
        PROVE  /\ Seek(i, k) > meta.min /\ Seek(i, k) \in DOMAIN files'
               /\ \A b \in DOMAIN i : b < k => i[b] < Seek(i, k)
    <3>1. PICK c \in DOMAIN Index : /\ c >= k /\ Seek(Index, k) = Index[c]
                                    /\ \A b \in DOMAIN Index : b >= k => b >= c
      BY <1>4, <2>3, SeekFact
    <3>2. Ahead(Index[c], k)
      BY <1>0, <2>3, <3>1 DEF AheadInv
    <3>3. c \in DOMAIN KeptIndex
      BY <1>5, <3>2 DEF Ahead
    <3>4. \A b \in DOMAIN i : b >= k => b >= c
      <4> SUFFICES ASSUME NEW b \in DOMAIN i, b >= k PROVE b >= c
        OBVIOUS
      <4>1. CASE b \in DOMAIN KeptIndex
        BY <1>8, <3>1, <4>1
      <4>2. CASE b = BdbMaxKey
        BY <1>4, <1>7, <4>2
      <4> QED BY <1>8, <4>1, <4>2
    <3>5. Seek(i, k) = Index[c]
      BY <1>8, <2>2, <3>1, <3>3, <3>4, SeekIs
    <3>6. Index[c] > meta.min /\ Index[c] \in DOMAIN files'
      BY <1>6, <1>9, <3>2 DEF Ahead
    <3>7. \A b \in DOMAIN i : b < k => i[b] < Index[c]
      <4> SUFFICES ASSUME NEW b \in DOMAIN i, b < k PROVE i[b] < Index[c]
        OBVIOUS
      <4>1. b # BdbMaxKey
        BY <1>7, <2>1
      <4> QED BY <1>4, <1>8, <3>2, <4>1 DEF Ahead
    <3> QED BY <3>5, <3>6, <3>7
  <2>4. ASSUME Seek(Index, k) = 0
        PROVE  /\ Seek(i, k) > meta.min /\ Seek(i, k) \in DOMAIN files'
               /\ \A b \in DOMAIN i : b < k => i[b] < Seek(i, k)
    <3>1. \A b \in DOMAIN Index : b < k
      BY <1>4, <2>4, SeekFact
    <3>2. new
      <4>1. BdbMaxKey \notin DOMAIN Index
        BY <1>7, <2>1, <3>1
      <4> QED BY <1>8, <4>1 DEF new
    <3>3. \A b \in DOMAIN i : b >= k => b >= BdbMaxKey
      <4> SUFFICES ASSUME NEW b \in DOMAIN i, b >= k, b # BdbMaxKey PROVE FALSE
        BY <1>7
      <4>1. b \in DOMAIN Index /\ b \in Nat /\ b < k
        BY <1>4, <1>7, <1>8, <3>1
      <4> QED BY <2>1, <4>1
    <3>4. Seek(i, k) = meta.next
      <4>1. BdbMaxKey >= k
        BY <1>7, <2>1
      <4> QED BY <1>8, <2>2, <3>2, <3>3, <4>1, SeekIs
    <3>5. \A b \in DOMAIN i : b < k => i[b] < meta.next
      <4> SUFFICES ASSUME NEW b \in DOMAIN i, b < k PROVE i[b] < meta.next
        OBVIOUS
      <4>1. b # BdbMaxKey
        BY <1>7, <2>1
      <4> QED BY <1>4, <1>8, <4>1
    <3> QED BY <1>7, <1>9, <3>2, <3>4, <3>5
  <2> QED BY <2>3, <2>4
<1>15. TreeTypeInv'
  BY <1>0, <1>1, <1>2, <1>10 DEF TreeTypeInv, Places, BdbMaxKey, NoFlush, Keys
<1>16. PinInv'
  <2>1. fl.ver = 0 /\ cp.ver = 0
    BY <1>0, <1>1 DEF PinInv
  <2> QED BY <1>1, <1>3, <1>11, <2>1 DEF PinInv
<1>17. CutInv' /\ FillInv'
  BY <1>1, <1>3, <1>11 DEF CutInv, FillInv, BdbMaxKey
<1> QED BY <1>13, <1>14, <1>15, <1>16, <1>17 DEF TreeInv

\* A bitree that was never opened has no bounds.
LEMMA TreeInit == Init => TreeInv
<1> SUFFICES ASSUME Init PROVE TreeInv
  OBVIOUS
<1>1. /\ files = <<>> /\ meta = [min |-> 0, next |-> 1] /\ vers = OneVersion(<<>>)
      /\ status = "closed" /\ flushPc = "none" /\ fl = NoFlush /\ rd = NoGet /\ cp = NoCompact
      /\ {"cut", "hidden"} \subseteq DOMAIN hist /\ hist.cut = 0 /\ hist.hidden = {}
  BY DEF Init
<1>2. DOMAIN vers = {1} /\ vers[1] = <<>>
  BY <1>1 DEF OneVersion
<1>3. TreeTypeInv
  BY <1>1, SeqAssumption DEF TreeTypeInv, NoFlush, NoCompact, Places
<1>4. VersInv
  <2>1. DOMAIN vers \subseteq Nat /\ DOMAIN vers # {} /\ \A v \in DOMAIN vers : v <= 1
    BY <1>2
  <2>2. 1 \in Nat /\ DOMAIN <<>> = {}
    OBVIOUS
  <2> QED BY <1>1, <1>2, <2>1, <2>2 DEF VersInv
<1>5. PinInv /\ FillInv /\ CutInv
  BY <1>1 DEF PinInv, FillInv, CutInv, NoFlush, NoCompact, NoGet
<1>6. AheadInv
  <2>1. Cur = 1
    <3>1. Cur \in DOMAIN vers
      BY <1>4, CurFact
    <3> QED BY <1>2, <3>1
  <2>2. DOMAIN Index = {}
    BY <1>2, <2>1 DEF Index
  <2>3. \A k : Seek(Index, k) = 0
    BY <2>2 DEF Seek
  <2> QED BY <2>3 DEF AheadInv
<1> QED BY <1>3, <1>4, <1>5, <1>6 DEF TreeInv

\* Every step keeps the bitree's invariant, and while the DB is open the tables above
\* meta.min.
LEMMA TreeStep ==
  ASSUME IInv, TreeInv, [Next]_vars
  PROVE  TreeInv' /\ (status = "open" /\ status' = "open" => Keeping)
<1>1. CASE UNCHANGED vars
  <2>1. /\ UNCHANGED <<files, meta, vers, pool, stMap, stMutable>>
        /\ UNCHANGED <<status, flushPc, fl, rd, cp, hist>>
    BY <1>1 DEF vars, treeVars
  <2>2. Index' = Index /\ Cur' = Cur /\ LastKey' = LastKey /\ \A k : Seek(Index, k)' = Seek(Index, k)
    BY <2>1 DEF Index, Cur, LastKey, Seek
  <2>3. TreeTypeInv' /\ VersInv'
    BY <2>1 DEF TreeInv, TreeTypeInv, VersInv, Places, BdbMaxKey, Keys, NoFlush
  <2>4. PinInv' /\ CutInv'
    BY <2>1 DEF TreeInv, PinInv, CutInv
  <2>5. FillInv'
    BY <2>1, <2>2 DEF TreeInv, FillInv, BdbMaxKey, Keys
  <2>6. AheadInv'
    BY <2>1, <2>2 DEF TreeInv, AheadInv, Ahead, Places, BdbMaxKey
  <2> QED BY <2>1, <2>3, <2>4, <2>5, <2>6 DEF TreeInv, Keeping
<1>2. CASE \/ \E k \in Keys : Get(k) \/ \E del \in BOOLEAN : Set(k, del)
           \/ Add \/ Flush \/ FlushStall \/ FlushSwitch \/ GetLoad \/ GetDone \/ Close
  <2>1. Idle
    BY <1>2, ClientIdle
  <2> QED BY <2>1, IdleTree
<1>3. CASE \E k \in Keys : CompactTo(k)
  BY <1>3, CompactToTree
<1>4. CASE FlushStart \/ CloseFlush
  BY <1>4, RunTree
<1>5. CASE FlushKeys \/ FlushVals \/ FlushNum \/ FlushEnd
  BY <1>5, WriteTree
<1>6. CASE RoomTable \/ RoomSwitch \/ RoomBegin \/ RoomSwap \/ RoomMap
  BY <1>6, RoomTableTree, RoomSwitchTree, RoomBeginTree, RoomSwapTree, RoomMapTree
<1>7. CASE GetTable
  BY <1>7, GetTableTree
<1>8. CASE Compactor
  BY <1>8, CompactMinTree, CompactDeleteTree, CompactSwapTree DEF Compactor
<1>9. CASE CloseDone \/ Crash
  <2>1. status' # "open"
    BY <1>9 DEF CloseDone, Crash, Forget
  <2> QED BY <1>9, <2>1, GoneTree
<1>10. CASE Open
  <2>1. status # "open"
    BY <1>10 DEF Open
  <2> QED BY <1>10, <2>1, OpenTree
<1> QED
  BY <1>1, <1>2, <1>3, <1>4, <1>5, <1>6, <1>7, <1>8, <1>9, <1>10 DEF Next, Flusher, Reader

\* The bitree's index, its versions and the tables fit together in every reachable
\* state, with flushes, readers and compactions interleaved and after any number of
\* kills (bitree, txpool, bdb).
THEOREM TreeSound == Spec => [](IInv /\ TreeInv)
<1>1. Init => IInv /\ TreeInv
  BY IInit, TreeInit
<1>2. (IInv /\ TreeInv) /\ [Next]_vars => (IInv /\ TreeInv)'
  BY IStep, TreeStep
<1> QED BY <1>1, <1>2, PTL DEF Spec

\* No super table that a key not below the compaction's is looked up in leaves the map
\* or the disk, whatever version of the index a flush, a reader or the compaction still
\* reads (freePages, checkStFreed, doStFreed).
THEOREM NoNeededTableFreed == Spec => NeededStay
<1> DEFINE Stays == status = "open" /\ status' = "open" =>
             \A k \in Keys \ hist.hidden :
               k >= hist.cut /\ Seek(Index, k) \in DOMAIN stMap
                 => Seek(Index, k) \in DOMAIN stMap' \cap DOMAIN files'
<1>1. ASSUME IInv, TreeInv, [Next]_vars PROVE [Stays]_vars
  <2> SUFFICES ASSUME status = "open", status' = "open", NEW k \in Keys \ hist.hidden,
                      k >= hist.cut, Seek(Index, k) \in DOMAIN stMap
               PROVE  Seek(Index, k) \in DOMAIN stMap' \cap DOMAIN files'
    OBVIOUS
  <2>1. Keeping
    BY <1>1, TreeStep
  <2>2. k \in Places /\ VersInv /\ AheadInv /\ TreeTypeInv /\ k <= BdbMaxKey /\ k \in Nat
    BY <1>1, SeqAssumption DEF TreeInv, Keys, Places, BdbMaxKey
  <2>3. Seek(Index, k) \in Nat \ {0}
    <3>1. ~(\A b \in DOMAIN Index : b < k)
      <4>1. BdbMaxKey \in Nat /\ ~(BdbMaxKey < k)
        BY <2>2, SeqAssumption DEF BdbMaxKey
      <4> QED BY <1>1, <4>1, MaxAhead
    <3> QED BY <2>2, <3>1, CurFact, SeekFact
  <2>4. Ahead(Seek(Index, k), k)
    BY <2>2, <2>3 DEF AheadInv
  <2>5. ~(Seek(Index, k) <= meta.min)
    <3>1. meta.min \in Nat
      BY <2>2 DEF TreeTypeInv
    <3> QED BY <2>3, <2>4, <3>1 DEF Ahead
  <2> QED BY <2>1, <2>4, <2>5 DEF Keeping, Ahead
<1>2. IInv /\ TreeInv /\ [Next]_vars => [Stays]_vars
  BY <1>1
<1> QED BY <1>2, TreeSound, PTL DEF Spec, NeededStay
=============================================================================
