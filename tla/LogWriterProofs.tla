-------------------------- MODULE LogWriterProofs --------------------------
(***************************************************************************)
(* The log writer implements DurableLog, and a Close without an error has  *)
(* synced everything, for every number of clients, slots, blocks and       *)
(* records, with failing writes and syncs.                                 *)
(***************************************************************************)
EXTENDS LogWriter, FiniteSetTheorems, TLAPS

\* Cells, blocks and acknowledgements: names the provers need not look into.
Cells == Seq(Nat)
Block == [data : Cells, flushed : Nat]
Blocks == Seq(Block)
Acks == SUBSET Nat

\* Labels of a client that has a record, and of one that holds commitPipeline.mu.
Active == {"emit", "queue", "swap", "push", "panic", "signal", "wait", "return"}
Busy == {"emit", "queue", "swap", "push", "panic", "signal", "return", "close", "closing"}
Waiting == {"signal", "wait"}

\* The loop's labels before it has taken anything, and after it has written it.
Before == {"check", "add", "added", "parked", "take", "exit"}
After == {"sync", "pop", "done", "relock"}

Labels == Active \cup Busy \cup {"idle"}
Records == [id : Nat, left : Int, sync : BOOLEAN]
Loops == [pc : Before \cup {"data", "blocks"} \cup After, woken : BOOLEAN,
          pending : Blocks, data : Cells, head : Nat, tail : Nat,
          synced : BOOLEAN, err : BOOLEAN, cur : Clients \cup {NONE}]
Histories == [log : Cells, acked : Acks, closeOk : BOOLEAN, n : Nat, errors : Int]

TypeInv ==
  /\ pc \in [Clients -> Labels] /\ rec \in [Clients -> Records]
  /\ mu \in Clients \cup {NONE}
  /\ block \in Block /\ pending \in Blocks
  /\ head \in Nat /\ tail \in Nat /\ blocked \in BOOLEAN
  /\ slots \in [0..(Slots - 1) -> Clients \cup {NONE}]
  /\ wg \in [Clients -> Int] /\ waitErr \in [Clients -> BOOLEAN]
  /\ wErr \in BOOLEAN /\ fErr \in BOOLEAN /\ fClose \in BOOLEAN
  /\ loop \in Loops
  /\ file \in Cells /\ durable \in Nat
  /\ hist \in Histories

\* commitPipeline.mu admits one writer.
MutexInv == \A c \in Clients : pc[c] \in Busy => mu = c

\* Records have numbers of their own.
IdInv ==
  /\ \A c \in Clients : pc[c] \in Active => rec[c].id \in 1..hist.n
  /\ \A c, d \in Clients : pc[c] \in Active /\ pc[d] \in Active /\ rec[c].id = rec[d].id => c = d
  /\ \A i \in DOMAIN hist.log : hist.log[i] <= hist.n

\* A record that asked for a sync has its WaitGroup raised until it is pushed.
ArmedInv ==
  \A c \in Clients :
    (pc[c] = "push" \/ (pc[c] \in {"emit", "queue", "swap"} /\ rec[c].sync)) => wg[c] = 1

\* The ring: from tail to head it holds waiting clients, each once, and none of them
\* is the one just popped; the loop's own indexes are a part of it or empty.
RingInv ==
  /\ tail <= head /\ head <= tail + Slots
  /\ \A i \in tail..(head - 1) :
       LET c == slots[i % Slots] IN
       c \in Clients /\ pc[c] \in Waiting /\ wg[c] = 1 /\ c # loop.cur
  /\ \A i, j \in tail..(head - 1) : i < j => slots[i % Slots] # slots[j % Slots]
  /\ IF loop.pc = "done"
       THEN loop.cur \in Clients /\ pc[loop.cur] \in Waiting /\ wg[loop.cur] = 1
       ELSE loop.cur = NONE
  /\ loop.tail <= loop.head
  /\ loop.tail # loop.head => loop.tail = tail /\ loop.head <= head

\* The loop: an error is never forgotten, and what it holds is empty before Take and,
\* without an error, after FlushData.
LoopInv ==
  /\ loop.pc \in {"blocks", "sync", "relock"} => ~fErr
  /\ loop.pc \in {"pop", "done"} /\ fErr => loop.err
  /\ loop.pc \in Before \cup {"data", "blocks"} => ~loop.err
  /\ loop.pc \in Before => loop.pending = <<>> /\ loop.data = <<>>
  /\ loop.pc \in After /\ ~loop.err => loop.pending = <<>>
  /\ loop.pc = "data" => pending = <<>> /\ loop.data = <<>>
  /\ loop.pc \in {"blocks", "sync"} => (loop.synced <=> loop.head # loop.tail)

\* The cells of record r are among the first n of the log L.
Within(L, r, n) == \A j \in 1..Len(L) : L[j] = r => j <= n

\* What the blocks bs have unwritten is the log L from a to b, in order.
Covers(L, bs, a, b) ==
  \E p \in [1..(Len(bs) + 1) -> 0..Len(L)] :
    /\ p[1] = a /\ p[Len(bs) + 1] = b
    /\ \A i \in 1..Len(bs) : p[i] <= p[i + 1] /\ Unwritten(bs[i]) = SubSeq(L, p[i] + 1, p[i + 1])

\* What the loop has copied from the current block and not yet written.
InHand == IF loop.pc = "blocks" THEN loop.data ELSE <<>>

\* The records whose clients the loop is about to tell have their cells among the
\* first n.
BatchWithin(n) ==
  \A i \in loop.tail..(loop.head - 1) : Within(hist.log, rec[slots[i % Slots]].id, n)

\* The log is the file, the loop's blocks up to x, its buffered data up to y, the
\* pending blocks up to z, and the rest of the current block.
Split(x, y, z) ==
  /\ x <= y /\ y <= z
  /\ Covers(hist.log, loop.pending, Len(file), x)
  /\ InHand = SubSeq(hist.log, x + 1, y)
  /\ Covers(hist.log, pending, y, z)
  /\ Unwritten(block) = SubSeq(hist.log, z + 1, Len(hist.log))
  /\ loop.pc = "blocks" => BatchWithin(y)

SplitInv == ~(fErr \/ loop.err) => \E x, y, z \in 0..Len(hist.log) : Split(x, y, z)

\* The file is a prefix of the log, and what is durable one of the file.
FileInv ==
  /\ Len(file) <= Len(hist.log) /\ file = SubSeq(hist.log, 1, Len(file))
  /\ durable <= Len(file)
  /\ block.flushed <= Len(block.data)

\* Who is told of no error is on disk.
AckInv ==
  /\ loop.pc = "sync" /\ ~loop.err => BatchWithin(Len(file))
  /\ loop.pc \in {"pop", "done"} /\ ~loop.err => BatchWithin(durable)
  /\ loop.pc = "done" /\ ~waitErr[loop.cur] => Within(hist.log, rec[loop.cur].id, durable)
  /\ \A c \in Clients :
       pc[c] \in Waiting /\ wg[c] = 0 /\ ~waitErr[c] => Within(hist.log, rec[c].id, durable)

\* After f.close nobody writes, and the loop ends with nothing left to write.
CloseInv ==
  /\ fClose => \/ mu = NONE /\ wErr
               \/ mu \in Clients /\ pc[mu] = "closing"
  /\ \A c \in Clients : pc[c] = "closing" => fClose
  /\ loop.pc = "exit" => fClose /\ pending = <<>> /\ Unwritten(block) = <<>> /\ head = tail
  /\ hist.closeOk => mu = NONE /\ loop.pc = "exit" /\ ~fErr /\ durable = Len(file)

IInv == /\ TypeInv /\ MutexInv /\ IdInv /\ ArmedInv /\ RingInv /\ LoopInv
        /\ FileInv /\ SplitInv /\ AckInv /\ CloseInv

-----------------------------------------------------------------------------
\* The smaller of two numbers.
LEMMA MinTwo == \A a, b \in Int : Min({a, b}) \in {a, b} /\ Min({a, b}) <= a /\ Min({a, b}) <= b
  BY DEF Min

\* Sequences of cells are closed under what the writer does with them.
LEMMA CellFacts ==
  \A s, t \in Cells :
    /\ s \o t \in Cells /\ Len(s) \in Nat /\ Append(s, 0) \in Cells /\ <<>> \in Cells
    /\ \A i, j \in Int : i >= 1 /\ j <= Len(s) => SubSeq(s, i, j) \in Cells
  BY DEF Cells

\* A prefix of cells is cells.
LEMMA PrefixType ==
  ASSUME NEW s \in Cells PROVE \A m \in 0..Len(s) : SubSeq(s, 1, m) \in Cells
  BY CellFacts

\* The cells of a fragment.
LEMMA FragmentCells ==
  ASSUME NEW r \in Int, NEW x \in Nat
  PROVE  LET s == [i \in 1..r |-> x] IN s \in Cells /\ Len(s) = (IF r > 0 THEN r ELSE 0)
<1>1. \A n \in Nat : [i \in 1..n |-> x] \in Cells /\ Len([i \in 1..n |-> x]) = n
  BY DEF Cells
<1>2. CASE r < 0
  <2>1. 1..r = {} /\ 1..0 = {}
    BY <1>2
  <2>2. [i \in 1..r |-> x] = [i \in 1..0 |-> x]
    BY <2>1, Zenon
  <2>3. [i \in 1..0 |-> x] \in Cells /\ Len([i \in 1..0 |-> x]) = 0
    BY <1>1
  <2>4. (IF r > 0 THEN r ELSE 0) = 0
    BY <1>2
  <2> QED BY <2>2, <2>3, <2>4, Zenon
<1>3. CASE r >= 0
  <2>1. (IF r > 0 THEN r ELSE 0) = r /\ r \in Nat
    BY <1>3
  <2> QED BY <1>1, <2>1, Zenon
<1>4. r < 0 \/ r >= 0
  OBVIOUS
<1> QED BY <1>2, <1>3, <1>4, Zenon

\* What the constants are.
LEMMA SizeFacts == Slots \in Nat /\ Slots >= 1 /\ BlockCap \in Nat /\ \A n \in Sizes : n \in Nat
  BY LogAssumption

\* The cells emitFragment writes.
Fragment(c) == [i \in 1..Min({rec[c].left, BlockCap - Len(block.data)}) |-> rec[c].id]

\* What emitFragment does: the record's next cells go to the block and to the log,
\* and only the record's rest changes.
LEMMA FragmentFacts ==
  ASSUME TypeInv, NEW c \in Clients, EmitFragment(c)
  PROVE  /\ Fragment(c) \in Cells
         /\ \A i \in 1..Len(Fragment(c)) : Fragment(c)[i] = rec[c].id
         /\ block' = [block EXCEPT !.data = @ \o Fragment(c)]
         /\ hist' = [hist EXCEPT !.log = @ \o Fragment(c)]
         /\ \E left \in Int : rec' = [rec EXCEPT ![c].left = left]
<1> DEFINE r == Min({rec[c].left, BlockCap - Len(block.data)})
<1>1. rec[c].left \in Int /\ rec[c].id \in Nat /\ Len(block.data) \in Nat
  BY CellFacts DEF TypeInv, Records, Block
<1>2. r \in Int
  <2>1. BlockCap - Len(block.data) \in Int
    BY <1>1, SizeFacts
  <2>2. r \in {rec[c].left, BlockCap - Len(block.data)}
    BY <1>1, <2>1, MinTwo
  <2> QED BY <1>1, <2>1, <2>2
<1>3. Fragment(c) \in Cells /\ Len(Fragment(c)) = (IF r > 0 THEN r ELSE 0)
  BY <1>1, <1>2, FragmentCells DEF Fragment
<1>4. \A i \in 1..Len(Fragment(c)) : Fragment(c)[i] = rec[c].id
  <2> HIDE DEF r
  <2>1. Fragment(c) = [i \in 1..r |-> rec[c].id]
    BY DEF Fragment, r
  <2> QED BY <1>2, <1>3, <2>1
<1>5. /\ block' = [block EXCEPT !.data = @ \o Fragment(c)]
      /\ hist' = [hist EXCEPT !.log = @ \o Fragment(c)]
      /\ rec' = [rec EXCEPT ![c].left = rec[c].left - r]
  BY DEF EmitFragment, Fragment
<1>6. rec[c].left - r \in Int
  BY <1>1, <1>2
<1> QED BY <1>3, <1>4, <1>5, <1>6

\* Queues of blocks.
LEMMA BlockFacts ==
  /\ <<>> \in Blocks
  /\ \A q \in Blocks, b \in Block :
       /\ Append(q, b) \in Blocks
       /\ q # <<>> => Tail(q) \in Blocks /\ Head(q) \in Block
  BY DEF Blocks

\* A block's unwritten cells.
LEMMA UnwrittenType ==
  ASSUME NEW b \in Block PROVE Unwritten(b) \in Cells
<1>1. b.data \in Cells /\ b.flushed \in Nat
  BY DEF Block
<1>2. Len(b.data) \in Nat
  BY <1>1, CellFacts
<1>3. b.flushed + 1 \in Int /\ b.flushed + 1 >= 1 /\ Len(b.data) <= Len(b.data)
  BY <1>1, <1>2
<1>4. \A i, j \in Int : i >= 1 /\ j <= Len(b.data) => SubSeq(b.data, i, j) \in Cells
  BY <1>1, CellFacts
<1> QED BY <1>2, <1>3, <1>4 DEF Unwritten

\* Changes of the history keep its type.
LEMMA HistoryFacts ==
  ASSUME NEW h \in Histories
  PROVE  /\ [h EXCEPT !.n = @ + 1] \in Histories
         /\ [h EXCEPT !.errors = @ + 1] \in Histories
         /\ [h EXCEPT !.closeOk = TRUE] \in Histories
<1>1. [h EXCEPT !.n = @ + 1] \in Histories
  BY DEF Histories
<1>2. [h EXCEPT !.errors = @ + 1] \in Histories
  BY DEF Histories
<1>3. [h EXCEPT !.closeOk = TRUE] \in Histories
  BY DEF Histories
<1> QED BY <1>1, <1>2, <1>3

\* A position of the ring selects one of its slots, positions less than Slots apart
\* different ones (syncQueue.push, pop).
LEMMA SlotType == \A i \in Nat : i % Slots \in 0..(Slots - 1)
  BY SizeFacts

\* Positions of the ring less than a round apart have slots of their own.
LEMMA SlotInjective ==
  \A i, j \in Nat : i < j /\ j < i + Slots => i % Slots # j % Slots
<1> SUFFICES ASSUME NEW i \in Nat, NEW j \in Nat, i < j, j < i + Slots, i % Slots = j % Slots
             PROVE  FALSE
  OBVIOUS
<1> DEFINE p == i \div Slots
           q == j \div Slots
<1>1. p \in Int /\ q \in Int /\ i = Slots * p + (i % Slots) /\ j = Slots * q + (j % Slots)
  BY SizeFacts
<1>2. j - i = Slots * (q - p)
  BY <1>1, SizeFacts
<1>3. CASE q - p >= 1
  BY <1>1, <1>2, <1>3, SizeFacts
<1>4. CASE q - p <= 0
  BY <1>1, <1>2, <1>4, SizeFacts
<1> QED BY <1>1, <1>3, <1>4

\* Every step keeps the types.
LEMMA TypeStep == ASSUME IInv, Next PROVE TypeInv'
<1>1. ASSUME NEW c \in Clients, NEW n \in Sizes, NEW s \in BOOLEAN, SyncRecord(c, n, s) PROVE TypeInv'
  <2>1. pc' \in [Clients -> Labels]
    BY <1>1 DEF IInv, TypeInv, SyncRecord, Labels, Active, Busy
  <2>2. rec' \in [Clients -> Records]
    BY <1>1, LogAssumption DEF IInv, TypeInv, SyncRecord, Records, Histories
  <2>3. wg' \in [Clients -> Int]
    BY <1>1 DEF IInv, TypeInv, SyncRecord
  <2>4. hist' \in Histories
    BY <1>1, HistoryFacts DEF IInv, TypeInv, SyncRecord
  <2> QED
    BY <1>1, <2>1, <2>2, <2>3, <2>4 DEF IInv, TypeInv, SyncRecord, queueVars, flushVars
<1>2. ASSUME NEW c \in Clients, EmitFragment(c) PROVE TypeInv'
  <2>1. Fragment(c) \in Cells
    BY <1>2, FragmentFacts DEF IInv
  <2>2. pc' \in [Clients -> Labels]
    BY <1>2 DEF IInv, TypeInv, EmitFragment, Labels, Active, Busy, AfterFragment
  <2>3. rec' \in [Clients -> Records]
    <3>1. PICK left \in Int : rec' = [rec EXCEPT ![c].left = left]
      BY <1>2, FragmentFacts DEF IInv
    <3> QED BY <3>1 DEF IInv, TypeInv, Records
  <2>4. block' \in Block
    <3>1. block.data \o Fragment(c) \in Cells
      BY <2>1, CellFacts DEF IInv, TypeInv, Block
    <3>2. block' = [block EXCEPT !.data = @ \o Fragment(c)]
      BY <1>2, FragmentFacts DEF IInv
    <3> QED BY <3>1, <3>2 DEF IInv, TypeInv, Block
  <2>5. hist' \in Histories
    <3>1. hist.log \o Fragment(c) \in Cells
      BY <2>1, CellFacts DEF IInv, TypeInv, Histories
    <3>2. hist' = [hist EXCEPT !.log = @ \o Fragment(c)]
      BY <1>2, FragmentFacts DEF IInv
    <3> QED BY <3>1, <3>2 DEF IInv, TypeInv, Histories
  <2> QED
    BY <1>2, <2>2, <2>3, <2>4, <2>5 DEF IInv, TypeInv, EmitFragment, queueVars, flushVars
<1>3. ASSUME NEW c \in Clients, QueueBlock(c) PROVE TypeInv'
  <2>1. pc' \in [Clients -> Labels]
    BY <1>3 DEF IInv, TypeInv, QueueBlock, Labels, Active, Busy
  <2> QED
    BY <1>3, <2>1 DEF IInv, TypeInv, QueueBlock, queueVars, flushVars
<1>4. ASSUME NEW c \in Clients, SwapBlock(c) PROVE TypeInv'
  <2>1. pc' \in [Clients -> Labels]
    BY <1>4 DEF IInv, TypeInv, SwapBlock, Labels, Active, Busy, AfterFragment
  <2>2. pending' \in Blocks
    BY <1>4, BlockFacts DEF IInv, TypeInv, SwapBlock
  <2>3. block' \in Block
    BY <1>4, CellFacts DEF IInv, TypeInv, SwapBlock, Block, NewBlock
  <2>4. loop' \in Loops
    BY <1>4 DEF IInv, TypeInv, SwapBlock, Loops, Before, After, Signalled
  <2> QED
    BY <1>4, <2>1, <2>2, <2>3, <2>4 DEF IInv, TypeInv, SwapBlock, queueVars
<1>5. ASSUME NEW c \in Clients, Push(c) PROVE TypeInv'
  <2>1. pc' \in [Clients -> Labels]
    BY <1>5 DEF IInv, TypeInv, Push, Labels, Active, Busy
  <2>2. slots' \in [0..(Slots - 1) -> Clients \cup {NONE}]
    BY <1>5, LogAssumption DEF IInv, TypeInv, Push
  <2> QED
    BY <1>5, <2>1, <2>2 DEF IInv, TypeInv, Push, flushVars
<1>6. ASSUME NEW c \in Clients, SignalFlusher(c) PROVE TypeInv'
  <2>1. pc' \in [Clients -> Labels]
    BY <1>6 DEF IInv, TypeInv, SignalFlusher, Labels, Active, Busy
  <2>2. loop' \in Loops
    BY <1>6 DEF IInv, TypeInv, SignalFlusher, Loops, Before, After, Signalled
  <2> QED
    BY <1>6, <2>1, <2>2 DEF IInv, TypeInv, SignalFlusher, queueVars
<1>7. ASSUME NEW c \in Clients, Return(c) PROVE TypeInv'
  <2>1. pc' \in [Clients -> Labels]
    BY <1>7 DEF IInv, TypeInv, Return, Labels, Active, Busy
  <2>2. rec' \in [Clients -> Records]
    BY <1>7 DEF IInv, TypeInv, Return, Records, NoRec
  <2> QED
    BY <1>7, <2>1, <2>2 DEF IInv, TypeInv, Return, queueVars, flushVars
<1>8. ASSUME NEW c \in Clients, Synced(c) PROVE TypeInv'
  <2>1. pc' \in [Clients -> Labels]
    BY <1>8 DEF IInv, TypeInv, Synced, Labels, Active, Busy
  <2>2. rec' \in [Clients -> Records]
    BY <1>8 DEF IInv, TypeInv, Synced, Records, NoRec
  <2>3. waitErr' \in [Clients -> BOOLEAN]
    BY <1>8 DEF IInv, TypeInv, Synced
  <2>4. hist' \in Histories
    BY <1>8 DEF IInv, TypeInv, Synced, Histories, Records, Acks
  <2> QED
    BY <1>8, <2>1, <2>2, <2>3, <2>4 DEF IInv, TypeInv, Synced, flushVars
<1>9. ASSUME NEW c \in Clients, Close(c) PROVE TypeInv'
  <2>1. pc' \in [Clients -> Labels]
    BY <1>9 DEF IInv, TypeInv, Close, Labels, Active, Busy
  <2>2. block' \in Block
    BY <1>9, CellFacts DEF IInv, TypeInv, Close, Block
  <2>3. hist' \in Histories
    BY <1>9, CellFacts DEF IInv, TypeInv, Close, Histories
  <2> QED
    BY <1>9, <2>1, <2>2, <2>3 DEF IInv, TypeInv, Close, queueVars, flushVars
<1>10. ASSUME NEW c \in Clients, CloseFlag(c) PROVE TypeInv'
  <2>1. pc' \in [Clients -> Labels]
    BY <1>10 DEF IInv, TypeInv, CloseFlag, Labels, Active, Busy
  <2>2. loop' \in Loops
    BY <1>10 DEF IInv, TypeInv, CloseFlag, Loops, Before, After, Signalled
  <2> QED
    BY <1>10, <2>1, <2>2 DEF IInv, TypeInv, CloseFlag, queueVars
<1>11. ASSUME NEW c \in Clients, CloseSync(c) PROVE TypeInv'
  <2>1. pc' \in [Clients -> Labels]
    BY <1>11 DEF IInv, TypeInv, CloseSync, Labels, Active, Busy
  <2>2. hist' \in Histories
    BY <1>11, HistoryFacts DEF IInv, TypeInv, CloseSync, Fails
  <2>3. durable' \in Nat
    BY <1>11 DEF IInv, TypeInv, CloseSync
  <2> QED
    BY <1>11, <2>1, <2>2, <2>3 DEF IInv, TypeInv, CloseSync, queueVars
<1>12. CASE Check
  <2>1. loop' \in Loops
    BY <1>12 DEF IInv, TypeInv, Check, Loops, Before, After
  <2> QED
    BY <1>12, <2>1 DEF IInv, TypeInv, Check, clientVars
<1>13. CASE WaitAdd
  <2>1. loop' \in Loops
    BY <1>13 DEF IInv, TypeInv, WaitAdd, Loops, Before, After
  <2> QED
    BY <1>13, <2>1 DEF IInv, TypeInv, WaitAdd, LoopOnly, queueVars, clientVars
<1>14. CASE WaitUnlock
  <2>1. loop' \in Loops
    BY <1>14 DEF IInv, TypeInv, WaitUnlock, Loops, Before, After
  <2> QED
    BY <1>14, <2>1 DEF IInv, TypeInv, WaitUnlock, LoopOnly, queueVars, clientVars
<1>15. CASE Woken
  <2>1. loop' \in Loops
    BY <1>15, CellFacts, BlockFacts DEF IInv, TypeInv, Woken, Loops, Before, After, Idle
  <2> QED
    BY <1>15, <2>1 DEF IInv, TypeInv, Woken, LoopOnly, queueVars, clientVars
<1>16. CASE Take
  <2>1. loop' \in Loops
    BY <1>16 DEF IInv, TypeInv, Take, Loops, Before, After
  <2>2. pending' \in Blocks
    BY <1>16, BlockFacts DEF IInv, TypeInv, Take
  <2> QED
    BY <1>16, <2>1, <2>2 DEF IInv, TypeInv, Take, queueVars, clientVars
<1>17. CASE Data
  <2>1. loop' \in Loops
    BY <1>17, UnwrittenType DEF IInv, TypeInv, Data, Loops, Before, After
  <2>2. block' \in Block
    BY <1>17, CellFacts DEF IInv, TypeInv, Data, Block
  <2> QED
    BY <1>17, <2>1, <2>2 DEF IInv, TypeInv, Data, queueVars, clientVars
<1>18. CASE FlushBlock
  <2>d. Unwritten(Head(loop.pending)) \in Cells
    BY <1>18, BlockFacts, UnwrittenType DEF IInv, TypeInv, Loops, FlushBlock
  <2>1. loop' \in Loops
    BY <1>18, BlockFacts DEF IInv, TypeInv, FlushBlock, Loops, Before, After
  <2>2. file' \in Cells
    <3>1. \A m \in 0..Len(Unwritten(Head(loop.pending))) : SubSeq(Unwritten(Head(loop.pending)), 1, m) \in Cells
      BY <2>d, PrefixType
    <3>2. \A s \in Cells : file \o s \in Cells
      BY CellFacts DEF IInv, TypeInv
    <3> QED BY <1>18, <2>d, <3>1, <3>2 DEF FlushBlock, WriteFails
  <2>3. hist' \in Histories
    BY <1>18, HistoryFacts DEF IInv, TypeInv, FlushBlock, WriteFails, Fails
  <2> QED
    BY <1>18, <2>1, <2>2, <2>3 DEF IInv, TypeInv, FlushBlock, queueVars, clientVars
<1>19. CASE FlushData
  <2>d. loop.data \in Cells
    BY DEF IInv, TypeInv, Loops
  <2>1. loop' \in Loops
    BY <1>19 DEF IInv, TypeInv, FlushData, Loops, Before, After
  <2>2. file' \in Cells
    <3>1. \A m \in 0..Len(loop.data) : SubSeq(loop.data, 1, m) \in Cells
      BY <2>d, PrefixType
    <3>2. \A s \in Cells : file \o s \in Cells
      BY CellFacts DEF IInv, TypeInv
    <3> QED BY <1>19, <2>d, <3>1, <3>2 DEF FlushData, WriteFails
  <2>3. hist' \in Histories
    BY <1>19, HistoryFacts DEF IInv, TypeInv, FlushData, WriteFails, Fails
  <2> QED
    BY <1>19, <2>1, <2>2, <2>3 DEF IInv, TypeInv, FlushData, queueVars, clientVars
<1>20. CASE SyncFile
  <2>1. loop' \in Loops
    BY <1>20 DEF IInv, TypeInv, SyncFile, Loops, Before, After
  <2>2. hist' \in Histories
    BY <1>20, HistoryFacts DEF IInv, TypeInv, SyncFile, Fails
  <2>3. durable' \in Nat
    BY <1>20 DEF IInv, TypeInv, SyncFile
  <2> QED
    BY <1>20, <2>1, <2>2, <2>3 DEF IInv, TypeInv, SyncFile, queueVars, clientVars
<1>21. CASE Pop
  <2>c. slots[loop.tail % Slots] \in Clients \cup {NONE}
    BY SlotType DEF IInv, TypeInv, Loops
  <2>1. loop' \in Loops
    <3>1. PICK c \in Clients \cup {NONE} :
             loop' = [loop EXCEPT !.pc = "done", !.tail = @ + 1, !.cur = c]
      BY <1>21, <2>c DEF Pop
    <3>2. ASSUME NEW l \in Loops
          PROVE  [l EXCEPT !.pc = "done", !.tail = @ + 1, !.cur = c] \in Loops
      <4>1. l.tail + 1 \in Nat
        BY DEF Loops
      <4>2. \A x \in Nat : [l EXCEPT !.pc = "done", !.tail = x, !.cur = c] \in Loops
        BY DEF Loops, After
      <4> QED BY <4>1, <4>2
    <3> QED BY <3>1, <3>2 DEF IInv, TypeInv
  <2>2. slots' \in [0..(Slots - 1) -> Clients \cup {NONE}]
    BY <1>21, SlotType DEF IInv, TypeInv, Pop
  <2>3. waitErr' \in [Clients -> BOOLEAN]
    BY <1>21 DEF IInv, TypeInv, Pop, Loops
  <2> QED
    BY <1>21, <2>1, <2>2, <2>3 DEF IInv, TypeInv, Pop, clientVars
<1>22. CASE Done
  <2>1. loop' \in Loops
    BY <1>22 DEF IInv, TypeInv, Done, Loops, Before, After
  <2>2. wg' \in [Clients -> Int]
    BY <1>22 DEF IInv, TypeInv, Done, RingInv
  <2> QED
    BY <1>22, <2>1, <2>2 DEF IInv, TypeInv, Done, clientVars
<1>23. CASE PopEnd
  <2>1. loop' \in Loops
    BY <1>23, CellFacts, BlockFacts DEF IInv, TypeInv, PopEnd, Loops, Before, After, Idle
  <2> QED
    BY <1>23, <2>1 DEF IInv, TypeInv, PopEnd, LoopOnly, queueVars, clientVars
<1>24. CASE Relock
  <2>1. loop' \in Loops
    BY <1>24, CellFacts, BlockFacts DEF IInv, TypeInv, Relock, Loops, Before, After, Idle
  <2> QED
    BY <1>24, <2>1 DEF IInv, TypeInv, Relock, clientVars, Loops
<1>25. CASE TimerFires
  <2> QED
    BY <1>25 DEF IInv, TypeInv, TimerFires, clientVars
<1>26. CASE TimerSignals
  <2>1. loop' \in Loops
    BY <1>26 DEF IInv, TypeInv, TimerSignals, Loops, Before, After, Signalled
  <2> QED
    BY <1>26, <2>1 DEF IInv, TypeInv, TimerSignals, clientVars, queueVars
<1> QED
  BY <1>1, <1>2, <1>3, <1>4, <1>5, <1>6, <1>7, <1>8, <1>9, <1>10, <1>11, <1>12, <1>13, <1>14, <1>15, <1>16, <1>17, <1>18, <1>19, <1>20, <1>21, <1>22, <1>23, <1>24, <1>25, <1>26 DEF Next, Writing, FlushLoop

-----------------------------------------------------------------------------
(***************************************************************************)
(* The clients.                                                            *)
(***************************************************************************)

LoopStep == FlushLoop \/ TimerFires \/ TimerSignals

\* A failing operation is only counted.
LEMMA FailsFrame ==
  ASSUME TypeInv, Fails
  PROVE  /\ hist'.log = hist.log /\ hist'.n = hist.n
         /\ hist'.acked = hist.acked /\ hist'.closeOk = hist.closeOk
  BY DEF TypeInv, Histories, Fails

\* The flush loop and the timer leave the clients' state and the log alone.
LEMMA LoopFrame ==
  ASSUME TypeInv, LoopStep
  PROVE  /\ UNCHANGED <<pc, rec, mu, wErr, fClose, head>>
         /\ hist'.log = hist.log /\ hist'.n = hist.n
         /\ hist'.acked = hist.acked /\ hist'.closeOk = hist.closeOk
<1>1. CASE FlushBlock \/ FlushData \/ SyncFile
  BY <1>1, FailsFrame DEF FlushBlock, FlushData, SyncFile, WriteFails, clientVars, queueVars
<1>2. CASE Check \/ WaitAdd \/ WaitUnlock \/ Woken \/ Take \/ Data
  BY <1>2 DEF Check, WaitAdd, WaitUnlock, Woken, Take, Data, LoopOnly, clientVars, queueVars
<1>3. CASE Pop \/ Done \/ PopEnd \/ Relock \/ TimerFires \/ TimerSignals
  BY <1>3 DEF Pop, Done, PopEnd, Relock, TimerFires, TimerSignals, LoopOnly, clientVars, queueVars
<1> QED BY <1>1, <1>2, <1>3 DEF LoopStep, FlushLoop

\* How a client moves on after a fragment.
LEMMA EmitMoves ==
  ASSUME TypeInv, NEW c \in Clients, EmitFragment(c)
  PROVE  /\ pc[c] = "emit" /\ UNCHANGED <<mu, wg>>
         /\ \E p \in {"queue", "emit", "push", "return"} :
              pc' = [pc EXCEPT ![c] = p] /\ (p = "push" => rec[c].sync)
         /\ \A d \in Clients : rec'[d].id = rec[d].id /\ rec'[d].sync = rec[d].sync
<1>1. \E p \in {"queue", "emit", "push", "return"} :
         pc' = [pc EXCEPT ![c] = p] /\ (p = "push" => rec[c].sync)
  BY DEF EmitFragment, AfterFragment
<1>2. PICK left \in Int : rec' = [rec EXCEPT ![c].left = left]
  BY FragmentFacts
<1>3. \A d \in Clients : rec'[d].id = rec[d].id /\ rec'[d].sync = rec[d].sync
  BY <1>2 DEF TypeInv, Records
<1> QED BY <1>1, <1>3 DEF EmitFragment, queueVars

\* Only Done changes a WaitGroup of the loop's own accord.
LEMMA OnlyDone ==
  ASSUME LoopStep, ~Done PROVE wg' = wg
<1>1. CASE FlushBlock \/ FlushData \/ SyncFile \/ Check \/ WaitAdd \/ WaitUnlock \/ Woken
  BY <1>1 DEF FlushBlock, FlushData, SyncFile, Check, WaitAdd, WaitUnlock, Woken, LoopOnly, queueVars
<1>2. CASE Take \/ Data \/ Pop \/ PopEnd \/ Relock \/ TimerFires \/ TimerSignals
  BY <1>2 DEF Take, Data, Pop, PopEnd, Relock, TimerFires, TimerSignals, LoopOnly, queueVars
<1> QED BY <1>1, <1>2 DEF LoopStep, FlushLoop

\* What the clients' other steps do to the history.
LEMMA SyncedFrame ==
  ASSUME TypeInv, NEW c \in Clients, Synced(c)
  PROVE  hist'.log = hist.log /\ hist'.n = hist.n /\ hist'.closeOk = hist.closeOk
  BY DEF TypeInv, Histories, Synced

\* Close adds the end-of-log cell and nothing else.
LEMMA CloseLog ==
  ASSUME TypeInv, IdInv, NEW c \in Clients, Close(c)
  PROVE  /\ hist'.log = Append(hist.log, 0) /\ hist'.n = hist.n /\ hist'.closeOk = hist.closeOk
         /\ \A i \in DOMAIN hist'.log : hist'.log[i] <= hist'.n
<1>1. hist'.log = Append(hist.log, 0) /\ hist'.n = hist.n /\ hist'.closeOk = hist.closeOk
  BY DEF TypeInv, Histories, Close
<1>2. hist.log \in Seq(Nat) /\ hist.n \in Nat
  BY DEF TypeInv, Histories, Cells
<1> QED BY <1>1, <1>2 DEF IdInv

\* The sync of Close writes nothing.
LEMMA CloseSyncFrame ==
  ASSUME TypeInv, NEW c \in Clients, CloseSync(c)
  PROVE  hist'.log = hist.log /\ hist'.n = hist.n
  BY FailsFrame DEF TypeInv, Histories, CloseSync

\* The commit mutex is handed over only by who holds it.
LEMMA MutexStep == ASSUME IInv, Next PROVE MutexInv'
<1>1. ASSUME NEW c \in Clients, NEW n \in Sizes, NEW s \in BOOLEAN, SyncRecord(c, n, s) PROVE MutexInv'
  BY <1>1, LogAssumption DEF IInv, TypeInv, MutexInv, Busy, SyncRecord
<1>2. ASSUME NEW c \in Clients, EmitFragment(c) PROVE MutexInv'
  BY <1>2, EmitMoves DEF IInv, TypeInv, MutexInv, Busy
<1>3. ASSUME NEW c \in Clients, QueueBlock(c) PROVE MutexInv'
  BY <1>3 DEF IInv, TypeInv, MutexInv, Busy, QueueBlock
<1>4. ASSUME NEW c \in Clients, SwapBlock(c) PROVE MutexInv'
  BY <1>4 DEF IInv, TypeInv, MutexInv, Busy, SwapBlock, AfterFragment
<1>5. ASSUME NEW c \in Clients, Push(c) PROVE MutexInv'
  BY <1>5 DEF IInv, TypeInv, MutexInv, Busy, Push
<1>6. ASSUME NEW c \in Clients, SignalFlusher(c) PROVE MutexInv'
  BY <1>6 DEF IInv, TypeInv, MutexInv, Busy, SignalFlusher
<1>7. ASSUME NEW c \in Clients, Return(c) PROVE MutexInv'
  BY <1>7 DEF IInv, TypeInv, MutexInv, Busy, Return
<1>8. ASSUME NEW c \in Clients, Synced(c) PROVE MutexInv'
  BY <1>8 DEF IInv, TypeInv, MutexInv, Busy, Synced
<1>9. ASSUME NEW c \in Clients, Close(c) PROVE MutexInv'
  BY <1>9, LogAssumption DEF IInv, TypeInv, MutexInv, Busy, Close
<1>10. ASSUME NEW c \in Clients, CloseFlag(c) PROVE MutexInv'
  BY <1>10 DEF IInv, TypeInv, MutexInv, Busy, CloseFlag
<1>11. ASSUME NEW c \in Clients, CloseSync(c) PROVE MutexInv'
  BY <1>11 DEF IInv, TypeInv, MutexInv, Busy, CloseSync
<1>12. CASE LoopStep
  BY <1>12, LoopFrame DEF IInv, TypeInv, MutexInv, Busy
<1> QED
  BY <1>1, <1>2, <1>3, <1>4, <1>5, <1>6, <1>7, <1>8, <1>9, <1>10, <1>11, <1>12 DEF Next, Writing, FlushLoop, LoopStep

\* SyncRecord raises the WaitGroup before its first fragment and nobody lowers it
\* before the push.
LEMMA ArmedStep == ASSUME IInv, Next PROVE ArmedInv'
<1>1. ASSUME NEW c \in Clients, NEW n \in Sizes, NEW s \in BOOLEAN, SyncRecord(c, n, s) PROVE ArmedInv'
  BY <1>1 DEF IInv, TypeInv, ArmedInv, SyncRecord
<1>2. ASSUME NEW c \in Clients, EmitFragment(c) PROVE ArmedInv'
  BY <1>2, EmitMoves DEF IInv, TypeInv, ArmedInv
<1>3. ASSUME NEW c \in Clients, QueueBlock(c) PROVE ArmedInv'
  BY <1>3 DEF IInv, TypeInv, ArmedInv, QueueBlock, queueVars
<1>4. ASSUME NEW c \in Clients, SwapBlock(c) PROVE ArmedInv'
  BY <1>4 DEF IInv, TypeInv, ArmedInv, SwapBlock, AfterFragment, queueVars
<1>5. ASSUME NEW c \in Clients, Push(c) PROVE ArmedInv'
  BY <1>5 DEF IInv, TypeInv, ArmedInv, Push
<1>6. ASSUME NEW c \in Clients, SignalFlusher(c) PROVE ArmedInv'
  BY <1>6 DEF IInv, TypeInv, ArmedInv, SignalFlusher, queueVars
<1>7. ASSUME NEW c \in Clients, Return(c) PROVE ArmedInv'
  BY <1>7 DEF IInv, TypeInv, ArmedInv, Return, queueVars
<1>8. ASSUME NEW c \in Clients, Synced(c) PROVE ArmedInv'
  BY <1>8 DEF IInv, TypeInv, ArmedInv, Synced
<1>9. ASSUME NEW c \in Clients, Close(c) PROVE ArmedInv'
  BY <1>9 DEF IInv, TypeInv, ArmedInv, Close, queueVars
<1>10. ASSUME NEW c \in Clients, CloseFlag(c) PROVE ArmedInv'
  BY <1>10 DEF IInv, TypeInv, ArmedInv, CloseFlag, queueVars
<1>11. ASSUME NEW c \in Clients, CloseSync(c) PROVE ArmedInv'
  BY <1>11 DEF IInv, TypeInv, ArmedInv, CloseSync, queueVars
<1>12. CASE Done
  BY <1>12, LoopFrame DEF IInv, TypeInv, ArmedInv, Done, LoopStep, FlushLoop, RingInv, Waiting
<1>13. CASE LoopStep /\ ~Done
  BY <1>13, LoopFrame, OnlyDone DEF IInv, TypeInv, ArmedInv
<1> QED
  BY <1>1, <1>2, <1>3, <1>4, <1>5, <1>6, <1>7, <1>8, <1>9, <1>10, <1>11, <1>12, <1>13 DEF Next, Writing, FlushLoop, LoopStep

\* Only records' own numbers are appended.
LEMMA IdStep == ASSUME IInv, Next PROVE IdInv'
<1>1. ASSUME NEW c \in Clients, NEW n \in Sizes, NEW s \in BOOLEAN, SyncRecord(c, n, s) PROVE IdInv'
  <2>1. hist'.n = hist.n + 1 /\ hist'.log = hist.log /\ hist.n \in Nat
    BY <1>1 DEF IInv, TypeInv, SyncRecord, Histories
  <2>2. rec'[c].id = hist.n + 1 /\ \A d \in Clients \ {c} : rec'[d] = rec[d] /\ pc'[d] = pc[d]
    BY <1>1 DEF IInv, TypeInv, SyncRecord
  <2>3. \A i \in DOMAIN hist.log : hist.log[i] \in Nat
    BY DEF IInv, TypeInv, Histories, Cells
  <2>4. \A d \in Clients : rec[d].id \in Nat
    BY DEF IInv, TypeInv, Records
  <2> QED BY <2>1, <2>2, <2>3, <2>4 DEF IInv, IdInv
<1>2. ASSUME NEW c \in Clients, EmitFragment(c) PROVE IdInv'
  <2>1. hist'.n = hist.n /\ hist'.log = hist.log \o Fragment(c)
    BY <1>2, FragmentFacts DEF IInv, TypeInv, Histories
  <2>2. \A i \in DOMAIN hist'.log : hist'.log[i] <= hist.n
    <3>1. hist.log \in Seq(Nat) /\ Fragment(c) \in Seq(Nat)
      BY <1>2, FragmentFacts DEF IInv, TypeInv, Histories, Cells
    <3>2. \A i \in 1..Len(Fragment(c)) : Fragment(c)[i] <= hist.n
      BY <1>2, FragmentFacts, EmitMoves DEF IInv, IdInv, Active
    <3>3. ASSUME NEW i \in DOMAIN hist'.log PROVE hist'.log[i] <= hist.n
      <4>1. CASE i \in DOMAIN hist.log
        BY <2>1, <3>1, <4>1 DEF IInv, IdInv
      <4>2. CASE i \notin DOMAIN hist.log
        <5>1. i - Len(hist.log) \in 1..Len(Fragment(c))
                /\ hist'.log[i] = Fragment(c)[i - Len(hist.log)]
          BY <2>1, <3>1, <3>3, <4>2
        <5> QED BY <3>2, <5>1
      <4> QED BY <4>1, <4>2
    <3> QED BY <3>3
  <2>3. \A d \in Clients : pc'[d] \in Active => pc[d] \in Active
    BY <1>2, EmitMoves DEF IInv, TypeInv, Active
  <2> QED BY <1>2, <2>1, <2>2, <2>3, EmitMoves DEF IInv, IdInv
<1>3. ASSUME NEW c \in Clients, QueueBlock(c) PROVE IdInv'
  BY <1>3 DEF IInv, TypeInv, IdInv, Active, QueueBlock
<1>4. ASSUME NEW c \in Clients, SwapBlock(c) PROVE IdInv'
  BY <1>4 DEF IInv, TypeInv, IdInv, Active, SwapBlock, AfterFragment
<1>5. ASSUME NEW c \in Clients, Push(c) PROVE IdInv'
  <2>1. \A d \in Clients : pc'[d] \in Active => pc[d] \in Active
    BY <1>5 DEF IInv, TypeInv, Active, Push
  <2> QED BY <1>5, <2>1 DEF IInv, IdInv, Push
<1>6. ASSUME NEW c \in Clients, SignalFlusher(c) PROVE IdInv'
  BY <1>6 DEF IInv, TypeInv, IdInv, Active, SignalFlusher
<1>7. ASSUME NEW c \in Clients, Return(c) PROVE IdInv'
  BY <1>7 DEF IInv, TypeInv, IdInv, Active, Return
<1>8. ASSUME NEW c \in Clients, Synced(c) PROVE IdInv'
  BY <1>8, SyncedFrame DEF IInv, TypeInv, IdInv, Active, Synced
<1>9. ASSUME NEW c \in Clients, Close(c) PROVE IdInv'
  BY <1>9, CloseLog DEF IInv, TypeInv, IdInv, Active, Close
<1>10. ASSUME NEW c \in Clients, CloseFlag(c) PROVE IdInv'
  BY <1>10 DEF IInv, TypeInv, IdInv, Active, CloseFlag
<1>11. ASSUME NEW c \in Clients, CloseSync(c) PROVE IdInv'
  BY <1>11, CloseSyncFrame DEF IInv, TypeInv, IdInv, Active, CloseSync
<1>12. CASE LoopStep
  BY <1>12, LoopFrame DEF IInv, TypeInv, IdInv, Active
<1> QED
  BY <1>1, <1>2, <1>3, <1>4, <1>5, <1>6, <1>7, <1>8, <1>9, <1>10, <1>11, <1>12 DEF Next, Writing, FlushLoop, LoopStep

-----------------------------------------------------------------------------
(***************************************************************************)
(* The ring.                                                               *)
(***************************************************************************)

\* A signal changes nothing but woken.
LEMMA SignalledFrame ==
  ASSUME NEW l \in Loops
  PROVE  LET m == Signalled(l) IN
         /\ m.pc = l.pc /\ m.pending = l.pending /\ m.data = l.data /\ m.head = l.head
         /\ m.tail = l.tail /\ m.synced = l.synced /\ m.err = l.err /\ m.cur = l.cur
  BY DEF Loops, Signalled

\* The loop as far as the invariants look at it.
SameLoop == /\ loop'.pc = loop.pc /\ loop'.pending = loop.pending /\ loop'.data = loop.data
            /\ loop'.head = loop.head /\ loop'.tail = loop.tail
            /\ loop'.synced = loop.synced /\ loop'.err = loop.err /\ loop'.cur = loop.cur

\* A client step that keeps the ring and those who wait in it.
LEMMA RingFrame ==
  ASSUME RingInv, SameLoop, UNCHANGED <<head, tail, slots>>,
         \A d \in Clients : pc[d] \in Waiting /\ wg[d] = 1 => pc'[d] \in Waiting /\ wg'[d] = 1
  PROVE  RingInv'
  BY DEF RingInv, SameLoop

\* A step of the loop that pops nobody.
LEMMA LoopRingFrame ==
  ASSUME TypeInv, RingInv, UNCHANGED <<head, tail, slots, pc, wg>>, loop.pc # "done", loop'.pc # "done",
         loop'.cur = NONE,
         \/ loop'.head = loop.head /\ loop'.tail = loop.tail
         \/ loop'.head = 0 /\ loop'.tail = 0
         \/ loop'.head = head /\ loop'.tail = tail
  PROVE  RingInv'
<1>1. loop'.tail <= loop'.head /\ (loop'.tail # loop'.head => loop'.tail = tail /\ loop'.head <= head)
  BY DEF RingInv, TypeInv
<1> QED BY <1>1, LogAssumption DEF RingInv

\* push and pop leave the slots of those who go on waiting alone.
LEMMA PushSlots ==
  ASSUME TypeInv, RingInv, NEW c \in Clients, Push(c), ~RingFull
  PROVE  head < tail + Slots /\ \A i \in tail..(head - 1) : slots'[i % Slots] = slots[i % Slots]
<1>1. slots' = [slots EXCEPT ![head % Slots] = c]
  BY DEF Push
<1>2. head < tail + Slots
  BY SizeFacts DEF RingFull, RingInv, TypeInv
<1>3. ASSUME NEW i \in tail..(head - 1) PROVE slots'[i % Slots] = slots[i % Slots]
  <2>1. i \in Nat /\ i < head /\ head < i + Slots /\ head \in Nat
    BY <1>2, SizeFacts DEF TypeInv
  <2>2. i % Slots # head % Slots /\ i % Slots \in 0..(Slots - 1)
    BY <2>1, SlotInjective, SlotType
  <2> QED BY <1>1, <2>2 DEF TypeInv
<1> QED BY <1>2, <1>3

\* syncQueue.pop clears the slot at tail and no other one in use.
LEMMA PopSlots ==
  ASSUME TypeInv, RingInv, Pop
  PROVE  /\ loop.tail = tail /\ loop.tail < loop.head /\ loop.head <= head
         /\ \A i \in (tail + 1)..(head - 1) : slots'[i % Slots] = slots[i % Slots]
<1>1. loop.tail # loop.head /\ slots' = [slots EXCEPT ![loop.tail % Slots] = NONE]
  BY DEF Pop
<1>2. /\ loop.tail = tail /\ loop.tail < loop.head /\ loop.head <= head
      /\ tail \in Nat /\ head \in Nat /\ loop.head \in Nat
  BY <1>1 DEF RingInv, TypeInv, Loops
<1>3. ASSUME NEW i \in (tail + 1)..(head - 1) PROVE slots'[i % Slots] = slots[i % Slots]
  <2>1. i \in Nat /\ tail < i /\ i < tail + Slots
    BY <1>2, SizeFacts DEF RingInv
  <2>2. i % Slots # tail % Slots /\ i % Slots \in 0..(Slots - 1)
    BY <1>2, <2>1, SlotInjective, SlotType
  <2> QED BY <1>1, <1>2, <2>2 DEF TypeInv
<1> QED BY <1>2, <1>3

\* Pushes go to free slots and pops take waiting clients, so the ring stays sound.
LEMMA RingStep == ASSUME IInv, Next PROVE RingInv'
<1> USE DEF IInv
<1>1. ASSUME NEW c \in Clients, NEW n \in Sizes, NEW s \in BOOLEAN, SyncRecord(c, n, s)
      PROVE  RingInv'
  BY <1>1, RingFrame DEF TypeInv, SyncRecord, SameLoop, flushVars, Waiting
<1>2. ASSUME NEW c \in Clients, EmitFragment(c) PROVE RingInv'
  <2>1. SameLoop /\ UNCHANGED <<head, tail, slots, wg>>
    BY <1>2 DEF EmitFragment, SameLoop, queueVars, flushVars
  <2>2. \A d \in Clients : pc[d] \in Waiting => pc'[d] \in Waiting
    BY <1>2, EmitMoves DEF TypeInv, Waiting
  <2> QED BY <2>1, <2>2, RingFrame
<1>3. ASSUME NEW c \in Clients, QueueBlock(c) PROVE RingInv'
  BY <1>3, RingFrame DEF TypeInv, QueueBlock, SameLoop, queueVars, flushVars, Waiting
<1>4. ASSUME NEW c \in Clients, SwapBlock(c) PROVE RingInv'
  BY <1>4, RingFrame, SignalledFrame DEF TypeInv, SwapBlock, SameLoop, queueVars, Waiting
<1>5. ASSUME NEW c \in Clients, Push(c) PROVE RingInv'
  <2>1. SameLoop /\ UNCHANGED <<tail, wg>>
    BY <1>5 DEF Push, SameLoop, flushVars
  <2>2. CASE RingFull
    BY <1>5, <2>1, <2>2, RingFrame DEF TypeInv, Push, Waiting
  <2>3. CASE ~RingFull
    <3>1. /\ head' = head + 1 /\ slots' = [slots EXCEPT ![head % Slots] = c]
          /\ pc' = [pc EXCEPT ![c] = "signal"] /\ pc[c] = "push" /\ wg[c] = 1
      BY <1>5, <2>3 DEF Push, ArmedInv
    <3>2. head < tail + Slots
      BY <1>5, <2>3, PushSlots
    <3>3. \A i \in tail..(head - 1) : slots'[i % Slots] = slots[i % Slots]
      BY <1>5, <2>3, PushSlots
    <3>4. slots'[head % Slots] = c
      BY <3>1, SlotType DEF TypeInv
    <3>5. \A d \in Clients : pc[d] \in Waiting => pc'[d] \in Waiting /\ d # c
      BY <3>1 DEF TypeInv, Waiting
    <3>6. c # loop.cur
      BY <3>1, LogAssumption DEF RingInv, Waiting
    <3>7. \A i \in tail..(head' - 1) :
            LET d == slots'[i % Slots] IN
            d \in Clients /\ pc'[d] \in Waiting /\ wg'[d] = 1 /\ d # loop'.cur
      BY <2>1, <3>1, <3>3, <3>4, <3>5, <3>6 DEF RingInv, TypeInv, SameLoop, Waiting
    <3>8. \A i, j \in tail..(head' - 1) : i < j => slots'[i % Slots] # slots'[j % Slots]
      BY <3>1, <3>3, <3>4, <3>5 DEF RingInv, TypeInv
    <3> QED BY <2>1, <3>1, <3>2, <3>5, <3>7, <3>8, SizeFacts DEF RingInv, SameLoop, TypeInv, Loops
  <2> QED BY <2>2, <2>3
<1>6. ASSUME NEW c \in Clients, SignalFlusher(c) PROVE RingInv'
  BY <1>6, RingFrame, SignalledFrame DEF TypeInv, SignalFlusher, SameLoop, queueVars, Waiting
<1>7. ASSUME NEW c \in Clients, Return(c) PROVE RingInv'
  BY <1>7, RingFrame DEF TypeInv, Return, SameLoop, queueVars, flushVars, Waiting
<1>8. ASSUME NEW c \in Clients, Synced(c) PROVE RingInv'
  BY <1>8, RingFrame DEF TypeInv, Synced, SameLoop, flushVars
<1>9. ASSUME NEW c \in Clients, Close(c) PROVE RingInv'
  BY <1>9, RingFrame DEF TypeInv, Close, SameLoop, queueVars, flushVars, Waiting
<1>10. ASSUME NEW c \in Clients, CloseFlag(c) PROVE RingInv'
  BY <1>10, RingFrame, SignalledFrame DEF TypeInv, CloseFlag, SameLoop, queueVars, Waiting
<1>11. ASSUME NEW c \in Clients, CloseSync(c) PROVE RingInv'
  BY <1>11, RingFrame DEF TypeInv, CloseSync, SameLoop, queueVars, Waiting
<1>12. CASE Check
  BY <1>12, LoopRingFrame DEF TypeInv, RingInv, Check, Loops, clientVars
<1>13. CASE WaitAdd \/ WaitUnlock
  BY <1>13, LoopRingFrame
     DEF TypeInv, RingInv, WaitAdd, WaitUnlock, Loops, LoopOnly, queueVars, clientVars
<1>14. CASE Woken \/ PopEnd
  BY <1>14, LoopRingFrame
     DEF TypeInv, RingInv, Woken, PopEnd, Idle, Loops, LoopOnly, queueVars, clientVars
<1>15. CASE Take
  BY <1>15, LoopRingFrame DEF TypeInv, RingInv, Take, Loops, queueVars, clientVars
<1>16. CASE Data
  BY <1>16, LoopRingFrame DEF TypeInv, RingInv, Data, Loops, queueVars, clientVars
<1>17. CASE FlushBlock
  BY <1>17, LoopRingFrame DEF TypeInv, RingInv, FlushBlock, Loops, queueVars, clientVars
<1>18. CASE FlushData
  BY <1>18, LoopRingFrame DEF TypeInv, RingInv, FlushData, Loops, queueVars, clientVars
<1>19. CASE SyncFile
  BY <1>19, LoopRingFrame DEF TypeInv, RingInv, SyncFile, Loops, queueVars, clientVars
<1>20. CASE Pop
  <2> DEFINE c == slots[loop.tail % Slots]
  <2>1. /\ loop.pc = "pop" /\ loop.tail # loop.head
        /\ slots' = [slots EXCEPT ![loop.tail % Slots] = NONE] /\ tail' = tail + 1
        /\ UNCHANGED <<head, pc, wg>>
    BY <1>20 DEF Pop, clientVars
  <2>2. loop'.pc = "done" /\ loop'.tail = loop.tail + 1 /\ loop'.cur = c /\ loop'.head = loop.head
    BY <1>20 DEF Pop, TypeInv, Loops
  <2>3. /\ loop.tail = tail /\ loop.tail < loop.head /\ loop.head <= head
        /\ tail \in Nat /\ head \in Nat /\ loop.head \in Nat
    BY <2>1 DEF RingInv, TypeInv, Loops
  <2>4. c \in Clients /\ pc[c] \in Waiting /\ wg[c] = 1
    BY <2>3 DEF RingInv
  <2>5. \A i \in (tail + 1)..(head - 1) : slots'[i % Slots] = slots[i % Slots]
    BY <1>20, PopSlots
  <2>6. \A i \in (tail + 1)..(head - 1) : slots[i % Slots] # c
    BY <2>3 DEF RingInv
  <2>7. \A i \in tail'..(head' - 1) :
          LET d == slots'[i % Slots] IN
          d \in Clients /\ pc'[d] \in Waiting /\ wg'[d] = 1 /\ d # loop'.cur
    BY <2>1, <2>2, <2>3, <2>5, <2>6 DEF RingInv
  <2>8. \A i, j \in tail'..(head' - 1) : i < j => slots'[i % Slots] # slots'[j % Slots]
    BY <2>1, <2>3, <2>5 DEF RingInv
  <2> HIDE DEF c
  <2> QED BY <2>1, <2>2, <2>3, <2>4, <2>7, <2>8, SizeFacts DEF RingInv
<1>21. CASE Done
  <2>1. /\ loop.pc = "done" /\ UNCHANGED <<head, tail, slots, pc>>
        /\ wg' = [wg EXCEPT ![loop.cur] = @ - 1]
    BY <1>21 DEF Done, clientVars
  <2>2. loop'.pc = "pop" /\ loop'.tail = loop.tail /\ loop'.cur = NONE /\ loop'.head = loop.head
    BY <1>21 DEF Done, TypeInv, Loops
  <2> QED BY <2>1, <2>2, LogAssumption DEF RingInv, TypeInv
<1>22. CASE Relock
  BY <1>22, LoopRingFrame DEF TypeInv, RingInv, Relock, Idle, Loops, clientVars
<1>23. CASE TimerFires
  BY <1>23, RingFrame DEF TimerFires, SameLoop, clientVars
<1>24. CASE TimerSignals
  BY <1>24, RingFrame, SignalledFrame DEF TypeInv, TimerSignals, SameLoop, clientVars, queueVars
<1> QED
  BY <1>1, <1>2, <1>3, <1>4, <1>5, <1>6, <1>7, <1>8, <1>9, <1>10, <1>11, <1>12, <1>13, <1>14,
     <1>15, <1>16, <1>17, <1>18, <1>19, <1>20, <1>21, <1>22, <1>23, <1>24
     DEF Next, Writing, FlushLoop

-----------------------------------------------------------------------------
(***************************************************************************)
(* The flush loop.                                                         *)
(***************************************************************************)

\* What most client steps leave alone.
LEMMA ClientFrame ==
  ASSUME TypeInv, NEW c \in Clients,
         \/ \E n \in Sizes, s \in BOOLEAN : SyncRecord(c, n, s)
         \/ EmitFragment(c) \/ QueueBlock(c) \/ Push(c) \/ SignalFlusher(c) \/ Return(c)
         \/ Synced(c) \/ Close(c) \/ CloseFlag(c) \/ CloseSync(c)
  PROVE  SameLoop /\ UNCHANGED <<fErr, pending, file>>
<1>1. CASE \/ \E n \in Sizes, s \in BOOLEAN : SyncRecord(c, n, s)
           \/ EmitFragment(c) \/ QueueBlock(c) \/ Push(c) \/ Return(c) \/ Synced(c) \/ Close(c)
           \/ CloseSync(c)
  BY <1>1 DEF SyncRecord, EmitFragment, QueueBlock, Push, Return, Synced, Close, CloseSync,
              flushVars, SameLoop
<1>2. CASE SignalFlusher(c) \/ CloseFlag(c)
  BY <1>2, SignalledFrame DEF TypeInv, SignalFlusher, CloseFlag, SameLoop
<1> QED BY <1>1, <1>2

\* Every pass of flushLoop starts with empty hands, and an error stays.
LEMMA LoopInvStep == ASSUME IInv, Next PROVE LoopInv'
<1> USE DEF IInv, Before, After
<1>1. ASSUME NEW c \in Clients,
             \/ \E n \in Sizes, s \in BOOLEAN : SyncRecord(c, n, s)
             \/ EmitFragment(c) \/ QueueBlock(c) \/ Push(c) \/ SignalFlusher(c) \/ Return(c)
             \/ Synced(c) \/ Close(c) \/ CloseFlag(c) \/ CloseSync(c)
      PROVE  LoopInv'
  BY <1>1, ClientFrame DEF LoopInv, SameLoop
<1>2. ASSUME NEW c \in Clients, SwapBlock(c) PROVE LoopInv'
  BY <1>2, SignalledFrame DEF TypeInv, LoopInv, SwapBlock, LoopHoldsLock
<1>3. CASE Check
  BY <1>3 DEF TypeInv, LoopInv, Check, Loops
<1>4. CASE WaitAdd \/ WaitUnlock
  BY <1>4 DEF TypeInv, LoopInv, WaitAdd, WaitUnlock, Loops, LoopOnly
<1>5. CASE Woken
  BY <1>5 DEF LoopInv, Woken, Idle, LoopOnly
<1>15. CASE PopEnd
  BY <1>15 DEF TypeInv, LoopInv, PopEnd, Idle, Loops, LoopOnly
<1>6. CASE Take
  BY <1>6 DEF TypeInv, LoopInv, Take, Loops
<1>7. CASE Data
  BY <1>7 DEF TypeInv, LoopInv, Data, Loops
<1>8. CASE FlushBlock
  BY <1>8 DEF TypeInv, LoopInv, FlushBlock, Loops
<1>9. CASE FlushData
  BY <1>9 DEF TypeInv, LoopInv, FlushData, Loops
<1>10. CASE SyncFile
  <2>1. /\ loop.pc = "sync" /\ loop'.pc \in {"pop", "relock"} /\ (loop.err => loop'.err)
        /\ loop'.pending = loop.pending
    BY <1>10 DEF TypeInv, SyncFile, Loops
  <2>2. UNCHANGED <<fErr, pending>>
    BY <1>10 DEF SyncFile
  <2> QED BY <2>1, <2>2 DEF LoopInv
<1>11. CASE Pop \/ Done
  <2>1. /\ loop.pc \in {"pop", "done"} /\ loop'.pc \in {"pop", "done"} /\ loop'.err = loop.err
        /\ loop'.pending = loop.pending
    BY <1>11 DEF TypeInv, Pop, Done, Loops
  <2>2. UNCHANGED <<fErr, pending>>
    BY <1>11 DEF Pop, Done
  <2> QED BY <2>1, <2>2 DEF LoopInv
<1>12. CASE Relock
  BY <1>12 DEF TypeInv, LoopInv, Relock, Idle, Loops
<1>13. CASE TimerFires
  BY <1>13 DEF LoopInv, TimerFires
<1>14. CASE TimerSignals
  BY <1>14, SignalledFrame DEF TypeInv, LoopInv, TimerSignals
<1> QED
  BY <1>1, <1>2, <1>3, <1>4, <1>5, <1>6, <1>7, <1>8, <1>9, <1>10, <1>11, <1>12, <1>13, <1>14, <1>15
     DEF Next, Writing, FlushLoop

-----------------------------------------------------------------------------
(***************************************************************************)
(* The content of the log, cut into what is where.                         *)
(***************************************************************************)

\* Sequences of cells are equal cell by cell.
LEMMA SameCells ==
  ASSUME NEW s \in Cells, NEW t \in Cells, Len(s) = Len(t), \A i \in 1..Len(s) : s[i] = t[i]
  PROVE  s = t
  BY DEF Cells

\* The cells of a stretch of the log, and of a concatenation.
LEMMA StretchFacts ==
  ASSUME NEW L \in Cells, NEW a \in 0..Len(L), NEW b \in 0..Len(L), a <= b
  PROVE  /\ SubSeq(L, a + 1, b) \in Cells /\ Len(SubSeq(L, a + 1, b)) = b - a
         /\ \A i \in 1..(b - a) : SubSeq(L, a + 1, b)[i] = L[a + i]
  BY DEF Cells

\* Length and elements of a concatenation.
LEMMA ConcatFacts ==
  ASSUME NEW s \in Cells, NEW t \in Cells
  PROVE  /\ s \o t \in Cells /\ Len(s) \in Nat /\ Len(t) \in Nat
         /\ Len(s \o t) = Len(s) + Len(t)
         /\ \A i \in 1..(Len(s) + Len(t)) :
              (s \o t)[i] = IF i <= Len(s) THEN s[i] ELSE t[i - Len(s)]
  BY DEF Cells

\* Adjacent stretches.
LEMMA Adjoin ==
  ASSUME NEW L \in Cells, NEW a \in 0..Len(L), NEW b \in 0..Len(L), NEW c \in 0..Len(L),
         a <= b, b <= c
  PROVE  SubSeq(L, a + 1, b) \o SubSeq(L, b + 1, c) = SubSeq(L, a + 1, c)
<1> DEFINE s == SubSeq(L, a + 1, b)
           t == SubSeq(L, b + 1, c)
           u == SubSeq(L, a + 1, c)
<1>1. Len(L) \in Nat /\ a \in Nat /\ b \in Nat /\ c \in Nat /\ a <= c
  BY CellFacts
<1>2. s \in Cells /\ Len(s) = b - a /\ \A i \in 1..(b - a) : s[i] = L[a + i]
  BY StretchFacts
<1>3. t \in Cells /\ Len(t) = c - b /\ \A i \in 1..(c - b) : t[i] = L[b + i]
  BY StretchFacts
<1>4. u \in Cells /\ Len(u) = c - a /\ \A i \in 1..(c - a) : u[i] = L[a + i]
  BY <1>1, StretchFacts
<1> HIDE DEF s, t, u
<1>5. /\ s \o t \in Cells /\ Len(s \o t) = c - a
      /\ \A i \in 1..(c - a) : (s \o t)[i] = IF i <= b - a THEN s[i] ELSE t[i - (b - a)]
  <2>1. /\ s \o t \in Cells /\ Len(s \o t) = Len(s) + Len(t)
        /\ \A i \in 1..(Len(s) + Len(t)) : (s \o t)[i] = IF i <= Len(s) THEN s[i] ELSE t[i - Len(s)]
    BY <1>2, <1>3, ConcatFacts
  <2>2. Len(s) + Len(t) = c - a
    BY <1>1, <1>2, <1>3
  <2> QED BY <1>2, <2>1, <2>2
<1>6. ASSUME NEW i \in 1..(c - a) PROVE (s \o t)[i] = u[i]
  <2>1. CASE i <= b - a
    BY <1>1, <1>2, <1>4, <1>5, <2>1
  <2>2. CASE i > b - a
    <3>1. i - (b - a) \in 1..(c - b) /\ b + (i - (b - a)) = a + i
      BY <1>1, <2>2
    <3> QED BY <1>1, <1>3, <1>4, <1>5, <2>2, <3>1
  <2>3. i <= b - a \/ i > b - a
    BY <1>1
  <2> QED BY <2>1, <2>2, <2>3, Zenon
<1> QED BY <1>1, <1>4, <1>5, <1>6, SameCells DEF s, t, u

\* The first cells of a stretch.
LEMMA FirstOfStretch ==
  ASSUME NEW L \in Cells, NEW a \in 0..Len(L), NEW b \in 0..Len(L), a <= b, NEW k \in 0..(b - a)
  PROVE  SubSeq(SubSeq(L, a + 1, b), 1, k) = SubSeq(L, a + 1, a + k)
<1> DEFINE s == SubSeq(L, a + 1, b)
<1>1. Len(L) \in Nat /\ a \in Nat /\ b \in Nat /\ a + k \in 0..Len(L) /\ a <= a + k /\ a + k - a = k
        /\ k \in Nat /\ 0 + 1 = 1 /\ k - 0 = k /\ 0 <= k
  BY CellFacts
<1>2. s \in Cells /\ Len(s) = b - a /\ \A i \in 1..(b - a) : s[i] = L[a + i]
  BY StretchFacts
<1> HIDE DEF s
<1>3. /\ SubSeq(s, 1, k) \in Cells /\ Len(SubSeq(s, 1, k)) = k
      /\ \A i \in 1..k : SubSeq(s, 1, k)[i] = s[0 + i]
  <2>1. 0 \in 0..Len(s) /\ k \in 0..Len(s)
    BY <1>1, <1>2
  <2> QED BY <1>1, <1>2, <2>1, StretchFacts
<1>4. /\ SubSeq(L, a + 1, a + k) \in Cells /\ Len(SubSeq(L, a + 1, a + k)) = k
      /\ \A i \in 1..k : SubSeq(L, a + 1, a + k)[i] = L[a + i]
  <2> DEFINE e == a + k
  <2>1. e \in 0..Len(L) /\ a <= e /\ e - a = k
    BY <1>1
  <2> HIDE DEF e
  <2>2. /\ SubSeq(L, a + 1, e) \in Cells /\ Len(SubSeq(L, a + 1, e)) = e - a
        /\ \A i \in 1..(e - a) : SubSeq(L, a + 1, e)[i] = L[a + i]
    BY <2>1, StretchFacts
  <2> QED BY <2>1, <2>2 DEF e
<1>5. ASSUME NEW i \in 1..k PROVE SubSeq(s, 1, k)[i] = SubSeq(L, a + 1, a + k)[i]
  <2>1. 0 + i = i /\ i \in 1..(b - a)
    BY <1>1
  <2> QED BY <1>2, <1>3, <1>4, <2>1
<1> QED BY <1>3, <1>4, <1>5, SameCells DEF s

\* A prefix and the stretch that follows it, written in part.
LEMMA PrefixExtends ==
  ASSUME NEW L \in Cells, NEW f \in Cells, f = SubSeq(L, 1, Len(f)), Len(f) <= Len(L),
         NEW m \in 0..Len(L), Len(f) <= m, NEW d, d = SubSeq(L, Len(f) + 1, m)
  PROVE  /\ d \in Cells /\ Len(d) = m - Len(f)
         /\ f \o d = SubSeq(L, 1, m) /\ Len(f \o d) = m
         /\ \A k \in 0..Len(d) : /\ f \o SubSeq(d, 1, k) = SubSeq(L, 1, Len(f) + k)
                                 /\ Len(f \o SubSeq(d, 1, k)) = Len(f) + k
                                 /\ Len(f) + k <= Len(L)
<1> DEFINE n == Len(f)
<1>1. n \in 0..Len(L) /\ 0 \in 0..Len(L) /\ Len(L) \in Nat /\ 0 + 1 = 1 /\ n \in Nat /\ m \in Nat
  BY CellFacts
<1>2. d \in Cells /\ Len(d) = m - n
  BY <1>1, StretchFacts
<1>3. ASSUME NEW k \in 0..(m - n)
      PROVE  /\ f \o SubSeq(d, 1, k) = SubSeq(L, 1, n + k)
             /\ Len(f \o SubSeq(d, 1, k)) = n + k /\ n + k <= Len(L)
  <2>1. n + k \in 0..Len(L) /\ n <= n + k /\ 0 <= n /\ 0 <= n + k /\ n + k - 0 = n + k
    BY <1>1
  <2>2. SubSeq(d, 1, k) = SubSeq(L, n + 1, n + k)
    BY <1>1, FirstOfStretch
  <2>3. SubSeq(L, 0 + 1, n) \o SubSeq(L, n + 1, n + k) = SubSeq(L, 0 + 1, n + k)
    BY <1>1, <2>1, Adjoin
  <2>4. Len(SubSeq(L, 0 + 1, n + k)) = n + k
    BY <1>1, <2>1, StretchFacts
  <2> QED BY <1>1, <2>1, <2>2, <2>3, <2>4
<1>4. f \o d = SubSeq(L, 1, m) /\ Len(f \o d) = m
  <2>1. 0 <= n /\ n <= m /\ 0 <= m /\ m - 0 = m
    BY <1>1
  <2>2. SubSeq(L, 0 + 1, n) \o SubSeq(L, n + 1, m) = SubSeq(L, 0 + 1, m)
    BY <1>1, <2>1, Adjoin
  <2>3. Len(SubSeq(L, 0 + 1, m)) = m - 0
    BY <1>1, <2>1, StretchFacts
  <2> QED BY <1>1, <2>1, <2>2, <2>3
<1> QED BY <1>2, <1>3, <1>4

\* Appending cells changes no earlier stretch.
LEMMA StretchKept ==
  ASSUME NEW L \in Cells, NEW s \in Cells, NEW x \in 0..Len(L), NEW y \in 0..Len(L)
  PROVE  SubSeq(L \o s, x + 1, y) = SubSeq(L, x + 1, y)
  BY DEF Cells

\* What is appended to the log lengthens its last stretch.
LEMMA LastStretch ==
  ASSUME NEW L \in Cells, NEW s \in Cells, NEW x \in 0..Len(L)
  PROVE  SubSeq(L, x + 1, Len(L)) \o s = SubSeq(L \o s, x + 1, Len(L \o s))
<1> DEFINE n == Len(L)
           m == Len(L) + Len(s)
           t == SubSeq(L, x + 1, n)
           u == SubSeq(L \o s, x + 1, m)
<1>1. n \in Nat /\ Len(s) \in Nat /\ m \in Nat /\ x \in Nat /\ x <= n /\ n <= m
        /\ L \o s \in Cells /\ Len(L \o s) = m
        /\ \A i \in 1..m : (L \o s)[i] = IF i <= n THEN L[i] ELSE s[i - n]
  <2>1. /\ L \o s \in Cells /\ Len(L) \in Nat /\ Len(s) \in Nat
        /\ Len(L \o s) = Len(L) + Len(s)
        /\ \A i \in 1..(Len(L) + Len(s)) :
              (L \o s)[i] = IF i <= Len(L) THEN L[i] ELSE s[i - Len(L)]
    BY ConcatFacts
  <2>2. n \in Nat /\ m \in Nat /\ x \in Nat /\ x <= n /\ n <= m
    BY <2>1
  <2> QED BY <2>1, <2>2
<1>2. t \in Cells /\ Len(t) = n - x /\ \A i \in 1..(n - x) : t[i] = L[x + i]
  BY <1>1, StretchFacts
<1>3. u \in Cells /\ Len(u) = m - x /\ \A i \in 1..(m - x) : u[i] = (L \o s)[x + i]
  <2>1. x \in 0..Len(L \o s) /\ m \in 0..Len(L \o s) /\ x <= m
    BY <1>1
  <2> QED BY <1>1, <2>1, StretchFacts
<1> HIDE DEF t, u
<1>4. /\ t \o s \in Cells /\ Len(t \o s) = m - x
      /\ \A i \in 1..(m - x) : (t \o s)[i] = IF i <= n - x THEN t[i] ELSE s[i - (n - x)]
  <2>1. /\ t \o s \in Cells /\ Len(t \o s) = Len(t) + Len(s)
        /\ \A i \in 1..(Len(t) + Len(s)) : (t \o s)[i] = IF i <= Len(t) THEN t[i] ELSE s[i - Len(t)]
    BY <1>2, ConcatFacts
  <2>2. Len(t) + Len(s) = m - x
    BY <1>1, <1>2
  <2> QED BY <1>2, <2>1, <2>2
<1>5. ASSUME NEW i \in 1..(m - x) PROVE (t \o s)[i] = u[i]
  <2>1. x + i \in 1..m /\ u[i] = (L \o s)[x + i]
    BY <1>1, <1>3
  <2>2. (L \o s)[x + i] = IF x + i <= n THEN L[x + i] ELSE s[(x + i) - n]
    BY <1>1, <2>1
  <2>3. CASE i <= n - x
    <3>1. x + i <= n /\ i \in 1..(n - x)
      BY <1>1, <2>3
    <3> QED BY <1>2, <1>4, <2>1, <2>2, <2>3, <3>1
  <2>4. CASE i > n - x
    <3>1. ~(x + i <= n) /\ ~(i <= n - x) /\ i - (n - x) = (x + i) - n
      BY <1>1, <2>4
    <3> QED BY <1>4, <2>1, <2>2, <3>1
  <2>5. i <= n - x \/ i > n - x
    BY <1>1
  <2> QED BY <2>3, <2>4, <2>5, Zenon
<1> QED BY <1>1, <1>3, <1>4, <1>5, SameCells DEF t, u

\* A stretch is empty just when its ends meet.
LEMMA EmptyStretch ==
  ASSUME NEW L \in Cells, NEW x \in 0..Len(L), NEW y \in 0..Len(L), x <= y
  PROVE  SubSeq(L, x + 1, y) = <<>> <=> x = y
  BY DEF Cells

\* No blocks cover an empty stretch.
LEMMA CoversEmpty ==
  ASSUME NEW L \in Cells, NEW a, NEW b
  PROVE  Covers(L, <<>>, a, b) <=> a = b /\ a \in 0..Len(L)
<1>1. ASSUME Covers(L, <<>>, a, b) PROVE a = b /\ a \in 0..Len(L)
  BY <1>1 DEF Covers
<1>2. ASSUME a = b, a \in 0..Len(L) PROVE Covers(L, <<>>, a, b)
  <2> DEFINE p == [i \in 1..1 |-> a]
  <2>1. p \in [1..(Len(<<>>) + 1) -> 0..Len(L)] /\ p[1] = a /\ p[Len(<<>>) + 1] = b
    BY <1>2
  <2>2. \A i \in 1..Len(<<>>) : FALSE
    OBVIOUS
  <2> QED BY <2>1, <2>2 DEF Covers
<1> QED BY <1>1, <1>2

\* The first block is written.
LEMMA CoversTail ==
  ASSUME NEW L \in Cells, NEW bs \in Blocks, bs # <<>>, NEW a, NEW b, Covers(L, bs, a, b)
  PROVE  \E m \in 0..Len(L) : /\ a \in 0..Len(L) /\ a <= m
                              /\ Unwritten(Head(bs)) = SubSeq(L, a + 1, m)
                              /\ Covers(L, Tail(bs), m, b)
<1>1. PICK p \in [1..(Len(bs) + 1) -> 0..Len(L)] :
        /\ p[1] = a /\ p[Len(bs) + 1] = b
        /\ \A i \in 1..Len(bs) : p[i] <= p[i + 1] /\ Unwritten(bs[i]) = SubSeq(L, p[i] + 1, p[i + 1])
  BY DEF Covers
<1>2. Len(bs) \in Nat \ {0} /\ Head(bs) = bs[1] /\ Len(Tail(bs)) = Len(bs) - 1
        /\ \A i \in 1..(Len(bs) - 1) : Tail(bs)[i] = bs[i + 1]
  BY DEF Blocks
<1> DEFINE q == [i \in 1..Len(bs) |-> p[i + 1]]
<1>3. q \in [1..(Len(Tail(bs)) + 1) -> 0..Len(L)]
  BY <1>2
<1>4. q[1] = p[2] /\ q[Len(Tail(bs)) + 1] = b
  BY <1>1, <1>2
<1>5. ASSUME NEW i \in 1..Len(Tail(bs))
      PROVE  q[i] <= q[i + 1] /\ Unwritten(Tail(bs)[i]) = SubSeq(L, q[i] + 1, q[i + 1])
  <2>1. i + 1 \in 1..Len(bs) /\ q[i] = p[i + 1] /\ q[i + 1] = p[i + 2] /\ Tail(bs)[i] = bs[i + 1]
    BY <1>2
  <2>2. (i + 1) + 1 = i + 2
    OBVIOUS
  <2> HIDE DEF q
  <2> QED BY <1>1, <2>1, <2>2
<1>6. Covers(L, Tail(bs), p[2], b)
  <2> HIDE DEF q
  <2> QED BY <1>3, <1>4, <1>5 DEF Covers
<1>7. p[2] \in 0..Len(L) /\ p[1] \in 0..Len(L) /\ 1 \in 1..Len(bs) /\ 1 + 1 = 2
  BY <1>2
<1> QED BY <1>1, <1>2, <1>6, <1>7

\* A block is queued behind the others.
LEMMA CoversAppend ==
  ASSUME NEW L \in Cells, NEW bs \in Blocks, NEW a, NEW b \in 0..Len(L), Covers(L, bs, a, b),
         NEW k \in Block, NEW c \in 0..Len(L), b <= c, Unwritten(k) = SubSeq(L, b + 1, c)
  PROVE  Covers(L, Append(bs, k), a, c)
<1>1. PICK p \in [1..(Len(bs) + 1) -> 0..Len(L)] :
        /\ p[1] = a /\ p[Len(bs) + 1] = b
        /\ \A i \in 1..Len(bs) : p[i] <= p[i + 1] /\ Unwritten(bs[i]) = SubSeq(L, p[i] + 1, p[i + 1])
  BY DEF Covers
<1>2. Len(bs) \in Nat /\ Len(Append(bs, k)) = Len(bs) + 1 /\ Append(bs, k)[Len(bs) + 1] = k
        /\ \A i \in 1..Len(bs) : Append(bs, k)[i] = bs[i]
  BY DEF Blocks
<1> DEFINE q == [i \in 1..(Len(bs) + 2) |-> IF i = Len(bs) + 2 THEN c ELSE p[i]]
<1>3. q \in [1..(Len(Append(bs, k)) + 1) -> 0..Len(L)]
  BY <1>2
<1>4. /\ q[1] = a /\ q[Len(Append(bs, k)) + 1] = c /\ q[Len(bs) + 1] = b /\ q[Len(bs) + 2] = c
      /\ \A i \in 1..(Len(bs) + 1) : q[i] = p[i]
  BY <1>1, <1>2
<1>5. ASSUME NEW i \in 1..Len(Append(bs, k))
      PROVE  q[i] <= q[i + 1] /\ Unwritten(Append(bs, k)[i]) = SubSeq(L, q[i] + 1, q[i + 1])
  <2> HIDE DEF q
  <2>1. CASE i = Len(bs) + 1
    <3>1. i + 1 = Len(bs) + 2
      BY <1>2, <2>1
    <3> QED BY <1>2, <1>4, <2>1, <3>1
  <2>2. CASE i \in 1..Len(bs)
    <3>1. q[i] = p[i] /\ q[i + 1] = p[i + 1] /\ Append(bs, k)[i] = bs[i]
      BY <1>2, <1>4, <2>2
    <3> QED BY <1>1, <2>2, <3>1
  <2> QED BY <1>2, <2>1, <2>2
<1> QED
  <2> HIDE DEF q
  <2> QED BY <1>3, <1>4, <1>5 DEF Covers

\* Appending cells to the log changes nothing about the blocks.
LEMMA CoversGrow ==
  ASSUME NEW L \in Cells, NEW s \in Cells, NEW bs \in Blocks, NEW a, NEW b, Covers(L, bs, a, b)
  PROVE  Covers(L \o s, bs, a, b)
<1>1. PICK p \in [1..(Len(bs) + 1) -> 0..Len(L)] :
        /\ p[1] = a /\ p[Len(bs) + 1] = b
        /\ \A i \in 1..Len(bs) : p[i] <= p[i + 1] /\ Unwritten(bs[i]) = SubSeq(L, p[i] + 1, p[i + 1])
  BY DEF Covers
<1>2. Len(L \o s) = Len(L) + Len(s) /\ Len(L) \in Nat /\ Len(s) \in Nat /\ Len(bs) \in Nat
  BY DEF Cells, Blocks
<1>3. p \in [1..(Len(bs) + 1) -> 0..Len(L \o s)]
  BY <1>2
<1>4. ASSUME NEW i \in 1..Len(bs)
      PROVE  SubSeq(L \o s, p[i] + 1, p[i + 1]) = SubSeq(L, p[i] + 1, p[i + 1])
  <2>1. i \in 1..(Len(bs) + 1) /\ i + 1 \in 1..(Len(bs) + 1)
    BY <1>2
  <2>2. p[i] \in 0..Len(L) /\ p[i + 1] \in 0..Len(L)
    BY <1>1, <2>1
  <2> QED BY <2>2, StretchKept
<1> QED BY <1>1, <1>3, <1>4 DEF Covers

\* The ends of a covered stretch are places of the log.
LEMMA CoversEnds ==
  ASSUME NEW L \in Cells, NEW bs \in Blocks, NEW a, NEW b, Covers(L, bs, a, b)
  PROVE  a \in 0..Len(L) /\ b \in 0..Len(L)
  BY DEF Covers, Blocks

-----------------------------------------------------------------------------
(***************************************************************************)
(* What a step does to the log and to those who wait.                      *)
(***************************************************************************)

\* Who goes on waiting keeps its slot of the ring.
LEMMA SlotsKept ==
  ASSUME IInv, Next
  PROVE  tail \in Nat /\ tail' \in Nat /\ tail <= tail'
           /\ \A i \in tail'..(head - 1) : slots'[i % Slots] = slots[i % Slots]
<1> USE DEF IInv
<1>0. tail \in Nat /\ head \in Nat
  BY DEF TypeInv
<1>1. CASE UNCHANGED <<tail, slots>>
  BY <1>0, <1>1
<1>2. ASSUME NEW c \in Clients, Push(c), ~RingFull PROVE tail' = tail
        /\ \A i \in tail..(head - 1) : slots'[i % Slots] = slots[i % Slots]
  BY <1>2, PushSlots DEF Push
<1>3. ASSUME Pop PROVE tail' = tail + 1
        /\ \A i \in (tail + 1)..(head - 1) : slots'[i % Slots] = slots[i % Slots]
  BY <1>3, PopSlots DEF Pop
<1>4. ASSUME NEW c \in Clients,
             \/ \E n \in Sizes, s \in BOOLEAN : SyncRecord(c, n, s)
             \/ Close(c) \/ EmitFragment(c) \/ QueueBlock(c) \/ SwapBlock(c) \/ (Push(c) /\ RingFull)
             \/ SignalFlusher(c) \/ Return(c) \/ Synced(c) \/ CloseFlag(c) \/ CloseSync(c)
      PROVE  UNCHANGED <<tail, slots>>
  BY <1>4 DEF SyncRecord, Close, EmitFragment, QueueBlock, SwapBlock, Push, SignalFlusher, Return,
              Synced, CloseFlag, CloseSync, queueVars
<1>5. ASSUME \/ Check \/ WaitAdd \/ WaitUnlock \/ Woken \/ Take \/ Data \/ FlushBlock \/ FlushData
             \/ SyncFile \/ Done \/ PopEnd \/ Relock \/ TimerFires \/ TimerSignals
      PROVE  UNCHANGED <<tail, slots>>
  BY <1>5 DEF Check, WaitAdd, WaitUnlock, Woken, Take, Data, FlushBlock, FlushData, SyncFile, Done,
              PopEnd, Relock, TimerFires, TimerSignals, LoopOnly, queueVars
<1>6. CASE \E c \in Clients : Push(c) /\ ~RingFull
  BY <1>0, <1>2, <1>6
<1>7. CASE Pop
  BY <1>0, <1>3, <1>7
<1> QED BY <1>1, <1>4, <1>5, <1>6, <1>7 DEF Next, Writing, FlushLoop

\* The log only grows, and not by cells of a record that waits for its sync.
LEMMA LogGrows ==
  ASSUME IInv, Next
  PROVE  \E s \in Cells : /\ hist'.log = hist.log \o s
                          /\ \A d \in Clients : pc[d] \in Waiting =>
                               \A i \in 1..Len(s) : s[i] # rec[d].id
<1> USE DEF IInv
<1>0. hist.log \in Cells
  BY DEF TypeInv, Histories
<1>1. ASSUME hist'.log = hist.log
      PROVE  \E s \in Cells : /\ hist'.log = hist.log \o s
                              /\ \A d \in Clients : pc[d] \in Waiting =>
                                   \A i \in 1..Len(s) : s[i] # rec[d].id
  <2>1. hist.log \o <<>> = hist.log
    BY <1>0 DEF Cells
  <2>2. <<>> \in Cells /\ \A i \in 1..Len(<<>>) : FALSE
    BY <1>0, CellFacts
  <2> QED BY <1>1, <2>1, <2>2
<1>2. ASSUME NEW c \in Clients, EmitFragment(c)
      PROVE  /\ hist'.log = hist.log \o Fragment(c) /\ Fragment(c) \in Cells
             /\ \A d \in Clients : pc[d] \in Waiting =>
                  \A i \in 1..Len(Fragment(c)) : Fragment(c)[i] # rec[d].id
  <2>1. hist'.log = hist.log \o Fragment(c) /\ Fragment(c) \in Cells
    BY <1>2, FragmentFacts DEF TypeInv, Histories
  <2>2. \A i \in 1..Len(Fragment(c)) : Fragment(c)[i] = rec[c].id
    BY <1>2, FragmentFacts
  <2>3. \A d \in Clients : pc[d] \in Waiting => rec[d].id # rec[c].id
    BY <1>2, EmitMoves DEF IdInv, Active, Waiting
  <2> QED BY <2>1, <2>2, <2>3
<1>3. ASSUME NEW c \in Clients, Close(c)
      PROVE  \E s \in Cells : /\ hist'.log = hist.log \o s
                              /\ \A d \in Clients : pc[d] \in Waiting =>
                                   \A i \in 1..Len(s) : s[i] # rec[d].id
  <2>1. hist'.log = hist.log \o <<0>>
    <3>1. \A l \in Seq(Nat) : Append(l, 0) = l \o <<0>>
      OBVIOUS
    <3> QED BY <1>0, <1>3, <3>1, CloseLog DEF Cells
  <2>2. <<0>> \in Cells /\ Len(<<0>>) = 1 /\ \A i \in 1..Len(<<0>>) : <<0>>[i] = 0
    BY DEF Cells
  <2>3. \A d \in Clients : pc[d] \in Waiting => rec[d].id # 0
    BY DEF IdInv, Active, Waiting
  <2> QED BY <2>1, <2>2, <2>3
<1>4. ASSUME NEW c \in Clients,
             \/ \E n \in Sizes, s \in BOOLEAN : SyncRecord(c, n, s)
             \/ QueueBlock(c) \/ SwapBlock(c) \/ Push(c) \/ SignalFlusher(c) \/ Return(c)
             \/ CloseFlag(c)
      PROVE  hist'.log = hist.log
  BY <1>4 DEF TypeInv, Histories, SyncRecord, QueueBlock, SwapBlock, Push, SignalFlusher, Return,
              CloseFlag
<1>5. ASSUME NEW c \in Clients, Synced(c) \/ CloseSync(c) PROVE hist'.log = hist.log
  BY <1>5, SyncedFrame, CloseSyncFrame
<1>6. ASSUME LoopStep PROVE hist'.log = hist.log
  BY <1>6, LoopFrame
<1>7. CASE \E c \in Clients : EmitFragment(c)
  BY <1>2, <1>7
<1>8. CASE \E c \in Clients : Close(c)
  BY <1>3, <1>8
<1>9. hist'.log = hist.log \/ (\E c \in Clients : EmitFragment(c)) \/ (\E c \in Clients : Close(c))
  BY <1>4, <1>5, <1>6 DEF Next, Writing, LoopStep
<1> QED BY <1>1, <1>7, <1>8, <1>9

\* Who waits keeps its record.
LEMMA RecordKept ==
  ASSUME IInv, Next, NEW d \in Clients, pc[d] \in Waiting, pc'[d] \in Waiting
  PROVE  rec'[d].id = rec[d].id
<1> USE DEF IInv, Waiting
<1>1. ASSUME NEW c \in Clients, NEW n \in Sizes, NEW s \in BOOLEAN, SyncRecord(c, n, s)
      PROVE  rec'[d] = rec[d]
  BY <1>1 DEF TypeInv, SyncRecord
<1>2. ASSUME NEW c \in Clients, EmitFragment(c) PROVE rec'[d].id = rec[d].id
  BY <1>2, EmitMoves
<1>3. ASSUME NEW c \in Clients, Return(c) \/ Synced(c) PROVE rec'[d] = rec[d]
  BY <1>3 DEF TypeInv, Return, Synced
<1>4. ASSUME NEW c \in Clients, \/ QueueBlock(c) \/ SwapBlock(c) \/ Push(c) \/ SignalFlusher(c)
                                \/ Close(c) \/ CloseFlag(c) \/ CloseSync(c)
      PROVE  rec' = rec
  BY <1>4 DEF QueueBlock, SwapBlock, Push, SignalFlusher, Close, CloseFlag, CloseSync
<1>5. ASSUME LoopStep PROVE rec' = rec
  BY <1>5, LoopFrame
<1> QED BY <1>1, <1>2, <1>3, <1>4, <1>5 DEF Next, Writing, LoopStep

\* A record stays within the cells it was within.
LEMMA WithinGrows ==
  ASSUME NEW L \in Cells, NEW s \in Cells, NEW r, NEW n \in Nat, NEW m \in Nat, n <= m,
         Within(L, r, n), \A i \in 1..Len(s) : s[i] # r
  PROVE  Within(L \o s, r, m)
<1> SUFFICES ASSUME NEW j \in 1..Len(L \o s), (L \o s)[j] = r PROVE j <= m
  BY DEF Within
<1>1. /\ Len(L \o s) = Len(L) + Len(s) /\ Len(L) \in Nat /\ Len(s) \in Nat
      /\ (L \o s)[j] = IF j <= Len(L) THEN L[j] ELSE s[j - Len(L)]
  BY ConcatFacts
<1>2. CASE j <= Len(L)
  BY <1>1, <1>2 DEF Within
<1>3. CASE j > Len(L)
  <2>1. j - Len(L) \in 1..Len(s) /\ ~(j <= Len(L))
    BY <1>1, <1>3
  <2> QED BY <1>1, <2>1
<1> QED BY <1>1, <1>2, <1>3

\* Whoever goes on waiting has no new cells written for its record.
LEMMA WithinStep ==
  ASSUME IInv, Next, NEW d \in Clients, pc[d] \in Waiting, pc'[d] \in Waiting,
         NEW n \in Nat, NEW m \in Nat, n <= m, Within(hist.log, rec[d].id, n)
  PROVE  Within(hist'.log, rec'[d].id, m)
<1>1. PICK s \in Cells : /\ hist'.log = hist.log \o s
                         /\ \A i \in 1..Len(s) : s[i] # rec[d].id
  BY LogGrows
<1>2. hist.log \in Cells
  BY DEF IInv, TypeInv, Histories
<1>3. rec'[d].id = rec[d].id
  BY RecordKept
<1>4. Within(hist.log \o s, rec[d].id, m)
  BY <1>1, <1>2, WithinGrows
<1> QED BY <1>1, <1>3, <1>4

\* So do the records the loop is about to answer.
LEMMA BatchStep ==
  ASSUME IInv, Next, NEW n \in Nat, NEW m \in Nat, n <= m, BatchWithin(n),
         loop'.head = loop.head, loop'.tail = loop.tail \/ loop'.tail = loop.tail + 1
  PROVE  \A i \in loop'.tail..(loop'.head - 1) : Within(hist'.log, rec'[slots'[i % Slots]].id, m)
<1> SUFFICES ASSUME NEW i \in loop'.tail..(loop'.head - 1)
             PROVE  Within(hist'.log, rec'[slots'[i % Slots]].id, m)
  OBVIOUS
<1>1. RingInv /\ RingInv' /\ TypeInv /\ TypeInv'
  BY RingStep, TypeStep DEF IInv
<1>2. loop.head \in Nat /\ loop.tail \in Nat /\ head \in Nat /\ tail \in Nat /\ head' \in Nat
        /\ tail' \in Nat
  BY <1>1 DEF TypeInv, Loops
<1>3. loop.tail # loop.head /\ loop'.tail # loop'.head
  BY <1>2
<1>4. loop.tail = tail /\ loop.head <= head /\ loop'.tail = tail' /\ loop'.head <= head'
  BY <1>1, <1>3 DEF RingInv
<1>5. i \in tail..(head - 1) /\ i \in tail'..(head' - 1) /\ i \in tail'..(head - 1)
        /\ i \in loop.tail..(loop.head - 1)
  <2>1. i \in Int /\ tail' <= i /\ i <= loop.head - 1 /\ tail <= tail'
    BY <1>2, <1>4, SlotsKept
  <2>2. \A h \in Nat : loop.head <= h => i < h
    BY <1>2, <2>1
  <2>3. i < head /\ i < head' /\ i < loop.head /\ tail <= i /\ loop.tail <= i
    <3>1. i < head /\ i < loop.head /\ tail <= i
      BY <1>2, <1>4, <2>1, <2>2
    <3>2. i < head'
      BY <1>2, <1>4, <2>2, Zenon
    <3> QED BY <1>4, <3>1, <3>2
  <2>4. \A j, x, y \in Int : x <= j /\ j < y => j \in x..(y - 1)
    OBVIOUS
  <2>5. head \in Int /\ head' \in Int /\ loop.head \in Int /\ tail \in Int /\ loop.tail \in Int
          /\ tail' \in Int
    BY <1>2
  <2> QED BY <2>1, <2>3, <2>4, <2>5, Zenon
<1>6. slots'[i % Slots] = slots[i % Slots]
  BY <1>5, SlotsKept
<1>7. slots[i % Slots] \in Clients /\ pc[slots[i % Slots]] \in Waiting
  BY <1>1, <1>5 DEF RingInv
<1>8. pc'[slots'[i % Slots]] \in Waiting
  BY <1>1, <1>5 DEF RingInv
<1>9. Within(hist.log, rec[slots[i % Slots]].id, n)
  BY <1>5 DEF BatchWithin
<1> QED BY <1>6, <1>7, <1>8, <1>9, WithinStep

-----------------------------------------------------------------------------
(***************************************************************************)
(* Where the cells are.                                                    *)
(***************************************************************************)

\* A step that moves no cell: a client's, or one of the loop outside its writing.
LEMMA SplitFrame ==
  ASSUME IInv, Next, UNCHANGED <<pending, file, block>>, hist'.log = hist.log,
         ~(fErr' \/ loop'.err) => ~(fErr \/ loop.err) /\ loop'.pending = loop.pending,
         \/ loop.pc # "blocks" /\ loop'.pc # "blocks"
         \/ loop'.pc = loop.pc /\ loop'.data = loop.data
              /\ loop'.head = loop.head /\ loop'.tail = loop.tail
  PROVE  SplitInv'
<1> SUFFICES ASSUME ~(fErr' \/ loop'.err)
             PROVE  \E x, y, z \in 0..Len(hist'.log) : Split(x, y, z)'
  BY DEF SplitInv
<1>1. PICK x \in 0..Len(hist.log), y \in 0..Len(hist.log), z \in 0..Len(hist.log) : Split(x, y, z)
  BY DEF IInv, SplitInv
<1>2. y \in Nat
  BY CellFacts DEF IInv, TypeInv, Histories
<1>3. InHand' = InHand
  BY DEF InHand
<1>4. ASSUME loop'.pc = "blocks" PROVE BatchWithin(y)'
  BY <1>1, <1>2, <1>4, BatchStep DEF Split, BatchWithin
<1>5. Split(x, y, z)'
  BY <1>1, <1>3, <1>4 DEF Split
<1> QED BY <1>1, <1>5

\* Cells are appended to the log and to the current block.
LEMMA UnwrittenGrows ==
  ASSUME NEW b \in Block, NEW s \in Cells, b.flushed <= Len(b.data)
  PROVE  LET e == [b EXCEPT !.data = @ \o s] IN
         /\ Unwritten(e) = Unwritten(b) \o s /\ e.flushed <= Len(e.data)
<1>1. b.data \in Cells /\ b.flushed \in Nat /\ Len(b.data) \in Nat
  BY CellFacts DEF Block
<1>2. [b EXCEPT !.data = @ \o s].flushed = b.flushed /\ [b EXCEPT !.data = @ \o s].data = b.data \o s
  BY DEF Block
<1>3. b.flushed \in 0..Len(b.data)
  BY <1>1
<1>4. SubSeq(b.data, b.flushed + 1, Len(b.data)) \o s
        = SubSeq(b.data \o s, b.flushed + 1, Len(b.data \o s))
  BY <1>1, <1>3, LastStretch
<1>5. Len(b.data \o s) = Len(b.data) + Len(s) /\ Len(s) \in Nat
  BY <1>1, ConcatFacts
<1>6. b.flushed <= Len(b.data \o s)
  BY <1>1, <1>3, <1>5
<1> DEFINE e == [b EXCEPT !.data = @ \o s]
<1>7. e.flushed = b.flushed /\ e.data = b.data \o s
  BY <1>2
<1> HIDE DEF e
<1>8. Unwritten(e) = Unwritten(b) \o s /\ e.flushed <= Len(e.data)
  BY <1>4, <1>6, <1>7 DEF Unwritten
<1> QED BY <1>8 DEF e

\* A fragment in the current block keeps the split of the log and the file.
LEMMA ContentGrows ==
  ASSUME IInv, Next, NEW s \in Cells, hist'.log = hist.log \o s,
         block' = [block EXCEPT !.data = @ \o s], SameLoop, UNCHANGED <<fErr, pending, file, durable>>
  PROVE  SplitInv' /\ FileInv'
<1> DEFINE L == hist.log
<1>1. L \in Cells /\ file \in Cells /\ pending \in Blocks /\ loop.pending \in Blocks /\ block \in Block
        /\ Len(L) \in Nat /\ Len(s) \in Nat /\ Len(L \o s) = Len(L) + Len(s) /\ Len(file) \in Nat
        /\ block.flushed <= Len(block.data)
  <2>1. L \in Cells /\ file \in Cells /\ pending \in Blocks /\ loop.pending \in Blocks /\ block \in Block
          /\ block.flushed <= Len(block.data)
    BY DEF IInv, TypeInv, Histories, Loops, FileInv
  <2> QED BY <2>1, ConcatFacts
<1>2. Unwritten(block') = Unwritten(block) \o s /\ block'.flushed <= Len(block'.data)
  BY <1>1, UnwrittenGrows
<1>3. FileInv'
  <2>1. Len(file) <= Len(L) /\ file = SubSeq(L, 1, Len(file)) /\ durable <= Len(file)
    BY DEF IInv, FileInv
  <2>2. SubSeq(L \o s, 0 + 1, Len(file)) = SubSeq(L, 0 + 1, Len(file))
    <3>1. 0 \in 0..Len(L) /\ Len(file) \in 0..Len(L)
      BY <1>1, <2>1
    <3> QED BY <1>1, <3>1, StretchKept
  <2>3. Len(file) <= Len(L \o s) /\ 0 + 1 = 1
    BY <1>1, <2>1
  <2> HIDE DEF L
  <2>4. hist'.log = L \o s
    BY DEF L
  <2> QED BY <1>2, <2>1, <2>2, <2>3, <2>4 DEF FileInv
<1>4. SplitInv'
  <2> SUFFICES ASSUME ~(fErr' \/ loop'.err)
               PROVE  \E x, y, z \in 0..Len(hist'.log) : Split(x, y, z)'
    BY DEF SplitInv
  <2>1. PICK x \in 0..Len(L), y \in 0..Len(L), z \in 0..Len(L) : Split(x, y, z)
    BY DEF IInv, SplitInv, SameLoop
  <2>2. x \in 0..Len(hist'.log) /\ y \in 0..Len(hist'.log) /\ z \in 0..Len(hist'.log)
          /\ x \in Nat /\ y \in Nat
    BY <1>1
  <2>3. Covers(hist'.log, loop'.pending, Len(file'), x) /\ Covers(hist'.log, pending', y, z)
    BY <1>1, <2>1, CoversGrow DEF Split, SameLoop
  <2>4. InHand' = SubSeq(hist'.log, x + 1, y)
    BY <1>1, <2>1, StretchKept DEF Split, SameLoop, InHand
  <2>5. Unwritten(block') = SubSeq(hist'.log, z + 1, Len(hist'.log))
    BY <1>1, <1>2, <2>1, LastStretch DEF Split
  <2>6. ASSUME loop'.pc = "blocks" PROVE BatchWithin(y)'
    <3>1. BatchWithin(y) /\ loop'.head = loop.head /\ loop'.tail = loop.tail /\ y <= y
      BY <2>1, <2>2, <2>6 DEF Split, SameLoop
    <3>2. \A i \in loop'.tail..(loop'.head - 1) : Within(hist'.log, rec'[slots'[i % Slots]].id, y)
      BY <2>2, <3>1, BatchStep
    <3> QED BY <3>2 DEF BatchWithin
  <2>7. Split(x, y, z)'
    BY <2>1, <2>3, <2>4, <2>5, <2>6 DEF Split
  <2> QED BY <2>2, <2>7
<1> QED BY <1>3, <1>4

\* A full block is queued (queueBlock).
LEMMA SwapContent ==
  ASSUME IInv, Next, NEW c \in Clients, SwapBlock(c)
  PROVE  SplitInv' /\ FileInv'
<1> DEFINE L == hist.log
<1>1. /\ pending' = Append(pending, block) /\ block' = NewBlock
      /\ UNCHANGED <<fErr, file, durable, hist>> /\ SameLoop
  BY SignalledFrame DEF SwapBlock, SameLoop, IInv, TypeInv
<1>2. L \in Cells /\ pending \in Blocks /\ block \in Block /\ Len(L) \in Nat
  BY CellFacts DEF IInv, TypeInv, Histories
<1>3. Unwritten(NewBlock) = <<>> /\ NewBlock.flushed <= Len(NewBlock.data)
  BY DEF Unwritten, NewBlock
<1>4. FileInv'
  BY <1>1, <1>3 DEF IInv, FileInv
<1>5. SplitInv'
  <2> SUFFICES ASSUME ~(fErr' \/ loop'.err)
               PROVE  \E x, y, z \in 0..Len(hist'.log) : Split(x, y, z)'
    BY DEF SplitInv
  <2>1. PICK x \in 0..Len(L), y \in 0..Len(L), z \in 0..Len(L) : Split(x, y, z)
    BY <1>1 DEF IInv, SplitInv, SameLoop
  <2>2. y \in Nat /\ Len(L) \in 0..Len(L) /\ y <= Len(L) /\ z <= Len(L) /\ Len(L) <= Len(L)
    BY <1>2
  <2>3. Covers(L, Append(pending, block), y, Len(L))
    BY <1>2, <2>1, <2>2, CoversAppend DEF Split
  <2>4. Unwritten(block') = SubSeq(L, Len(L) + 1, Len(L))
    <3>1. SubSeq(L, Len(L) + 1, Len(L)) = <<>>
      BY <1>2, <2>2, EmptyStretch
    <3> QED BY <1>1, <1>3, <3>1
  <2>5. ASSUME loop'.pc = "blocks" PROVE BatchWithin(y)'
    BY <1>1, <2>1, <2>2, <2>5, BatchStep DEF Split, BatchWithin, SameLoop
  <2>6. InHand' = SubSeq(L, x + 1, y)
    BY <1>1, <2>1 DEF Split, InHand, SameLoop
  <2>7. Split(x, y, Len(L))'
    BY <1>1, <2>1, <2>2, <2>3, <2>4, <2>5, <2>6 DEF Split, SameLoop
  <2> QED BY <1>1, <2>2, <2>7
<1> QED BY <1>4, <1>5

\* The loop takes the pending blocks.
LEMMA TakeContent == ASSUME IInv, Next, Take PROVE SplitInv' /\ FileInv'
<1> DEFINE L == hist.log
<1>1. /\ loop.pc = "take" /\ loop'.pc = "data" /\ loop'.pending = pending /\ loop'.err = loop.err
      /\ pending' = <<>> /\ UNCHANGED <<fErr, file, block, durable, hist>>
  BY DEF Take, IInv, TypeInv, Loops
<1>2. L \in Cells /\ pending \in Blocks /\ Len(L) \in Nat
  BY CellFacts DEF IInv, TypeInv, Histories
<1>3. FileInv'
  BY <1>1 DEF IInv, FileInv
<1>4. SplitInv'
  <2> SUFFICES ASSUME ~(fErr' \/ loop'.err)
               PROVE  \E x, y, z \in 0..Len(hist'.log) : Split(x, y, z)'
    BY DEF SplitInv
  <2>1. PICK x \in 0..Len(L), y \in 0..Len(L), z \in 0..Len(L) : Split(x, y, z)
    BY <1>1 DEF IInv, SplitInv
  <2>2. x = Len(file)
    BY <1>1, <1>2, <2>1, CoversEmpty DEF Split, IInv, LoopInv, Before
  <2>3. x = y
    BY <1>1, <1>2, <2>1, EmptyStretch DEF Split, InHand
  <2>4. Covers(L, pending, Len(file), z)
    BY <2>1, <2>2, <2>3 DEF Split
  <2>5. Covers(L, <<>>, z, z)
    BY <1>2, CoversEmpty
  <2>6. <<>> = SubSeq(L, z + 1, z) /\ z <= z
    BY <1>2, EmptyStretch
  <2>7. Split(z, z, z)'
    BY <1>1, <2>1, <2>4, <2>5, <2>6 DEF Split, InHand
  <2> QED BY <1>1, <2>7
<1> QED BY <1>3, <1>4

\* And the buffered data after them.
LEMMA DataContent == ASSUME IInv, Next, Data PROVE SplitInv' /\ FileInv'
<1> DEFINE L == hist.log
<1>1. /\ loop.pc = "data" /\ loop'.pc = (IF fErr THEN "pop" ELSE "blocks")
      /\ loop'.pending = loop.pending /\ loop'.data = Unwritten(block) /\ loop'.err = fErr
      /\ UNCHANGED <<pending, fErr, file, durable, hist>>
  BY DEF Data, IInv, TypeInv, Loops
<1>2. L \in Cells /\ pending \in Blocks /\ Len(L) \in Nat /\ block \in Block /\ Len(block.data) \in Nat
        /\ block.data \in Cells /\ block'.data = block.data /\ block'.flushed = Len(block.data)
  BY CellFacts DEF IInv, TypeInv, Histories, Block, Data
<1>3. FileInv'
  BY <1>1, <1>2 DEF IInv, FileInv
<1>4. SplitInv'
  <2> SUFFICES ASSUME ~(fErr' \/ loop'.err)
               PROVE  \E x, y, z \in 0..Len(hist'.log) : Split(x, y, z)'
    BY DEF SplitInv
  <2>0. ~fErr /\ ~loop.err /\ pending = <<>>
    BY <1>1 DEF IInv, LoopInv
  <2>1. PICK x \in 0..Len(L), y \in 0..Len(L), z \in 0..Len(L) : Split(x, y, z)
    BY <2>0 DEF IInv, SplitInv
  <2>2. x = y
    BY <1>1, <1>2, <2>1, EmptyStretch DEF Split, InHand
  <2>3. y = z
    BY <1>2, <2>0, <2>1, CoversEmpty DEF Split
  <2>4. Len(L) \in 0..Len(L) /\ x <= Len(L) /\ Len(L) <= Len(L)
    BY <1>2
  <2>5. Covers(L, <<>>, Len(L), Len(L))
    BY <1>2, <2>4, CoversEmpty
  <2>6. Unwritten(block') = SubSeq(L, Len(L) + 1, Len(L))
    <3>1. SubSeq(L, Len(L) + 1, Len(L)) = <<>>
      BY <1>2, <2>4, EmptyStretch
    <3>2. SubSeq(block.data, Len(block.data) + 1, Len(block.data)) = <<>>
      <4>1. Len(block.data) \in 0..Len(block.data) /\ Len(block.data) <= Len(block.data)
        BY <1>2
      <4> QED BY <1>2, <4>1, EmptyStretch
    <3> QED BY <1>2, <3>1, <3>2 DEF Unwritten
  <2>7. InHand' = SubSeq(L, x + 1, Len(L))
    BY <1>1, <2>0, <2>1, <2>2, <2>3 DEF Split, InHand
  <2>8. BatchWithin(Len(L))'
    BY <1>1, <1>2 DEF BatchWithin, Within
  <2>9. Split(x, Len(L), Len(L))'
    BY <1>1, <2>0, <2>1, <2>4, <2>5, <2>6, <2>7, <2>8 DEF Split
  <2> QED BY <1>1, <2>4, <2>9
<1> QED BY <1>3, <1>4

\* flushBlock: a pending block reaches the file, whole or, with an error, in part.
LEMMA BlockContent == ASSUME IInv, Next, FlushBlock PROVE SplitInv' /\ FileInv'
<1> DEFINE L == hist.log
           d == Unwritten(Head(loop.pending))
<1>1. loop.pc = "blocks" /\ loop.pending # <<>> /\ ~fErr /\ ~loop.err
        /\ UNCHANGED <<block, pending, fErr, durable>> /\ hist'.log = L
  BY LoopFrame DEF FlushBlock, IInv, LoopInv, LoopStep, FlushLoop
<1>2. L \in Cells /\ file \in Cells /\ loop.pending \in Blocks /\ Len(L) \in Nat /\ Len(file) \in Nat
  BY CellFacts DEF IInv, TypeInv, Histories, Loops
<1>3. /\ Len(file) <= Len(L) /\ file = SubSeq(L, 1, Len(file)) /\ durable <= Len(file)
      /\ block.flushed <= Len(block.data) /\ durable \in Nat
  BY DEF IInv, FileInv, TypeInv
<1>4. PICK x \in 0..Len(L), y \in 0..Len(L), z \in 0..Len(L) : Split(x, y, z)
  BY <1>1 DEF IInv, SplitInv
<1>5. PICK m \in 0..Len(L) : /\ Len(file) <= m /\ d = SubSeq(L, Len(file) + 1, m)
                             /\ Covers(L, Tail(loop.pending), m, x)
  BY <1>1, <1>2, <1>4, CoversTail DEF Split
<1> HIDE DEF d
<1>6. /\ d \in Cells /\ Len(d) = m - Len(file)
      /\ file \o d = SubSeq(L, 1, m) /\ Len(file \o d) = m
      /\ \A k \in 0..Len(d) : /\ file \o SubSeq(d, 1, k) = SubSeq(L, 1, Len(file) + k)
                              /\ Len(file \o SubSeq(d, 1, k)) = Len(file) + k
                              /\ Len(file) + k <= Len(L)
  <2>1. m \in 0..Len(L) /\ Len(file) <= m /\ d = SubSeq(L, Len(file) + 1, m)
    BY <1>5
  <2> HIDE DEF L
  <2>2. L \in Cells /\ file \in Cells /\ file = SubSeq(L, 1, Len(file)) /\ Len(file) <= Len(L)
    BY <1>2, <1>3
  <2> DEFINE e == SubSeq(L, Len(file) + 1, m)
  <2>3. /\ e \in Cells /\ Len(e) = m - Len(file)
        /\ file \o e = SubSeq(L, 1, m) /\ Len(file \o e) = m
        /\ \A k \in 0..Len(e) : /\ file \o SubSeq(e, 1, k) = SubSeq(L, 1, Len(file) + k)
                                /\ Len(file \o SubSeq(e, 1, k)) = Len(file) + k
                                /\ Len(file) + k <= Len(L)
    BY <2>1, <2>2, PrefixExtends
  <2>4. d = e
    BY <2>1
  <2> HIDE DEF e
  <2> QED BY <2>3, <2>4
<1>7. CASE /\ file' = file \o d /\ loop' = [loop EXCEPT !.pending = Tail(@)]
  <2>1. /\ loop'.pending = Tail(loop.pending) /\ loop'.pc = loop.pc /\ loop'.data = loop.data
        /\ loop'.head = loop.head /\ loop'.tail = loop.tail /\ loop'.err = loop.err
    BY <1>7 DEF IInv, TypeInv, Loops
  <2>2. FileInv'
    <3>1. durable <= m /\ m <= Len(L)
      BY <1>2, <1>3, <1>5
    <3> QED BY <1>1, <1>3, <1>6, <1>7, <3>1 DEF FileInv
  <2>3. SplitInv'
    <3>1. y \in Nat /\ y <= y
      BY <1>2
    <3>2. BatchWithin(y)'
      <4>1. BatchWithin(y)
        BY <1>1, <1>4 DEF Split
      <4>2. \A i \in loop'.tail..(loop'.head - 1) : Within(hist'.log, rec'[slots'[i % Slots]].id, y)
        BY <2>1, <3>1, <4>1, BatchStep
      <4> QED BY <4>2 DEF BatchWithin
    <3>3. Covers(L, loop'.pending, Len(file'), x)
      BY <1>5, <1>6, <1>7, <2>1
    <3>4. InHand' = InHand
      BY <2>1 DEF InHand
    <3>5. Split(x, y, z)'
      BY <1>1, <1>4, <3>2, <3>3, <3>4 DEF Split
    <3> QED BY <1>1, <3>5 DEF SplitInv
  <2> QED BY <2>2, <2>3
<1>8. CASE WriteFails(d) /\ loop' = [loop EXCEPT !.pc = "sync", !.err = TRUE]
  <2>1. loop'.err
    BY <1>8 DEF IInv, TypeInv, Loops
  <2>2. PICK k \in 0..Len(d) : file' = file \o SubSeq(d, 1, k)
    BY <1>8 DEF WriteFails
  <2>3. FileInv'
    <3>1. durable <= Len(file) + k
      <4>1. k \in Nat
        BY <1>2, <1>5, <1>6
      <4> HIDE DEF L
      <4> QED BY <1>2, <1>3, <4>1
    <3> QED BY <1>1, <1>3, <1>6, <2>2, <3>1 DEF FileInv
  <2> QED BY <2>1, <2>3 DEF SplitInv
<1> QED BY <1>7, <1>8 DEF FlushBlock, d

\* The write of the buffered data, whole or in part.
LEMMA BufferContent ==
  ASSUME IInv, Next, FlushData
  PROVE  SplitInv' /\ FileInv' /\ (~loop'.err => BatchWithin(Len(file))')
<1> DEFINE L == hist.log
<1>1. loop.pc = "blocks" /\ loop.pending = <<>> /\ ~fErr /\ ~loop.err
        /\ UNCHANGED <<block, pending, fErr, durable>> /\ hist'.log = L
  BY LoopFrame DEF FlushData, IInv, LoopInv, LoopStep, FlushLoop
<1>2. L \in Cells /\ file \in Cells /\ Len(L) \in Nat /\ Len(file) \in Nat
  BY CellFacts DEF IInv, TypeInv, Histories, Loops
<1>3. /\ Len(file) <= Len(L) /\ file = SubSeq(L, 1, Len(file)) /\ durable <= Len(file)
      /\ block.flushed <= Len(block.data) /\ durable \in Nat
  BY DEF IInv, FileInv, TypeInv
<1>4. PICK x \in 0..Len(L), y \in 0..Len(L), z \in 0..Len(L) : Split(x, y, z)
  BY <1>1 DEF IInv, SplitInv
<1>5. x = Len(file) /\ loop.data = SubSeq(L, Len(file) + 1, y) /\ Len(file) <= y
  <2>1. x = Len(file)
    BY <1>1, <1>2, <1>4, CoversEmpty DEF Split
  <2> QED BY <1>1, <1>4, <2>1 DEF Split, InHand
<1>6. /\ loop.data \in Cells /\ Len(loop.data) = y - Len(file)
      /\ file \o loop.data = SubSeq(L, 1, y) /\ Len(file \o loop.data) = y
      /\ \A k \in 0..Len(loop.data) : /\ file \o SubSeq(loop.data, 1, k) = SubSeq(L, 1, Len(file) + k)
                                      /\ Len(file \o SubSeq(loop.data, 1, k)) = Len(file) + k
                                      /\ Len(file) + k <= Len(L)
  BY <1>2, <1>3, <1>5, PrefixExtends
<1>7. CASE file' = file \o loop.data /\ loop' = [loop EXCEPT !.pc = "sync"]
  <2>1. loop'.pending = <<>> /\ loop'.pc = "sync" /\ loop'.err = loop.err
    BY <1>1, <1>7 DEF IInv, TypeInv, Loops
  <2>2. FileInv'
    <3>1. durable <= y /\ y <= Len(L)
      BY <1>2, <1>3, <1>5
    <3> QED BY <1>1, <1>3, <1>6, <1>7, <3>1 DEF FileInv
  <2>3. SplitInv'
    <3>1. Covers(L, <<>>, Len(file'), y)
      BY <1>2, <1>6, <1>7, CoversEmpty
    <3>2. <<>> = SubSeq(L, y + 1, y) /\ y <= y
      BY <1>2, EmptyStretch
    <3>3. Split(y, y, z)'
      BY <1>1, <1>4, <2>1, <3>1, <3>2 DEF Split, InHand
    <3> QED BY <1>1, <3>3 DEF SplitInv
  <2>4. BatchWithin(Len(file))'
    <3>1. BatchWithin(y) /\ y \in Nat /\ y <= y
      BY <1>1, <1>2, <1>4 DEF Split
    <3>2. loop'.head = loop.head /\ loop'.tail = loop.tail
      BY <1>7 DEF IInv, TypeInv, Loops
    <3>3. \A i \in loop'.tail..(loop'.head - 1) : Within(hist'.log, rec'[slots'[i % Slots]].id, y)
      BY <3>1, <3>2, BatchStep
    <3>4. Len(file') = y
      BY <1>6, <1>7
    <3> QED BY <3>3, <3>4 DEF BatchWithin
  <2> QED BY <2>2, <2>3, <2>4
<1>8. CASE WriteFails(loop.data) /\ loop' = [loop EXCEPT !.pc = "sync", !.err = TRUE]
  <2>1. loop'.err
    BY <1>8 DEF IInv, TypeInv, Loops
  <2>2. PICK k \in 0..Len(loop.data) : file' = file \o SubSeq(loop.data, 1, k)
    BY <1>8 DEF WriteFails
  <2>3. FileInv'
    <3>1. durable <= Len(file) + k
      <4>1. k \in Nat
        BY <1>2, <1>5, <1>6
      <4> HIDE DEF L
      <4> QED BY <1>2, <1>3, <4>1
    <3> QED BY <1>1, <1>3, <1>6, <2>2, <3>1 DEF FileInv
  <2> QED BY <2>1, <2>3 DEF SplitInv
<1> QED BY <1>7, <1>8 DEF FlushData

\* Every step keeps the cells in order, none lost and none repeated.
LEMMA ContentStep == ASSUME IInv, Next PROVE SplitInv' /\ FileInv'
<1>1. ASSUME NEW c \in Clients,
             \/ \E n \in Sizes, s \in BOOLEAN : SyncRecord(c, n, s)
             \/ QueueBlock(c) \/ Push(c) \/ SignalFlusher(c) \/ Return(c)
             \/ Synced(c) \/ CloseFlag(c) \/ CloseSync(c)
      PROVE  SplitInv' /\ FileInv'
  <2>1. SameLoop /\ UNCHANGED <<fErr, pending, file>>
    BY <1>1, ClientFrame DEF IInv
  <2>2. block' = block
    BY <1>1 DEF SyncRecord, QueueBlock, Push, SignalFlusher, Return, Synced, CloseFlag, CloseSync
  <2>3. hist'.log = hist.log
    <3>1. CASE \/ \E n \in Sizes, s \in BOOLEAN : SyncRecord(c, n, s)
               \/ QueueBlock(c) \/ Push(c) \/ SignalFlusher(c) \/ Return(c) \/ CloseFlag(c)
      BY <3>1 DEF IInv, TypeInv, Histories, SyncRecord, QueueBlock, Push, SignalFlusher, Return,
                  CloseFlag
    <3>2. CASE Synced(c) \/ CloseSync(c)
      BY <3>2, SyncedFrame, CloseSyncFrame DEF IInv
    <3> QED BY <1>1, <3>1, <3>2
  <2>4. durable' = durable \/ durable' = Len(file)
    BY <1>1 DEF SyncRecord, QueueBlock, Push, SignalFlusher, Return, Synced, CloseFlag, CloseSync,
                flushVars
  <2>5. SplitInv'
    BY <2>1, <2>2, <2>3, SplitFrame DEF SameLoop
  <2>6. Len(file) <= Len(file)
    BY CellFacts DEF IInv, TypeInv
  <2> QED BY <2>1, <2>2, <2>3, <2>4, <2>5, <2>6 DEF IInv, FileInv
<1>2. ASSUME NEW c \in Clients, EmitFragment(c) PROVE SplitInv' /\ FileInv'
  <2>1. /\ Fragment(c) \in Cells /\ block' = [block EXCEPT !.data = @ \o Fragment(c)]
        /\ hist'.log = hist.log \o Fragment(c)
    BY <1>2, FragmentFacts DEF IInv, TypeInv, Histories
  <2>2. SameLoop /\ UNCHANGED <<fErr, pending, file, durable>>
    BY <1>2, ClientFrame DEF IInv, EmitFragment, flushVars
  <2> QED BY <2>1, <2>2, ContentGrows
<1>3. ASSUME NEW c \in Clients, Close(c) PROVE SplitInv' /\ FileInv'
  <2>1. \A l \in Cells : Append(l, 0) = l \o <<0>>
    BY DEF Cells
  <2>2. hist'.log = hist.log \o <<0>> /\ <<0>> \in Cells
    <3>1. <<0>> \in Cells
      BY DEF Cells
    <3> QED BY <1>3, <2>1, <3>1, CloseLog DEF IInv, TypeInv, Histories
  <2>3. block' = [block EXCEPT !.data = @ \o <<0>>]
    BY <1>3, <2>1 DEF IInv, TypeInv, Block, Close
  <2>4. SameLoop /\ UNCHANGED <<fErr, pending, file, durable>>
    BY <1>3, ClientFrame DEF IInv, Close, flushVars
  <2> QED BY <2>2, <2>3, <2>4, ContentGrows
<1>4. ASSUME NEW c \in Clients, SwapBlock(c) PROVE SplitInv' /\ FileInv'
  BY <1>4, SwapContent
<1>5. CASE Take
  BY <1>5, TakeContent
<1>6. CASE Data
  BY <1>6, DataContent
<1>7. CASE FlushBlock
  BY <1>7, BlockContent
<1>8. CASE FlushData
  BY <1>8, BufferContent
<1>9. CASE \/ Check \/ WaitAdd \/ WaitUnlock \/ Woken \/ SyncFile \/ Pop \/ Done \/ PopEnd \/ Relock
           \/ TimerFires \/ TimerSignals
  <2>1. UNCHANGED <<file, block, pending>>
    BY <1>9 DEF Check, WaitAdd, WaitUnlock, Woken, SyncFile, Pop, Done, PopEnd, Relock, TimerFires,
                TimerSignals, LoopOnly
  <2>2. hist'.log = hist.log
    BY <1>9, LoopFrame DEF IInv, LoopStep, FlushLoop
  <2>3. durable' = durable \/ durable' = Len(file)
    BY <1>9 DEF Check, WaitAdd, WaitUnlock, Woken, SyncFile, Pop, Done, PopEnd, Relock, TimerFires,
                TimerSignals, LoopOnly
  <2>4. FileInv'
    <3>1. Len(file) <= Len(file)
      BY CellFacts DEF IInv, TypeInv
    <3> QED BY <2>1, <2>2, <2>3, <3>1 DEF IInv, FileInv
  <2> DEFINE Quiet == ~(fErr' \/ loop'.err) => ~(fErr \/ loop.err) /\ loop'.pending = loop.pending
  <2>5. CASE Check \/ WaitAdd \/ WaitUnlock
    <3>1. loop.pc # "blocks" /\ loop'.pc # "blocks" /\ Quiet
      BY <2>5 DEF Check, WaitAdd, WaitUnlock, LoopOnly, IInv, TypeInv, Loops
    <3> QED BY <2>1, <2>2, <2>4, <3>1, SplitFrame
  <2>6. CASE Woken
    <3>1. loop.pc # "blocks" /\ loop'.pc # "blocks" /\ Quiet
      BY <2>6 DEF Woken, Idle, LoopOnly, IInv, LoopInv, Before
    <3> QED BY <2>1, <2>2, <2>4, <3>1, SplitFrame
  <2>7. CASE SyncFile
    <3>1. loop.pc # "blocks" /\ loop'.pc # "blocks" /\ Quiet
      <4>1. /\ loop.pc = "sync" /\ loop'.pc \in {"pop", "relock"} /\ (loop.err => loop'.err)
            /\ loop'.pending = loop.pending
        BY <2>7 DEF IInv, TypeInv, SyncFile, Loops
      <4>2. fErr' = fErr
        BY <2>7 DEF SyncFile
      <4> QED BY <4>1, <4>2
    <3> QED BY <2>1, <2>2, <2>4, <3>1, SplitFrame
  <2>8. CASE Pop \/ Done
    <3>1. loop.pc # "blocks" /\ loop'.pc # "blocks" /\ Quiet
      BY <2>8 DEF Pop, Done, IInv, TypeInv, Loops
    <3> QED BY <2>1, <2>2, <2>4, <3>1, SplitFrame
  <2>9. CASE PopEnd
    <3>1. loop.pc # "blocks" /\ loop'.pc # "blocks" /\ Quiet
      BY <2>9 DEF PopEnd, Idle, LoopOnly, IInv, TypeInv, Loops
    <3> QED BY <2>1, <2>2, <2>4, <3>1, SplitFrame
  <2>10. CASE Relock
    <3>1. loop.pc # "blocks" /\ loop'.pc # "blocks" /\ Quiet
      BY <2>10 DEF Relock, Idle, IInv, LoopInv, After
    <3> QED BY <2>1, <2>2, <2>4, <3>1, SplitFrame
  <2>11. CASE TimerFires
    BY <2>1, <2>2, <2>4, <2>11, SplitFrame DEF TimerFires
  <2>12. CASE TimerSignals
    <3>1. SameLoop /\ fErr' = fErr
      BY <2>12, SignalledFrame DEF TimerSignals, IInv, TypeInv, SameLoop
    <3> QED BY <2>1, <2>2, <2>4, <3>1, SplitFrame DEF SameLoop
  <2> QED BY <1>9, <2>5, <2>6, <2>7, <2>8, <2>9, <2>10, <2>11, <2>12
<1> QED BY <1>1, <1>2, <1>3, <1>4, <1>5, <1>6, <1>7, <1>8, <1>9 DEF Next, Writing, FlushLoop

-----------------------------------------------------------------------------
(***************************************************************************)
(* Acknowledgements.                                                       *)
(***************************************************************************)

\* What is synced stays synced.
LEMMA DurableGrows ==
  ASSUME IInv, Next
  PROVE  durable \in Nat /\ durable' \in Nat /\ durable <= durable'
           /\ (durable' = durable \/ durable' = Len(file))
<1>1. ASSUME NEW c \in Clients,
             \/ \E n \in Sizes, s \in BOOLEAN : SyncRecord(c, n, s)
             \/ Close(c) \/ EmitFragment(c) \/ QueueBlock(c) \/ SwapBlock(c) \/ Push(c)
             \/ SignalFlusher(c) \/ Return(c) \/ Synced(c) \/ CloseFlag(c) \/ CloseSync(c)
      PROVE  durable' = durable \/ durable' = Len(file)
  BY <1>1 DEF SyncRecord, Close, EmitFragment, QueueBlock, SwapBlock, Push, SignalFlusher, Return,
              Synced, CloseFlag, CloseSync, flushVars
<1>2. ASSUME LoopStep PROVE durable' = durable \/ durable' = Len(file)
  BY <1>2 DEF LoopStep, FlushLoop, Check, WaitAdd, WaitUnlock, Woken, Take, Data, FlushBlock,
              FlushData, SyncFile, Pop, Done, PopEnd, Relock, TimerFires, TimerSignals, LoopOnly
<1>3. durable' = durable \/ durable' = Len(file)
  BY <1>1, <1>2 DEF Next, Writing, LoopStep
<1>4. durable \in Nat /\ Len(file) \in Nat /\ durable <= Len(file)
  BY CellFacts DEF IInv, TypeInv, FileInv
<1> QED BY <1>3, <1>4

\* Whose WaitGroup is down was told so by Done.
LEMMA WaitersStep ==
  ASSUME IInv, Next, NEW d \in Clients, pc'[d] \in Waiting, wg'[d] = 0, ~waitErr'[d],
         ~(Done /\ d = loop.cur)
  PROVE  pc[d] \in Waiting /\ wg[d] = 0 /\ ~waitErr[d]
<1> USE DEF IInv, Waiting
<1>1. ASSUME NEW c \in Clients, NEW n \in Sizes, NEW s \in BOOLEAN, SyncRecord(c, n, s)
      PROVE  pc[d] \in Waiting /\ wg[d] = 0 /\ ~waitErr[d]
  BY <1>1 DEF TypeInv, SyncRecord
<1>2. ASSUME NEW c \in Clients, EmitFragment(c)
      PROVE  pc[d] \in Waiting /\ wg[d] = 0 /\ ~waitErr[d]
  <2>1. waitErr' = waitErr
    BY <1>2 DEF EmitFragment, queueVars
  <2> QED BY <1>2, <2>1, EmitMoves DEF TypeInv
<1>3. ASSUME NEW c \in Clients, QueueBlock(c) \/ SwapBlock(c)
      PROVE  pc[d] \in Waiting /\ wg[d] = 0 /\ ~waitErr[d]
  BY <1>3 DEF TypeInv, QueueBlock, SwapBlock, AfterFragment, queueVars
<1>4. ASSUME NEW c \in Clients, Push(c)
      PROVE  pc[d] \in Waiting /\ wg[d] = 0 /\ ~waitErr[d]
  BY <1>4 DEF TypeInv, ArmedInv, Push
<1>5. ASSUME NEW c \in Clients, SignalFlusher(c) \/ Return(c)
      PROVE  pc[d] \in Waiting /\ wg[d] = 0 /\ ~waitErr[d]
  BY <1>5 DEF TypeInv, SignalFlusher, Return, queueVars
<1>6. ASSUME NEW c \in Clients, Synced(c)
      PROVE  pc[d] \in Waiting /\ wg[d] = 0 /\ ~waitErr[d]
  BY <1>6 DEF TypeInv, Synced
<1>7. ASSUME NEW c \in Clients, Close(c) \/ CloseFlag(c) \/ CloseSync(c)
      PROVE  pc[d] \in Waiting /\ wg[d] = 0 /\ ~waitErr[d]
  BY <1>7 DEF TypeInv, Close, CloseFlag, CloseSync, queueVars
<1>8. CASE Pop
  <2>1. pc' = pc /\ wg' = wg /\ waitErr' = [waitErr EXCEPT ![slots[loop.tail % Slots]] = loop.err]
    BY <1>8 DEF Pop, clientVars
  <2>2. loop.tail \in tail..(head - 1)
    BY <1>8, PopSlots DEF TypeInv, Loops
  <2>3. wg[slots[loop.tail % Slots]] = 1
    BY <2>2 DEF RingInv
  <2> QED BY <2>1, <2>3 DEF TypeInv
<1>9. CASE Done
  <2>1. wg' = [wg EXCEPT ![loop.cur] = @ - 1] /\ waitErr' = waitErr /\ pc' = pc
    BY <1>9 DEF Done, clientVars
  <2> QED BY <1>9, <2>1 DEF TypeInv
<1>10. CASE LoopStep /\ ~Done /\ ~Pop
  <2>1. pc' = pc /\ wg' = wg
    BY <1>10, LoopFrame, OnlyDone
  <2>2. waitErr' = waitErr
    BY <1>10 DEF LoopStep, FlushLoop, Check, WaitAdd, WaitUnlock, Woken, Take, Data, FlushBlock,
                 FlushData, SyncFile, PopEnd, Relock, TimerFires, TimerSignals, LoopOnly, queueVars
  <2> QED BY <2>1, <2>2
<1> QED BY <1>1, <1>2, <1>3, <1>4, <1>5, <1>6, <1>7, <1>8, <1>9, <1>10
           DEF Next, Writing, LoopStep, FlushLoop

\* Who the loop has popped goes on waiting for it.
LEMMA CurrentKept ==
  ASSUME IInv, Next, loop.pc = "done", loop'.pc = "done"
  PROVE  loop'.cur = loop.cur /\ waitErr'[loop.cur] = waitErr[loop.cur]
<1> USE DEF IInv
<1>1. loop.cur \in Clients /\ wg[loop.cur] = 1
  BY DEF RingInv
<1>2. ASSUME NEW c \in Clients,
             \/ \E n \in Sizes, s \in BOOLEAN : SyncRecord(c, n, s)
             \/ EmitFragment(c) \/ QueueBlock(c) \/ Push(c) \/ SignalFlusher(c) \/ Return(c)
             \/ Close(c) \/ CloseFlag(c) \/ CloseSync(c)
      PROVE  loop'.cur = loop.cur /\ waitErr'[loop.cur] = waitErr[loop.cur]
  <2>1. waitErr' = waitErr
    BY <1>2 DEF SyncRecord, EmitFragment, QueueBlock, Push, SignalFlusher, Return, Close, CloseFlag,
                CloseSync, queueVars
  <2> QED BY <1>2, <2>1, ClientFrame DEF SameLoop
<1>3. ASSUME NEW c \in Clients, SwapBlock(c)
      PROVE  loop'.cur = loop.cur /\ waitErr'[loop.cur] = waitErr[loop.cur]
  BY <1>3, SignalledFrame DEF TypeInv, SwapBlock, queueVars
<1>4. ASSUME NEW c \in Clients, Synced(c)
      PROVE  loop'.cur = loop.cur /\ waitErr'[loop.cur] = waitErr[loop.cur]
  <2>1. c # loop.cur
    BY <1>1, <1>4 DEF Synced
  <2> QED BY <1>1, <1>4, <2>1, ClientFrame DEF SameLoop, TypeInv, Synced
<1>5. CASE LoopStep
  <2>1. TimerFires \/ TimerSignals
    BY <1>5 DEF LoopStep, FlushLoop, Check, WaitAdd, WaitUnlock, Woken, Take, Data, FlushBlock,
                FlushData, SyncFile, Pop, Done, PopEnd, Relock, TypeInv, Loops
  <2> QED BY <2>1, SignalledFrame DEF TypeInv, TimerFires, TimerSignals, queueVars
<1> QED BY <1>2, <1>3, <1>4, <1>5 DEF Next, Writing, LoopStep

\* A step of a client or of the timer moves the loop nowhere.
LEMMA LoopAlone ==
  ASSUME IInv, Next, ~FlushLoop PROVE SameLoop /\ UNCHANGED <<fErr, file>>
<1>1. ASSUME NEW c \in Clients, SwapBlock(c) PROVE SameLoop /\ UNCHANGED <<fErr, file>>
  BY <1>1, SignalledFrame DEF IInv, TypeInv, SwapBlock, SameLoop
<1>2. CASE TimerFires
  BY <1>2 DEF TimerFires, SameLoop
<1>3. CASE TimerSignals
  BY <1>3, SignalledFrame DEF IInv, TypeInv, TimerSignals, SameLoop
<1>4. ASSUME NEW c \in Clients,
             \/ \E n \in Sizes, s \in BOOLEAN : SyncRecord(c, n, s)
             \/ EmitFragment(c) \/ QueueBlock(c) \/ Push(c) \/ SignalFlusher(c) \/ Return(c)
             \/ Synced(c) \/ Close(c) \/ CloseFlag(c) \/ CloseSync(c)
      PROVE  SameLoop /\ UNCHANGED <<fErr, file>>
  BY <1>4, ClientFrame DEF IInv
<1> QED BY <1>1, <1>2, <1>3, <1>4 DEF Next, Writing

\* Where each step takes the loop.
LEMMA LoopMoves ==
  ASSUME IInv
  PROVE  /\ Check => loop'.pc \in {"take", "add", "exit"}
         /\ WaitAdd => loop'.pc = "added"
         /\ WaitUnlock => loop'.pc = "parked"
         /\ Woken => loop'.pc = "check"
         /\ Take => loop'.pc = "data"
         /\ Data => loop'.pc = "blocks" \/ (loop'.pc = "pop" /\ loop'.err)
         /\ FlushBlock => loop'.pc = "blocks" \/ (loop'.pc = "sync" /\ loop'.err)
         /\ FlushData => loop'.pc = "sync"
         /\ SyncFile => loop'.pc \in {"pop", "relock"}
         /\ Pop => loop'.pc = "done"
         /\ Done => loop'.pc = "pop"
         /\ PopEnd => loop'.pc \in {"check", "relock"}
         /\ Relock => loop'.pc = "check"
<1> USE DEF IInv, TypeInv, Loops
<1>1. Check => loop'.pc \in {"take", "add", "exit"}
  BY DEF Check
<1>2. WaitAdd => loop'.pc = "added"
  BY DEF WaitAdd
<1>3. WaitUnlock => loop'.pc = "parked"
  BY DEF WaitUnlock
<1>4. Woken => loop'.pc = "check"
  BY DEF Woken, Idle
<1>5. Take => loop'.pc = "data"
  BY DEF Take
<1>6. Data => loop'.pc = "blocks" \/ (loop'.pc = "pop" /\ loop'.err)
  BY DEF Data
<1>7. FlushBlock => loop'.pc = "blocks" \/ (loop'.pc = "sync" /\ loop'.err)
  BY DEF FlushBlock
<1>8. FlushData => loop'.pc = "sync"
  BY DEF FlushData
<1>9. SyncFile => loop'.pc \in {"pop", "relock"}
  BY DEF SyncFile
<1>10. Pop => loop'.pc = "done"
  BY DEF Pop
<1>11. Done => loop'.pc = "pop"
  BY DEF Done
<1>12. PopEnd => loop'.pc \in {"check", "relock"}
  BY DEF PopEnd, Idle
<1>13. Relock => loop'.pc = "check"
  BY DEF Relock, Idle
<1> QED BY <1>1, <1>2, <1>3, <1>4, <1>5, <1>6, <1>7, <1>8, <1>9, <1>10, <1>11, <1>12, <1>13

\* How the loop comes to sync, to answer and to pop.
LEMMA IntoSync ==
  ASSUME IInv, Next, ~FlushData, loop'.pc = "sync", ~loop'.err
  PROVE  /\ loop.pc = "sync" /\ ~loop.err /\ file' = file
         /\ loop'.head = loop.head /\ loop'.tail = loop.tail
<1>1. ~FlushLoop
  BY LoopMoves DEF FlushLoop
<1> QED BY <1>1, LoopAlone DEF SameLoop

\* The loop gets to popping without an error only from a sync that reached the
\* file's end, or from popping.
LEMMA IntoPop ==
  ASSUME IInv, Next, loop'.pc \in {"pop", "done"}, ~loop'.err
  PROVE  /\ ~loop.err /\ loop'.head = loop.head
         /\ loop'.tail = loop.tail \/ loop'.tail = loop.tail + 1
         /\ loop.pc \in {"pop", "done"} \/ (loop.pc = "sync" /\ durable' = Len(file))
<1>1. CASE ~FlushLoop
  BY <1>1, LoopAlone DEF SameLoop
<1>2. FlushLoop => SyncFile \/ Pop \/ Done
  BY LoopMoves DEF FlushLoop
<1>3. CASE SyncFile
  <2>1. loop.pc = "sync" /\ loop'.head = loop.head /\ loop'.tail = loop.tail
    BY <1>3 DEF SyncFile, IInv, TypeInv, Loops
  <2>2. ~loop.err /\ durable' = Len(file)
    BY <1>3 DEF SyncFile, IInv, TypeInv, Loops
  <2> QED BY <2>1, <2>2
<1>4. CASE Pop
  BY <1>4 DEF Pop, IInv, TypeInv, Loops
<1>5. CASE Done
  BY <1>5 DEF Done, IInv, TypeInv, Loops
<1> QED BY <1>1, <1>2, <1>3, <1>4, <1>5

\* A client is told only after it was popped.
LEMMA IntoDone ==
  ASSUME IInv, Next, loop'.pc = "done", loop.pc # "done" PROVE Pop
<1>1. CASE ~FlushLoop
  BY <1>1, LoopAlone DEF SameLoop
<1> QED BY <1>1, LoopMoves DEF FlushLoop

\* Who is told of no error is on disk, after every step.
LEMMA AckStep == ASSUME IInv, Next PROVE AckInv'
<1> USE DEF IInv
<1>0. /\ Len(file) \in Nat /\ Len(file) <= Len(file)
      /\ durable \in Nat /\ durable' \in Nat /\ durable <= durable'
  BY CellFacts, DurableGrows DEF TypeInv
<1>1. ASSUME loop'.pc = "sync", ~loop'.err PROVE BatchWithin(Len(file))'
  <2>1. CASE FlushData
    BY <1>1, <2>1, BufferContent
  <2>2. CASE ~FlushData
    <3>1. /\ BatchWithin(Len(file)) /\ file' = file
          /\ loop'.head = loop.head /\ loop'.tail = loop.tail
      BY <1>1, <2>2, IntoSync DEF AckInv
    <3>2. \A i \in loop'.tail..(loop'.head - 1) :
            Within(hist'.log, rec'[slots'[i % Slots]].id, Len(file))
      BY <1>0, <3>1, BatchStep
    <3> QED BY <3>1, <3>2 DEF BatchWithin
  <2> QED BY <2>1, <2>2
<1>2. ASSUME loop'.pc \in {"pop", "done"}, ~loop'.err PROVE BatchWithin(durable)'
  <2>1. /\ ~loop.err /\ loop'.head = loop.head
        /\ loop'.tail = loop.tail \/ loop'.tail = loop.tail + 1
        /\ loop.pc \in {"pop", "done"} \/ (loop.pc = "sync" /\ durable' = Len(file))
    BY <1>2, IntoPop
  <2>2. CASE loop.pc \in {"pop", "done"}
    <3>1. BatchWithin(durable)
      BY <2>1, <2>2 DEF AckInv
    <3>2. \A i \in loop'.tail..(loop'.head - 1) :
            Within(hist'.log, rec'[slots'[i % Slots]].id, durable')
      BY <1>0, <2>1, <3>1, BatchStep
    <3> QED BY <3>2 DEF BatchWithin
  <2>3. CASE loop.pc = "sync" /\ durable' = Len(file)
    <3>1. BatchWithin(Len(file))
      BY <2>1, <2>3 DEF AckInv
    <3>2. \A i \in loop'.tail..(loop'.head - 1) :
            Within(hist'.log, rec'[slots'[i % Slots]].id, Len(file))
      BY <1>0, <2>1, <3>1, BatchStep
    <3> QED BY <2>3, <3>2 DEF BatchWithin
  <2> QED BY <2>1, <2>2, <2>3
<1>3. ASSUME loop'.pc = "done", ~waitErr'[loop'.cur]
      PROVE  Within(hist'.log, rec'[loop'.cur].id, durable')
  <2>1. loop'.cur \in Clients /\ pc'[loop'.cur] \in Waiting
    BY <1>3, RingStep DEF RingInv
  <2>2. CASE loop.pc = "done"
    <3>1. loop'.cur = loop.cur /\ ~waitErr[loop.cur]
      BY <1>3, <2>2, CurrentKept
    <3>2. pc[loop.cur] \in Waiting
      BY <2>2 DEF RingInv
    <3>3. Within(hist.log, rec[loop.cur].id, durable)
      BY <2>2, <3>1 DEF AckInv
    <3> QED BY <1>0, <2>1, <3>1, <3>2, <3>3, WithinStep
  <2>3. CASE loop.pc # "done"
    <3>1. Pop
      BY <1>3, <2>3, IntoDone
    <3> DEFINE c == slots[loop.tail % Slots]
    <3>2. loop'.cur = c /\ loop'.err = loop.err /\ loop.pc = "pop"
      BY <3>1 DEF Pop, TypeInv, Loops
    <3>3. waitErr'[c] = loop.err
      <4>1. waitErr' = [waitErr EXCEPT ![c] = loop.err] /\ c \in Clients
        BY <2>1, <3>1, <3>2 DEF Pop
      <4> HIDE DEF c
      <4> QED BY <4>1 DEF TypeInv
    <3>4. BatchWithin(durable)
      BY <1>3, <3>2, <3>3 DEF AckInv
    <3>5. loop.tail \in loop.tail..(loop.head - 1)
      BY <3>1, PopSlots DEF TypeInv, Loops
    <3>6. Within(hist.log, rec[c].id, durable)
      BY <3>4, <3>5 DEF BatchWithin
    <3>7. pc' = pc
      BY <3>1 DEF Pop, clientVars
    <3> HIDE DEF c
    <3> QED BY <1>0, <2>1, <3>2, <3>6, <3>7, WithinStep
  <2> QED BY <2>2, <2>3
<1>4. ASSUME NEW d \in Clients, pc'[d] \in Waiting, wg'[d] = 0, ~waitErr'[d]
      PROVE  Within(hist'.log, rec'[d].id, durable')
  <2>1. CASE Done /\ d = loop.cur
    <3>1. loop.pc = "done" /\ waitErr' = waitErr /\ pc' = pc
      BY <2>1 DEF Done, clientVars
    <3>2. Within(hist.log, rec[d].id, durable)
      BY <1>4, <2>1, <3>1 DEF AckInv
    <3> QED BY <1>0, <1>4, <3>1, <3>2, WithinStep
  <2>2. CASE ~(Done /\ d = loop.cur)
    <3>1. pc[d] \in Waiting /\ wg[d] = 0 /\ ~waitErr[d]
      BY <1>4, <2>2, WaitersStep
    <3>2. Within(hist.log, rec[d].id, durable)
      BY <3>1 DEF AckInv
    <3> QED BY <1>0, <1>4, <3>1, <3>2, WithinStep
  <2> QED BY <2>1, <2>2
<1> QED BY <1>1, <1>2, <1>3, <1>4 DEF AckInv

-----------------------------------------------------------------------------
(***************************************************************************)
(* Close.                                                                  *)
(***************************************************************************)

\* After f.close only waiters, Close itself, the loop and the timer take steps.
LEMMA ClosedSteps ==
  ASSUME IInv, Next, fClose
  PROVE  \/ \E c \in Clients : Synced(c) \/ (CloseSync(c) /\ mu = c)
         \/ LoopStep
<1>1. NONE \notin Clients
  BY LogAssumption
<1>2. ASSUME NEW c \in Clients, pc[c] \in Busy PROVE mu = c /\ pc[c] = "closing"
  BY <1>1, <1>2 DEF IInv, MutexInv, CloseInv
<1>3. ASSUME NEW c \in Clients
      PROVE  ~(Close(c) \/ \E n \in Sizes, s \in BOOLEAN : SyncRecord(c, n, s))
  BY <1>1 DEF IInv, CloseInv, Close, SyncRecord
<1>4. ASSUME NEW c \in Clients
      PROVE  ~(\/ EmitFragment(c) \/ QueueBlock(c) \/ SwapBlock(c) \/ Push(c) \/ SignalFlusher(c)
               \/ Return(c) \/ CloseFlag(c))
  <2>1. pc[c] \notin {"emit", "queue", "swap", "push", "signal", "return", "close"}
    BY <1>2 DEF Busy
  <2> QED BY <2>1 DEF EmitFragment, QueueBlock, SwapBlock, Push, SignalFlusher, Return, CloseFlag
<1>5. ASSUME NEW c \in Clients, CloseSync(c) PROVE mu = c
  BY <1>2, <1>5 DEF CloseSync, Busy
<1> QED BY <1>3, <1>4, <1>5 DEF Next, Writing, LoopStep

\* The loop that has ended does nothing.
LEMMA ExitStays == ASSUME loop.pc = "exit" PROVE ~FlushLoop
  BY DEF FlushLoop, Check, WaitAdd, WaitUnlock, Woken, Take, Data, FlushBlock, FlushData, SyncFile,
         Pop, Done, PopEnd, Relock

\* Only Check ends it.
LEMMA IntoExit ==
  ASSUME IInv, Next, loop'.pc = "exit", loop.pc # "exit" PROVE Check
<1>1. CASE ~FlushLoop
  BY <1>1, LoopAlone DEF SameLoop
<1> QED BY <1>1, LoopMoves DEF FlushLoop

\* Close waits for the loop, and the loop for an empty queue.
LEMMA CloseStep == ASSUME IInv, Next PROVE CloseInv'
<1> USE DEF IInv
<1>0. NONE \notin Clients
  BY LogAssumption
<1>1. CASE ~fClose
  <2>1. loop.pc # "exit" /\ ~hist.closeOk /\ \A c \in Clients : pc[c] # "closing"
    BY <1>1 DEF CloseInv
  <2>2. ASSUME NEW c \in Clients, CloseFlag(c) PROVE CloseInv'
    <3>1. pc' = [pc EXCEPT ![c] = "closing"] /\ fClose' /\ mu' = mu /\ hist' = hist
      BY <2>2 DEF CloseFlag
    <3>2. mu = c /\ loop'.pc = loop.pc
      BY <2>2, ClientFrame DEF CloseFlag, MutexInv, Busy, SameLoop
    <3> QED BY <2>1, <3>1, <3>2 DEF CloseInv, TypeInv
  <2>3. ASSUME ~fClose', hist'.closeOk = hist.closeOk, \A c \in Clients : pc'[c] # "closing",
               loop'.pc # "exit"
        PROVE  CloseInv'
    BY <2>1, <2>3 DEF CloseInv
  <2>4. ASSUME NEW c \in Clients,
               \/ \E n \in Sizes, s \in BOOLEAN : SyncRecord(c, n, s)
               \/ Close(c) \/ EmitFragment(c) \/ QueueBlock(c) \/ SwapBlock(c) \/ Push(c)
               \/ SignalFlusher(c) \/ Return(c) \/ Synced(c)
        PROVE  CloseInv'
    <3>1. fClose' = fClose
      BY <2>4 DEF SyncRecord, Close, EmitFragment, QueueBlock, SwapBlock, Push, SignalFlusher, Return,
                  Synced, flushVars
    <3>2. hist'.closeOk = hist.closeOk
      BY <2>4 DEF SyncRecord, Close, EmitFragment, QueueBlock, SwapBlock, Push, SignalFlusher, Return,
                  Synced, TypeInv, Histories
    <3>3. \A d \in Clients : pc'[d] # "closing"
      BY <2>1, <2>4 DEF SyncRecord, Close, EmitFragment, QueueBlock, SwapBlock, Push, SignalFlusher,
                        Return, Synced, AfterFragment, TypeInv
    <3>4. loop'.pc # "exit"
      <4>1. CASE SwapBlock(c)
        BY <2>1, <4>1, SignalledFrame DEF SwapBlock, TypeInv
      <4>2. CASE ~SwapBlock(c)
        BY <2>1, <2>4, <4>2, ClientFrame DEF SameLoop
      <4> QED BY <4>1, <4>2
    <3> QED BY <1>1, <2>3, <3>1, <3>2, <3>3, <3>4
  <2>5. ASSUME NEW c \in Clients PROVE ~CloseSync(c)
    BY <2>1 DEF CloseSync
  <2>6. CASE LoopStep
    <3>1. UNCHANGED <<pc, fClose>> /\ hist'.closeOk = hist.closeOk
      BY <2>6, LoopFrame
    <3>2. ASSUME Check PROVE loop'.pc # "exit"
      BY <1>1, <3>2 DEF Check, TypeInv, Loops
    <3>3. loop'.pc # "exit"
      BY <2>1, <3>2, IntoExit
    <3> QED BY <1>1, <2>1, <2>3, <3>1, <3>3
  <2> QED BY <2>2, <2>4, <2>5, <2>6 DEF Next, Writing, LoopStep
<1>2. CASE fClose
  <2>1. ASSUME NEW c \in Clients, Synced(c) PROVE CloseInv'
    <3>1. /\ pc' = [pc EXCEPT ![c] = "idle"] /\ pc[c] = "wait" /\ hist'.closeOk = hist.closeOk
          /\ UNCHANGED <<mu, wErr, fClose, loop, pending, block, head, tail, fErr, durable, file>>
      BY <2>1, SyncedFrame DEF Synced, flushVars
    <3> QED BY <3>1 DEF CloseInv, TypeInv
  <2>2. ASSUME NEW c \in Clients, CloseSync(c), mu = c PROVE CloseInv'
    <3>1. /\ pc' = [pc EXCEPT ![c] = "idle"] /\ pc[c] = "closing" /\ mu' = NONE /\ wErr'
          /\ UNCHANGED <<fClose, loop, pending, block, head, tail, fErr, file>> /\ loop.pc = "exit"
      BY <2>2 DEF CloseSync, queueVars
    <3>2. ~hist.closeOk
      BY <1>0, <2>2 DEF CloseInv
    <3>3. hist'.closeOk => ~fErr /\ durable' = Len(file)
      <4>1. CASE UNCHANGED hist
        BY <3>2, <4>1
      <4>2. CASE Fails
        BY <3>2, <4>2, FailsFrame
      <4> QED BY <2>2, <4>1, <4>2 DEF CloseSync
    <3> QED BY <1>2, <3>1, <3>3 DEF CloseInv, TypeInv
  <2>3. CASE LoopStep
    <3>1. UNCHANGED <<pc, mu, wErr, fClose, head>> /\ hist'.closeOk = hist.closeOk
      BY <2>3, LoopFrame
    <3>2. CASE loop.pc = "exit"
      <4>1. TimerFires \/ TimerSignals
        BY <2>3, <3>2, ExitStays DEF LoopStep
      <4>2. loop'.pc = loop.pc /\ UNCHANGED <<pending, block, tail, fErr, durable, file>>
        BY <4>1, SignalledFrame DEF TypeInv, TimerFires, TimerSignals, queueVars
      <4> QED BY <3>1, <4>2 DEF CloseInv
    <3>3. CASE loop.pc # "exit"
      <4>1. ~hist.closeOk
        BY <3>3 DEF CloseInv
      <4>2. loop'.pc = "exit" => pending' = <<>> /\ Unwritten(block') = <<>> /\ head' = tail'
        <5> SUFFICES ASSUME loop'.pc = "exit"
                     PROVE  pending' = <<>> /\ Unwritten(block') = <<>> /\ head' = tail'
          OBVIOUS
        <5>1. Check
          BY <3>3, IntoExit
        <5>2. UNCHANGED <<pending, block, head, tail>>
          BY <5>1 DEF Check
        <5>3. pending = <<>> /\ Unwritten(block) = <<>> /\ head = tail
          BY <5>1 DEF Check, TypeInv, Loops
        <5> QED BY <5>2, <5>3
      <4> QED BY <1>2, <3>1, <4>1, <4>2 DEF CloseInv
    <3> QED BY <3>2, <3>3
  <2> QED BY <1>2, <2>1, <2>2, <2>3, ClosedSteps
<1> QED BY <1>1, <1>2

-----------------------------------------------------------------------------
(***************************************************************************)
(* The theorems.                                                           *)
(***************************************************************************)

\* A new log writer satisfies the invariant.
LEMMA InitInv == Init => IInv
<1> SUFFICES ASSUME Init PROVE IInv
  OBVIOUS
<1>1. TypeInv
  <2>0. <<>> \in Cells /\ <<>> \in Blocks /\ {} \in Acks
    BY BlockFacts DEF Cells, Acks
  <2>1. block \in Block
    BY <2>0 DEF Init, NewBlock, Block
  <2>5. loop \in Loops
    BY <2>0 DEF Init, Idle, Loops, Before
  <2>6. hist \in Histories
    BY <2>0 DEF Init, Histories
  <2>2. pc \in [Clients -> Labels] /\ rec \in [Clients -> Records]
    BY DEF Init, Labels, Records, NoRec
  <2>3. slots \in [0..(Slots - 1) -> Clients \cup {NONE}]
    BY DEF Init
  <2>4. file \in Cells /\ pending \in Blocks
    BY <2>0 DEF Init
  <2>7. wg \in [Clients -> Int] /\ waitErr \in [Clients -> BOOLEAN] /\ mu \in Clients \cup {NONE}
    BY DEF Init
  <2>8. /\ head \in Nat /\ tail \in Nat /\ blocked \in BOOLEAN /\ wErr \in BOOLEAN
        /\ fErr \in BOOLEAN /\ fClose \in BOOLEAN /\ durable \in Nat
    BY DEF Init
  <2> QED BY <2>1, <2>2, <2>3, <2>4, <2>5, <2>6, <2>7, <2>8 DEF TypeInv
<1>2. MutexInv /\ IdInv /\ ArmedInv
  BY DEF Init, MutexInv, IdInv, ArmedInv, Busy, Active
<1>3. RingInv
  BY SizeFacts DEF Init, RingInv, Idle
<1>4. LoopInv
  BY DEF Init, LoopInv, Idle, After
<1>5. FileInv
  BY DEF Init, FileInv, NewBlock
<1>6. SplitInv
  <2>1. hist.log = <<>> /\ <<>> \in Cells /\ Len(hist.log) = 0 /\ 0 \in 0..Len(hist.log)
    BY DEF Init, Cells
  <2>2. Covers(hist.log, <<>>, 0, 0)
    BY <2>1, CoversEmpty
  <2>3. <<>> = SubSeq(hist.log, 0 + 1, 0) /\ 0 <= 0
    BY <2>1, EmptyStretch
  <2>4. Unwritten(block) = <<>>
    BY DEF Init, Unwritten, NewBlock
  <2>5. Split(0, 0, 0)
    BY <2>1, <2>2, <2>3, <2>4 DEF Init, Split, InHand, Idle
  <2> QED BY <2>1, <2>5 DEF SplitInv
<1>7. AckInv
  BY DEF Init, AckInv, Idle, Waiting
<1>8. CloseInv
  BY DEF Init, CloseInv, Idle
<1> QED BY <1>1, <1>2, <1>3, <1>4, <1>5, <1>6, <1>7, <1>8 DEF IInv

\* Every step of writers, flush loop, timer and Close keeps the invariant.
LEMMA NextInv == IInv /\ [Next]_vars => IInv'
<1>1. ASSUME IInv, Next PROVE IInv'
  BY <1>1, TypeStep, MutexStep, IdStep, ArmedStep, RingStep, LoopInvStep, ContentStep, AckStep,
     CloseStep DEF IInv
<1>2. ASSUME IInv, UNCHANGED vars PROVE IInv'
  <2>1. /\ UNCHANGED <<pc, rec, mu, block, wErr, hist>> /\ UNCHANGED <<head, tail, slots, blocked>>
        /\ UNCHANGED <<wg, waitErr, pending, fErr, fClose, loop, file, durable>>
    BY <1>2 DEF vars, queueVars, flushVars
  <2>2. TypeInv' /\ MutexInv' /\ IdInv' /\ ArmedInv'
    BY <1>2, <2>1 DEF IInv, TypeInv, MutexInv, IdInv, ArmedInv
  <2>3. RingInv' /\ LoopInv' /\ FileInv'
    BY <1>2, <2>1 DEF IInv, RingInv, LoopInv, FileInv
  <2>4. SplitInv'
    BY <1>2, <2>1 DEF IInv, SplitInv, Split, InHand, BatchWithin
  <2>5. AckInv' /\ CloseInv'
    BY <1>2, <2>1 DEF IInv, AckInv, CloseInv, BatchWithin
  <2> QED BY <2>2, <2>3, <2>4, <2>5 DEF IInv
<1> QED BY <1>1, <1>2

\* The inductive invariant holds in every reachable state of the log writer.
THEOREM Invariance == Spec => []IInv
  BY InitInv, NextInv, PTL DEF Spec

\* A Close that returns no error leaves nothing behind (LogWriter.Close and flushLoop's
\* end, log_writer.go:338-460, 544-581): whatever the loop, the ring and the timer were doing,
\* every cell appended is in the file, the file is synced and no sync is queued.
THEOREM NothingUnsynced == Spec => []CloseSyncsAll
<1>1. IInv => CloseSyncsAll
  <2> SUFFICES ASSUME IInv, hist.closeOk
               PROVE  file = hist.log /\ durable = Len(file) /\ head = tail
    BY DEF CloseSyncsAll
  <2> DEFINE L == hist.log
  <2>1. loop.pc = "exit" /\ ~fErr /\ durable = Len(file)
    BY DEF IInv, CloseInv
  <2>2. pending = <<>> /\ Unwritten(block) = <<>> /\ head = tail
    BY <2>1 DEF IInv, CloseInv
  <2>3. ~loop.err /\ loop.pending = <<>> /\ InHand = <<>>
    BY <2>1 DEF IInv, LoopInv, Before, InHand
  <2>4. PICK x \in 0..Len(L), y \in 0..Len(L), z \in 0..Len(L) : Split(x, y, z)
    BY <2>1, <2>3 DEF IInv, SplitInv
  <2>5. L \in Cells /\ Len(L) \in Nat /\ Len(L) \in 0..Len(L)
    BY CellFacts DEF IInv, TypeInv, Histories
  <2>6. x = Len(file) /\ y = z
    BY <2>2, <2>3, <2>4, <2>5, CoversEmpty DEF Split
  <2>7. x = y
    <3>1. SubSeq(L, x + 1, y) = <<>> /\ x <= y
      BY <2>3, <2>4 DEF Split
    <3> QED BY <2>5, <3>1, EmptyStretch
  <2>8. z = Len(L)
    <3>1. SubSeq(L, z + 1, Len(L)) = <<>> /\ z <= Len(L)
      BY <2>2, <2>4, <2>5 DEF Split
    <3> QED BY <2>5, <3>1, EmptyStretch
  <2>9. file = SubSeq(L, 1, Len(L))
    BY <2>6, <2>7, <2>8 DEF IInv, FileInv
  <2>10. SubSeq(L, 1, Len(L)) = L
    BY <2>5 DEF Cells
  <2> QED BY <2>1, <2>2, <2>9, <2>10
<1> QED BY <1>1, Invariance, PTL

\* The file only grows.
LEMMA FileGrows ==
  ASSUME IInv, FlushBlock \/ FlushData
  PROVE  Len(file) \in Nat /\ Len(file') \in Nat /\ Len(file) <= Len(file')
<1>1. \A s \in Cells : Len(file \o s) = Len(file) + Len(s) /\ Len(s) \in Nat /\ Len(file) \in Nat
  BY ConcatFacts DEF IInv, TypeInv
<1>2. \E s \in Cells : file' = file \o s
  <2>1. CASE FlushBlock
    <3>1. Unwritten(Head(loop.pending)) \in Cells
      BY <2>1, BlockFacts, UnwrittenType DEF IInv, TypeInv, Loops, FlushBlock
    <3> QED BY <2>1, <3>1, PrefixType DEF FlushBlock, WriteFails
  <2>2. CASE FlushData
    <3>1. loop.data \in Cells
      BY DEF IInv, TypeInv, Loops
    <3> QED BY <2>2, <3>1, PrefixType DEF FlushData, WriteFails
  <2> QED BY <2>1, <2>2
<1> QED BY <1>1, <1>2

\* Cells appended to the log are a Write, or nothing if there are none.
LEMMA WriteOrNothing ==
  ASSUME NEW L \in Cells, NEW s \in Cells
  PROVE  L \o s = L \/ (Len(L \o s) > Len(L) /\ SubSeq(L \o s, 1, Len(L)) = L)
<1>1. CASE s = <<>>
  BY <1>1 DEF Cells
<1>2. CASE s # <<>>
  <2>1. Len(s) > 0 /\ Len(L \o s) = Len(L) + Len(s) /\ Len(L) \in Nat /\ Len(s) \in Nat
    BY <1>2 DEF Cells
  <2>2. SubSeq(L \o s, 0 + 1, Len(L)) = SubSeq(L, 0 + 1, Len(L))
    <3>1. 0 \in 0..Len(L) /\ Len(L) \in 0..Len(L)
      BY <2>1
    <3> QED BY <3>1, StretchKept
  <2>3. SubSeq(L, 0 + 1, Len(L)) = L
    BY DEF Cells
  <2>4. Len(L \o s) > Len(L) /\ 0 + 1 = 1
    BY <2>1
  <2> QED BY <2>2, <2>3, <2>4
<1> QED BY <1>1, <1>2

\* The log writer implements DurableLog, whatever its clients, ring, blocks, timer and
\* failures do: SyncRecord's cells reach the file in order, and a nil answer
\* (syncQueue.pop, log_writer.go:142-165) means that the record is on disk.
THEOREM Refinement == Spec => ImplementsDurable
<1>1. Init => Durable!Init
  BY DEF Init, Durable!Init
<1>2. ASSUME IInv, [Next]_vars PROVE [Durable!Next]_(Durable!vars)
  <2> DEFINE L == hist.log
  <2>0. L \in Cells /\ Len(L) \in Nat
    BY <1>2, CellFacts DEF IInv, TypeInv, Histories
  <2>1. CASE UNCHANGED vars
    BY <2>1 DEF vars, flushVars, Durable!vars
  <2>2. ASSUME NEW c \in Clients, EmitFragment(c) PROVE [Durable!Write]_(Durable!vars)
    <3>1. /\ Fragment(c) \in Cells /\ hist'.log = L \o Fragment(c) /\ hist'.acked = hist.acked
          /\ UNCHANGED <<file, durable>>
      BY <1>2, <2>2, FragmentFacts DEF IInv, TypeInv, Histories, EmitFragment, flushVars
    <3>2. L \o Fragment(c) = L \/ (/\ Len(L \o Fragment(c)) > Len(L)
                                   /\ SubSeq(L \o Fragment(c), 1, Len(L)) = L)
      BY <2>0, <3>1, WriteOrNothing
    <3> QED BY <3>1, <3>2 DEF Durable!Write, Durable!vars
  <2>3. ASSUME NEW c \in Clients, Close(c) PROVE [Durable!Write]_(Durable!vars)
    <3>1. hist'.log = L \o <<0>> /\ <<0>> \in Cells
      <4>1. <<0>> \in Cells /\ \A l \in Cells : Append(l, 0) = l \o <<0>>
        BY DEF Cells
      <4> QED BY <1>2, <2>0, <2>3, <4>1, CloseLog DEF IInv
    <3>2. hist'.acked = hist.acked /\ UNCHANGED <<file, durable>>
      BY <1>2, <2>3 DEF IInv, TypeInv, Histories, Close, flushVars
    <3>3. L \o <<0>> = L \/ (Len(L \o <<0>>) > Len(L) /\ SubSeq(L \o <<0>>, 1, Len(L)) = L)
      BY <2>0, <3>1, WriteOrNothing
    <3> QED BY <3>1, <3>2, <3>3 DEF Durable!Write, Durable!vars
  <2>4. CASE FlushBlock \/ FlushData
    <3>1. hist'.log = L /\ hist'.acked = hist.acked /\ durable' = durable
      BY <1>2, <2>4, LoopFrame DEF IInv, LoopStep, FlushLoop, FlushBlock, FlushData
    <3>2. Len(file) \in Nat /\ Len(file') \in Nat /\ Len(file) <= Len(file')
      BY <1>2, <2>4, FileGrows
    <3>3. Next
      BY <2>4 DEF Next, FlushLoop
    <3>4. /\ Len(file') <= Len(L) /\ file' = SubSeq(L, 1, Len(file'))
          /\ file = SubSeq(L, 1, Len(file))
      BY <1>2, <3>1, <3>3, ContentStep DEF IInv, FileInv
    <3>5. CASE Len(file') = Len(file)
      BY <3>1, <3>4, <3>5 DEF Durable!vars
    <3>6. CASE Len(file') # Len(file)
      <4>0. \A a, b, n \in Nat : a <= b /\ b # a /\ b <= n => b \in (a + 1)..n
        OBVIOUS
      <4>1. Len(file') \in (Len(file) + 1)..Len(L)
        BY <2>0, <3>2, <3>4, <3>6, <4>0, Zenon
      <4>2. \E n \in (Len(file) + 1)..Len(L) : file' = SubSeq(L, 1, n)
        BY <3>4, <4>1, Zenon
      <4> QED BY <3>1, <4>2 DEF Durable!Flush, Durable!Next
    <3> QED BY <3>5, <3>6
  <2>5. ASSUME NEW c \in Clients, CloseSync(c) PROVE [Durable!Sync]_(Durable!vars)
    <3>1. /\ hist'.log = L /\ hist'.acked = hist.acked /\ file' = file
          /\ durable' = durable \/ durable' = Len(file)
      BY <1>2, <2>5, FailsFrame DEF IInv, TypeInv, Histories, CloseSync
    <3> QED BY <3>1 DEF Durable!Sync, Durable!vars
  <2>6. CASE SyncFile
    <3>1. /\ hist'.log = L /\ hist'.acked = hist.acked /\ file' = file
          /\ durable' = durable \/ durable' = Len(file)
      BY <1>2, <2>6, FailsFrame DEF IInv, SyncFile
    <3> QED BY <3>1 DEF Durable!Sync, Durable!vars, Durable!Next
  <2>7. ASSUME NEW c \in Clients, Synced(c) PROVE [Durable!Ack]_(Durable!vars)
    <3>1. hist'.log = L /\ UNCHANGED <<file, durable>>
      BY <1>2, <2>7, SyncedFrame DEF IInv, Synced, flushVars
    <3>2. CASE waitErr[c]
      BY <2>7, <3>1, <3>2 DEF Synced, Durable!vars
    <3>3. CASE ~waitErr[c]
      <4>1. hist'.acked = hist.acked \cup {rec[c].id}
        BY <1>2, <2>7, <3>3 DEF Synced, IInv, TypeInv, Histories
      <4>2. Within(L, rec[c].id, durable)
        BY <1>2, <2>7, <3>3 DEF Synced, IInv, AckInv, Waiting
      <4>3. DOMAIN L = 1..Len(L)
        BY <2>0 DEF Cells
      <4>4. \A r \in hist'.acked \ hist.acked : \A i \in DOMAIN L : L[i] = r => i <= durable
        BY <4>1, <4>2, <4>3 DEF Within
      <4> QED BY <3>1, <4>1, <4>4 DEF Durable!Ack, Durable!OnDisk
    <3> QED BY <3>2, <3>3
  <2>8. ASSUME NEW c \in Clients,
               \/ \E n \in Sizes, s \in BOOLEAN : SyncRecord(c, n, s)
               \/ QueueBlock(c) \/ SwapBlock(c) \/ Push(c) \/ SignalFlusher(c) \/ Return(c)
               \/ CloseFlag(c)
        PROVE  UNCHANGED Durable!vars
    <3>1. hist'.log = L /\ hist'.acked = hist.acked
      BY <1>2, <2>8 DEF IInv, TypeInv, Histories, SyncRecord, QueueBlock, SwapBlock, Push,
                        SignalFlusher, Return, CloseFlag
    <3>2. UNCHANGED <<file, durable>>
      BY <2>8 DEF SyncRecord, QueueBlock, SwapBlock, Push, SignalFlusher, Return, CloseFlag, flushVars
    <3> QED BY <3>1, <3>2 DEF Durable!vars
  <2>9. CASE \/ Check \/ WaitAdd \/ WaitUnlock \/ Woken \/ Take \/ Data \/ Pop \/ Done \/ PopEnd
             \/ Relock \/ TimerFires \/ TimerSignals
    <3>1. hist'.log = L /\ hist'.acked = hist.acked
      BY <1>2, <2>9, LoopFrame DEF IInv, LoopStep, FlushLoop
    <3>2. UNCHANGED <<file, durable>>
      BY <2>9 DEF Check, WaitAdd, WaitUnlock, Woken, Take, Data, Pop, Done, PopEnd, Relock,
                  TimerFires, TimerSignals, LoopOnly
    <3> QED BY <3>1, <3>2 DEF Durable!vars
  <2>10. CASE Next
    <3>1. CASE \E c \in Clients : EmitFragment(c) \/ Close(c) \/ CloseSync(c) \/ Synced(c)
      BY <2>2, <2>3, <2>5, <2>7, <3>1 DEF Durable!Next
    <3>2. CASE \E c \in Clients :
                 \/ \E n \in Sizes, s \in BOOLEAN : SyncRecord(c, n, s)
                 \/ QueueBlock(c) \/ SwapBlock(c) \/ Push(c) \/ SignalFlusher(c) \/ Return(c)
                 \/ CloseFlag(c)
      BY <2>8, <3>2
    <3>3. CASE LoopStep
      BY <2>4, <2>6, <2>9, <3>3 DEF LoopStep, FlushLoop
    <3> QED BY <2>10, <3>1, <3>2, <3>3 DEF Next, Writing, LoopStep
  <2> QED BY <1>2, <2>1, <2>10
<1> QED
  BY <1>1, <1>2, Invariance, PTL DEF Spec, ImplementsDurable, Durable!Spec

\* The goroutines that sync at the same time are fewer than the ring's slots
\* (commitPipeline's semaphore, commit.go:103, admits SyncConcurrency - 1), and nobody
\* panics for a full one.
FewWriters == IsFiniteSet(Clients) /\ Cardinality(Clients) < Slots
NoOverflow == \A c \in Clients : pc[c] # "panic"

\* A full ring holds Slots clients, and the one that pushes is not among them.
LEMMA RingHasRoom ==
  ASSUME FewWriters, IInv, NEW c \in Clients, pc[c] = "push" PROVE ~RingFull
<1> SUFFICES ASSUME RingFull PROVE FALSE
  OBVIOUS
<1>1. head = tail + Slots /\ tail \in Nat /\ head \in Nat /\ Slots \in Nat
  BY SizeFacts DEF RingFull, IInv, TypeInv
<1> DEFINE S == tail..(head - 1)
           f == [i \in S |-> slots[i % Slots]]
<1>2. \A i \in S : slots[i % Slots] \in Clients
  BY DEF IInv, RingInv
<1>3. \A i, j \in S : i < j => slots[i % Slots] # slots[j % Slots]
  BY DEF IInv, RingInv
<1>4. IsFiniteSet(S) /\ Cardinality(S) = Slots
  <2>1. tail \in Int /\ head - 1 \in Int
    BY <1>1
  <2>2. /\ IsFiniteSet(tail..(head - 1))
        /\ Cardinality(tail..(head - 1)) = IF tail > head - 1 THEN 0 ELSE (head - 1) - tail + 1
    BY <2>1, FS_Interval
  <2>3. (IF tail > head - 1 THEN 0 ELSE (head - 1) - tail + 1) = Slots
    BY <1>1, SizeFacts
  <2> QED BY <2>2, <2>3
<1>5. f \in [S -> Clients]
  BY <1>2
<1>6. \E i, j \in S : i # j /\ f[i] = f[j]
  <2> HIDE DEF S, f
  <2> QED BY <1>4, <1>5, FS_PigeonHole DEF FewWriters
<1>7. PICK i \in S, j \in S : i # j /\ f[i] = f[j]
  BY <1>6
<1>8. slots[i % Slots] = slots[j % Slots] /\ i \in Int /\ j \in Int /\ i # j
  BY <1>1, <1>7
<1>9. i < j \/ j < i
  BY <1>8
<1> QED BY <1>3, <1>7, <1>8, <1>9

\* syncQueue.push (log_writer.go:103-117) never finds the ring full, although a slot is
\* given back only by pop, after the data was written and synced.
THEOREM NeverOverflows == FewWriters => (Spec => []NoOverflow)
<1> SUFFICES ASSUME FewWriters PROVE Spec => []NoOverflow
  OBVIOUS
<1>1. Init => NoOverflow
  BY DEF Init, NoOverflow
<1>2. ASSUME NoOverflow, IInv, [Next]_vars PROVE NoOverflow'
  <2>1. CASE UNCHANGED vars
    BY <1>2, <2>1 DEF vars, NoOverflow
  <2>2. ASSUME NEW c \in Clients, Push(c) PROVE NoOverflow'
    <3>1. pc[c] = "push"
      BY <2>2 DEF Push
    <3>2. pc' = [pc EXCEPT ![c] = "signal"]
      BY <1>2, <2>2, <3>1, RingHasRoom DEF Push
    <3> QED BY <1>2, <3>2 DEF NoOverflow, IInv, TypeInv
  <2>3. ASSUME NEW c \in Clients,
               \/ \E n \in Sizes, s \in BOOLEAN : SyncRecord(c, n, s)
               \/ Close(c) \/ EmitFragment(c) \/ QueueBlock(c) \/ SwapBlock(c)
               \/ SignalFlusher(c) \/ Return(c) \/ Synced(c) \/ CloseFlag(c) \/ CloseSync(c)
        PROVE  NoOverflow'
    BY <1>2, <2>3 DEF NoOverflow, SyncRecord, Close, EmitFragment, QueueBlock, SwapBlock,
         SignalFlusher, Return, Synced, CloseFlag, CloseSync, AfterFragment, IInv, TypeInv
  <2>4. CASE LoopStep
    BY <1>2, <2>4, LoopFrame DEF NoOverflow, IInv
  <2> QED BY <1>2, <2>1, <2>2, <2>3, <2>4 DEF Next, Writing, LoopStep
<1> QED BY <1>1, <1>2, Invariance, PTL DEF Spec

\* The slot syncQueue.pop takes holds a client that waits, with its WaitGroup raised.
PopsWaiter ==
  loop.pc = "pop" /\ loop.tail # loop.head =>
    LET c == slots[loop.tail % Slots] IN c \in Clients /\ pc[c] \in Waiting /\ wg[c] = 1

\* pop's error path, "nil waiter at %d" (log_writer.go:151), is never taken, and no
\* WaitGroup goes below zero: the loop's indexes, read before the write and the sync,
\* still name waiters when it pops, whatever was pushed meanwhile.
THEOREM NoNilWaiter == Spec => []PopsWaiter
<1>1. IInv => PopsWaiter
  <2> SUFFICES ASSUME IInv, loop.pc = "pop", loop.tail # loop.head
               PROVE  LET c == slots[loop.tail % Slots] IN
                      c \in Clients /\ pc[c] \in Waiting /\ wg[c] = 1
    BY DEF PopsWaiter
  <2>1. loop.tail \in tail..(head - 1)
    BY DEF IInv, RingInv, TypeInv, Loops
  <2> QED BY <2>1 DEF IInv, RingInv
<1> QED BY <1>1, Invariance, PTL

=============================================================================
