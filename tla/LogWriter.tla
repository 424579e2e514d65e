----------------------------- MODULE LogWriter -----------------------------
(***************************************************************************)
(* The log writer (internal/record/log_writer.go): one goroutine at a      *)
(* time, under commitPipeline.mu, cuts a record into the fragments that    *)
(* fit into the current block, queues full blocks and, if asked to sync,   *)
(* pushes its WaitGroup into a ring; the flush loop writes blocks and      *)
(* buffered data to the file, syncs it and calls Done on the waiters.      *)
(*                                                                         *)
(* A block holds BlockCap cells, a cell being a piece of a fragment with   *)
(* its header, named by its record; the trailer Close writes is cell 0.    *)
(* The ring's 32-bit indexes are not wrapped: at most Slots are in use.    *)
(***************************************************************************)
EXTENDS Integers, Sequences, SequencesExt, FiniteSetsExt

CONSTANTS Clients,      \* goroutines that commit, each waits for its own sync
          NONE,         \* no client
          Slots,        \* SyncConcurrency
          BlockCap,     \* cells in a block
          MaxBlocks,    \* cap(free.blocks)
          Sizes,        \* sizes of records, in cells
          MinSync,      \* is minSyncInterval set and positive?
          MaxRecords, MaxErrors   \* bounds

ASSUME LogAssumption ==
  /\ {Slots, BlockCap, MaxBlocks} \subseteq Nat \ {0} /\ Sizes \subseteq Nat \ {0}
  /\ MinSync \in BOOLEAN /\ NONE \notin Clients

VARIABLES
  pc, rec,        \* per client: where it is; [id, left, sync] of its record
  mu,             \* commitPipeline.mu
  block,          \* w.block: [data, flushed]; written is Len(data)
  free, allocated,    \* len(free.blocks), free.allocated
  pending,        \* flusher.pending
  head, tail, slots, blocked,     \* flusher.syncQ
  wg, waitErr,    \* per client: its WaitGroup and where pop stores the error
  wErr, fErr, fClose,     \* w.err, flusher.err, flusher.close
  loop,           \* the flush loop: [pc, woken, pending, data, head, tail, synced, err, cur]
  timer,          \* the sync timer: [on, signal]
  file, durable,  \* the file's cells, and how many of them are synced
  hist            \* [log, acked, closeOk, n, errors]: history and bounds

queueVars == <<head, tail, slots, blocked, wg, waitErr>>
flushVars == <<pending, fErr, fClose, loop, timer, file, durable>>
vars == <<pc, rec, mu, block, free, allocated, wErr, queueVars, flushVars, hist>>

NewBlock == [data |-> <<>>, flushed |-> 0]
Idle(p) == [pc |-> p, woken |-> FALSE, pending |-> <<>>, data |-> <<>>, head |-> 0, tail |-> 0,
            synced |-> FALSE, err |-> FALSE, cur |-> NONE]
NoRec == [id |-> 0, left |-> 0, sync |-> FALSE]

Init ==
  /\ pc = [c \in Clients |-> "idle"] /\ rec = [c \in Clients |-> NoRec] /\ mu = NONE
  /\ block = NewBlock /\ free = 0 /\ allocated = 1 /\ pending = <<>>
  /\ head = 0 /\ tail = 0 /\ slots = [i \in 0..(Slots - 1) |-> NONE] /\ blocked = FALSE
  /\ wg = [c \in Clients |-> 0] /\ waitErr = [c \in Clients |-> FALSE]
  /\ wErr = FALSE /\ fErr = FALSE /\ fClose = FALSE
  /\ loop = Idle("check")
  /\ timer = [on |-> FALSE, signal |-> FALSE]
  /\ file = <<>> /\ durable = 0
  /\ hist = [log |-> <<>>, acked |-> {}, closeOk |-> FALSE, n |-> 0, errors |-> 0]

-----------------------------------------------------------------------------
\* syncQueue.empty: a blocked queue looks empty.
Empty == blocked \/ head = tail

\* ready.Signal: it is lost when the loop is not on the condition's list.
Signalled(l) == [l EXCEPT !.woken = @ \/ l.pc \in {"added", "parked"}]

\* f.Mutex is the loop's except while it waits and while it writes.
LoopHoldsLock == loop.pc \in {"check", "add", "added", "take", "data"}
                   \/ (loop.pc \in {"pop", "done"} /\ fErr)

\* An operation of the file that may fail, counted against the bound.
Fails == hist.errors < MaxErrors /\ hist' = [hist EXCEPT !.errors = @ + 1]

\* The part of a block the loop has not taken yet.
Unwritten(b) == SubSeq(b.data, b.flushed + 1, Len(b.data))

-----------------------------------------------------------------------------
(***************************************************************************)
(* SyncRecord, by the goroutine that holds commitPipeline.mu.              *)
(***************************************************************************)

\* A record of n cells; a sync's WaitGroup is raised by the caller.
SyncRecord(c, n, s) ==
  /\ pc[c] = "idle" /\ mu = NONE /\ ~wErr /\ hist.n < MaxRecords
  /\ mu' = c /\ pc' = [pc EXCEPT ![c] = "emit"]
  /\ rec' = [rec EXCEPT ![c] = [id |-> hist.n + 1, left |-> n, sync |-> s]]
  /\ wg' = [wg EXCEPT ![c] = IF s THEN 1 ELSE 0]
  /\ hist' = [hist EXCEPT !.n = @ + 1]
  /\ UNCHANGED <<block, free, allocated, wErr, head, tail, slots, blocked, waitErr, flushVars>>

\* What follows a fragment of c when its record has so many cells left.
AfterFragment(c, left) ==
  IF left > 0 THEN "emit" ELSE IF rec[c].sync THEN "push" ELSE "return"

\* emitFragment up to the store of written; a full block is queued.
EmitFragment(c) ==
  LET r == Min({rec[c].left, BlockCap - Len(block.data)})
      cells == [i \in 1..r |-> rec[c].id]
      left == rec[c].left - r IN
  /\ pc[c] = "emit"
  /\ block' = [block EXCEPT !.data = @ \o cells]
  /\ rec' = [rec EXCEPT ![c].left = left]
  /\ pc' = [pc EXCEPT ![c] = IF Len(block'.data) = BlockCap THEN "queue"
                                                           ELSE AfterFragment(c, left)]
  /\ hist' = [hist EXCEPT !.log = @ \o cells]
  /\ UNCHANGED <<mu, free, allocated, wErr, queueVars, flushVars>>

\* queueBlock: a free block, a new one, or waiting for one,
QueueBlock(c) ==
  /\ pc[c] = "queue" /\ pc' = [pc EXCEPT ![c] = "swap"]
  /\ \/ free > 0 /\ free' = free - 1 /\ UNCHANGED allocated
     \/ free = 0 /\ allocated < MaxBlocks /\ allocated' = allocated + 1 /\ UNCHANGED free
  /\ UNCHANGED <<rec, mu, block, wErr, queueVars, flushVars, hist>>

\* which, under the flusher's lock, replaces the full one.
SwapBlock(c) ==
  /\ pc[c] = "swap" /\ ~LoopHoldsLock
  /\ pc' = [pc EXCEPT ![c] = AfterFragment(c, rec[c].left)]
  /\ pending' = Append(pending, block) /\ block' = NewBlock
  /\ loop' = Signalled(loop) /\ wErr' = fErr
  /\ UNCHANGED <<rec, mu, free, allocated, queueVars, fErr, fClose, timer, file, durable, hist>>

\* push's test for a full ring.
RingFull == tail + Slots = head

\* syncQ.push; a full ring is a panic.
Push(c) ==
  /\ pc[c] = "push"
  /\ IF RingFull
       THEN pc' = [pc EXCEPT ![c] = "panic"] /\ UNCHANGED <<head, slots>>
       ELSE /\ slots' = [slots EXCEPT ![head % Slots] = c] /\ head' = head + 1
            /\ pc' = [pc EXCEPT ![c] = "signal"]
  /\ UNCHANGED <<rec, mu, block, free, allocated, wErr, tail, blocked, wg, waitErr, flushVars,
                 hist>>

\* ready.Signal without the lock; the caller unlocks commitPipeline.mu and waits.
SignalFlusher(c) ==
  /\ pc[c] = "signal" /\ pc' = [pc EXCEPT ![c] = "wait"]
  /\ loop' = Signalled(loop) /\ mu' = NONE
  /\ UNCHANGED <<rec, block, free, allocated, wErr, queueVars, pending, fErr, fClose, timer,
                 file, durable, hist>>

\* The end of a record that is not synced.
Return(c) ==
  /\ pc[c] = "return" /\ pc' = [pc EXCEPT ![c] = "idle"] /\ mu' = NONE
  /\ rec' = [rec EXCEPT ![c] = NoRec]
  /\ UNCHANGED <<block, free, allocated, wErr, queueVars, flushVars, hist>>

\* The caller's Wait returns.
Synced(c) ==
  /\ pc[c] = "wait" /\ wg[c] = 0 /\ pc' = [pc EXCEPT ![c] = "idle"]
  /\ hist' = IF waitErr[c] THEN hist ELSE [hist EXCEPT !.acked = @ \cup {rec[c].id}]
  /\ rec' = [rec EXCEPT ![c] = NoRec] /\ waitErr' = [waitErr EXCEPT ![c] = FALSE]
  /\ UNCHANGED <<mu, block, free, allocated, wErr, head, tail, slots, blocked, wg, flushVars>>

-----------------------------------------------------------------------------
(***************************************************************************)
(* Close.  Closing the file itself does not fail here: its error would be  *)
(* returned in place of the sync's and leave w.err as it was, and nobody   *)
(* writes to the log after that.                                           *)
(***************************************************************************)

\* emitEOFTrailer
Close(c) ==
  /\ pc[c] = "idle" /\ mu = NONE /\ ~fClose
  /\ mu' = c /\ pc' = [pc EXCEPT ![c] = "close"]
  /\ block' = [block EXCEPT !.data = Append(@, 0)]
  /\ hist' = [hist EXCEPT !.log = Append(@, 0)]
  /\ UNCHANGED <<rec, free, allocated, wErr, queueVars, flushVars>>

\* f.close
CloseFlag(c) ==
  /\ pc[c] = "close" /\ ~LoopHoldsLock /\ pc' = [pc EXCEPT ![c] = "closing"]
  /\ fClose' = TRUE /\ loop' = Signalled(loop)
  /\ UNCHANGED <<rec, mu, block, free, allocated, wErr, queueVars, pending, fErr, timer, file,
                 durable, hist>>

\* mutant: Close without its own sync.
CloseUnsynced(c) ==
  /\ pc[c] = "closing" /\ loop.pc = "exit"
  /\ pc' = [pc EXCEPT ![c] = "idle"] /\ mu' = NONE /\ wErr' = TRUE
  /\ hist' = [hist EXCEPT !.closeOk = ~fErr]
  /\ UNCHANGED <<rec, block, free, allocated, queueVars, flushVars>>

\* The loop has ended: the last sync.
CloseSync(c) ==
  /\ pc[c] = "closing" /\ loop.pc = "exit"
  /\ pc' = [pc EXCEPT ![c] = "idle"] /\ mu' = NONE /\ wErr' = TRUE
  /\ \/ fErr /\ UNCHANGED <<durable, hist>>
     \/ ~fErr /\ durable' = Len(file) /\ hist' = [hist EXCEPT !.closeOk = TRUE]
     \/ ~fErr /\ Fails /\ UNCHANGED durable
  /\ UNCHANGED <<rec, block, free, allocated, queueVars, pending, fErr, fClose, loop, timer, file>>

-----------------------------------------------------------------------------
(***************************************************************************)
(* flushLoop.                                                              *)
(***************************************************************************)
clientVars == <<pc, rec, mu, allocated, wErr>>

\* The inner loop: is there something to do?
Check ==
  LET work == pending # <<>> \/ Unwritten(block) # <<>> IN
  /\ loop.pc = "check"
  /\ loop' = [loop EXCEPT !.pc = CASE work \/ ~Empty -> "take"
                                   [] ~work /\ Empty /\ ~fClose -> "add"
                                   [] ~work /\ Empty /\ fClose ->
                                        IF head = tail THEN "exit" ELSE "take"]
  /\ blocked' = (blocked /\ loop'.pc # "exit" /\ (work \/ ~fClose))
  /\ timer' = IF loop'.pc = "exit" THEN [timer EXCEPT !.on = FALSE] ELSE timer
  /\ UNCHANGED <<clientVars, block, free, head, tail, slots, wg, waitErr, pending, fErr, fClose,
                 file, durable, hist>>

LoopOnly == UNCHANGED <<clientVars, block, free, queueVars, pending, fErr, fClose, timer, file,
                        durable, hist>>

\* ready.Wait: on the list first,
WaitAdd == /\ loop.pc = "add" /\ loop' = [loop EXCEPT !.pc = "added"]
           /\ LoopOnly

\* mutant: a plain Unlock.
WaitUnlockPlain ==
  loop.pc = "added" /\ loop' = [loop EXCEPT !.pc = "parked"] /\ LoopOnly

\* then flusherCond.Unlock, which signals if there are waiters,
WaitUnlock == /\ loop.pc = "added"
              /\ loop' = [loop EXCEPT !.pc = "parked", !.woken = @ \/ ~Empty]
              /\ LoopOnly

\* then parked until a signal, and the lock again.
Woken == loop.pc = "parked" /\ loop.woken /\ loop' = Idle("check") /\ LoopOnly

\* The pending blocks and the waiters,
Take ==
  /\ loop.pc = "take"
  /\ loop' = [loop EXCEPT !.pc = "data", !.pending = pending,
                          !.head = IF blocked THEN 0 ELSE head,
                          !.tail = IF blocked THEN 0 ELSE tail]
  /\ pending' = <<>>
  /\ UNCHANGED <<clientVars, block, free, queueVars, fErr, fClose, timer, file, durable, hist>>

\* and after them the buffered part of the current block.
Data ==
  /\ loop.pc = "data"
  /\ loop' = [loop EXCEPT !.pc = IF fErr THEN "pop" ELSE "blocks", !.data = Unwritten(block),
                          !.synced = loop.head # loop.tail, !.err = fErr]
  /\ block' = [block EXCEPT !.flushed = Len(block.data)]
  /\ UNCHANGED <<clientVars, free, queueVars, pending, fErr, fClose, timer, file, durable, hist>>

\* A failed write may have reached the file in part.
WriteFails(d) == Fails /\ \E n \in 0..Len(d) : file' = file \o SubSeq(d, 1, n)

\* flushBlock, for each pending block; a written one is free.
FlushBlock ==
  /\ loop.pc = "blocks" /\ loop.pending # <<>>
  /\ LET d == Unwritten(Head(loop.pending)) IN
     \/ /\ file' = file \o d /\ free' = free + 1
        /\ loop' = [loop EXCEPT !.pending = Tail(@)] /\ UNCHANGED hist
     \/ /\ WriteFails(d) /\ loop' = [loop EXCEPT !.pc = "sync", !.err = TRUE]
        /\ UNCHANGED free
  /\ UNCHANGED <<clientVars, block, queueVars, pending, fErr, fClose, timer, durable>>

\* w.w.Write of the buffered part.
FlushData ==
  /\ loop.pc = "blocks" /\ loop.pending = <<>>
  /\ \/ /\ file' = file \o loop.data /\ loop' = [loop EXCEPT !.pc = "sync"] /\ UNCHANGED hist
     \/ /\ loop.data # <<>> /\ WriteFails(loop.data)
        /\ loop' = [loop EXCEPT !.pc = "sync", !.err = TRUE]
  /\ UNCHANGED <<clientVars, block, free, queueVars, pending, fErr, fClose, timer, durable>>

\* w.s.Sync, if anybody waits.
SyncFile ==
  /\ loop.pc = "sync"
  /\ \/ /\ (loop.err \/ ~loop.synced) /\ UNCHANGED <<durable, hist>>
        /\ loop' = [loop EXCEPT !.pc = IF loop.synced THEN "pop" ELSE "relock"]
     \/ /\ ~loop.err /\ loop.synced /\ durable' = Len(file) /\ UNCHANGED hist
        /\ loop' = [loop EXCEPT !.pc = "pop"]
     \/ /\ ~loop.err /\ loop.synced /\ Fails /\ UNCHANGED durable
        /\ loop' = [loop EXCEPT !.pc = "pop", !.err = TRUE]
  /\ UNCHANGED <<clientVars, block, free, queueVars, pending, fErr, fClose, timer, file>>

\* mutant: the error is not stored for the waiter.
PopNoError ==
  LET c == slots[loop.tail % Slots] IN
  /\ loop.pc = "pop" /\ loop.tail # loop.head
  /\ slots' = [slots EXCEPT ![loop.tail % Slots] = NONE] /\ tail' = tail + 1
  /\ loop' = [loop EXCEPT !.pc = "done", !.tail = @ + 1, !.cur = c]
  /\ UNCHANGED <<clientVars, block, free, head, blocked, wg, waitErr, pending, fErr, fClose, timer,
                 file, durable, hist>>

\* syncQ.pop: the slot is emptied and given back,
Pop ==
  LET c == slots[loop.tail % Slots] IN
  /\ loop.pc = "pop" /\ loop.tail # loop.head
  /\ waitErr' = [waitErr EXCEPT ![c] = loop.err]
  /\ slots' = [slots EXCEPT ![loop.tail % Slots] = NONE] /\ tail' = tail + 1
  /\ loop' = [loop EXCEPT !.pc = "done", !.tail = @ + 1, !.cur = c]
  /\ UNCHANGED <<clientVars, block, free, head, blocked, wg, pending, fErr, fClose, timer, file,
                 durable, hist>>

\* then the waiter is told.
Done ==
  /\ loop.pc = "done" /\ loop' = [loop EXCEPT !.pc = "pop", !.cur = NONE]
  /\ wg' = [wg EXCEPT ![loop.cur] = @ - 1]
  /\ UNCHANGED <<clientVars, block, free, head, tail, slots, blocked, waitErr, pending, fErr,
                 fClose, timer, file, durable, hist>>

\* No waiter is left: after an earlier error the loop goes on at once.
PopEnd ==
  /\ loop.pc = "pop" /\ loop.tail = loop.head
  /\ loop' = IF fErr THEN Idle("check") ELSE [loop EXCEPT !.pc = "relock"]
  /\ LoopOnly

\* The lock again: the error is kept, or syncing blocked for the interval.
Relock ==
  /\ loop.pc = "relock"
  /\ loop' = Idle("check")
  /\ fErr' = loop.err
  /\ blocked' = IF loop.err THEN FALSE ELSE (blocked \/ (loop.synced /\ MinSync))
  /\ timer' = IF ~loop.err /\ loop.synced /\ MinSync THEN [timer EXCEPT !.on = TRUE] ELSE timer
  /\ UNCHANGED <<clientVars, block, free, head, tail, slots, wg, waitErr, pending, fClose, file,
                 durable, hist>>

\* The sync timer's function: clearBlocked, then Signal.
TimerFires ==
  /\ timer.on /\ timer' = [on |-> FALSE, signal |-> TRUE] /\ blocked' = FALSE
  /\ UNCHANGED <<clientVars, block, free, head, tail, slots, wg, waitErr, pending, fErr, fClose,
                 loop, file, durable, hist>>

TimerSignals ==
  /\ timer.signal /\ timer' = [timer EXCEPT !.signal = FALSE] /\ loop' = Signalled(loop)
  /\ UNCHANGED <<clientVars, block, free, queueVars, pending, fErr, fClose, file, durable, hist>>

-----------------------------------------------------------------------------
Writing(c) == \/ EmitFragment(c) \/ QueueBlock(c) \/ SwapBlock(c) \/ Push(c)
              \/ SignalFlusher(c) \/ Return(c) \/ Synced(c) \/ CloseFlag(c) \/ CloseSync(c)

FlushLoop == \/ Check \/ WaitAdd \/ WaitUnlock \/ Woken \/ Take \/ Data \/ FlushBlock
             \/ FlushData \/ SyncFile \/ Pop \/ Done \/ PopEnd \/ Relock

Next == \/ \E c \in Clients : \/ \E n \in Sizes, s \in BOOLEAN : SyncRecord(c, n, s)
                              \/ Close(c) \/ Writing(c)
        \/ FlushLoop \/ TimerFires \/ TimerSignals

Spec == Init /\ [][Next]_vars

\* Goroutines run when they can, and timers fire.  Nobody has to write or close.
FairSpec == /\ Spec /\ WF_vars(FlushLoop) /\ WF_vars(TimerFires) /\ WF_vars(TimerSignals)
            /\ \A c \in Clients : WF_vars(Writing(c))

-----------------------------------------------------------------------------
(***************************************************************************)
(* Properties.                                                             *)
(***************************************************************************)

\* Close without an error has synced everything, with syncs still waiting for the
\* interval too.
CloseSyncsAll ==
  hist.closeOk => file = hist.log /\ durable = Len(file) /\ head = tail

\* Every call returns: the loop does not go to sleep over a sync pushed while it
\* decides to, with the interval's timer, after errors and at Close, and the ring of
\* waiters never overflows, which would panic, although a goroutine that is told of
\* its sync may push its next one at once.  After an error a writer may be left
\* without a block.
CallsReturn ==
  \A c \in Clients : pc[c] # "idle" ~> (pc[c] = "idle" \/ (pc[c] = "queue" /\ hist.errors > 0))

\* The same after an error too, as flushLoop's comment has it ("in spite of error
\* we consume the pending list above to free blocks for writers").
BlocksFreed == \A c \in Clients : pc[c] = "queue" ~> pc[c] # "queue"

\* The writer implements DurableLog: also after a failed write the file is a prefix of
\* what was appended, no block skipped, repeated or overtaken by buffered data, and a
\* record whose SyncRecord was answered without an error is on disk to its last cell,
\* although the loop collects waiters and data while records are appended ("any record
\* written to the LogWriter to this point will be flushed to the OS and synced to
\* disk").
Durable == INSTANCE DurableLog WITH log <- hist.log, acked <- hist.acked
ImplementsDurable == Durable!Spec
=============================================================================
