---------------------------- MODULE ReadStates ----------------------------
(***************************************************************************)
(* Who may still use a table of the plain DB (read_state.go, flushable.go, *)
(* plain_db.go, plain_flush.go).  A table is freed when its last reference *)
(* goes: one belongs to the queue or to mu.arrtable, one to each read      *)
(* state that lists it.  A read state is itself counted: one reference is  *)
(* plainDB.readState's, one each reader's.                                 *)
(*                                                                         *)
(* Every atomic counter operation is a step of its own, and so is the      *)
(* critical section of readState.RWMutex; plainDB.mu is held from the      *)
(* creation of a read state until its predecessor has been given up.  One  *)
(* goroutine writes; what a write is and how logs and commits order it is  *)
(* PlainDB's and CommitPipeline's subject.  Array tables are those of      *)
(* ArrayTable, word for word.                                              *)
(***************************************************************************)
EXTENDS ArrayTable, Ascending

CONSTANTS Readers,        \* goroutines with a Get or an Iterator
          MaxKey,
          MemCap,         \* writes that fit into a memtable
          StopWrites,     \* PlainMemTableStopWritesThreshold
          MaxWrites, MaxSwitches, MaxLoads,   \* bounds
          MaxFaults,      \* bound: flushes with a failing step
          MaxFaultLoads   \* bound: loads where a flush fails

ASSUME ReadAssumption ==
  /\ {MaxKey, MemCap, StopWrites} \subseteq Nat \ {0}
  /\ {MaxWrites, MaxSwitches, MaxLoads, MaxFaults, MaxFaultLoads} \subseteq Nat
  /\ {"mu", "flush", "close"} \cap Readers = {}

VARIABLES
  status,    \* open, closing, closed
  tabs,      \* every table ever made: [kind, refs, live, obsolete,
             \* file, writers, used, body]
  queue,     \* mu.mem.queue
  arr,       \* mu.arrtable, 0 for nil
  states,    \* every read state ever made: [refs, mems, arr]
  val,       \* readState.val
  mu,        \* who holds mu inside updateReadState and how far he is
  drops,     \* for each goroutine, the tables it is about to unreference
  rd,        \* the readers: [rs, floor], rs = 0 when idle
  wr,        \* the writer: [mem, key, seq], mem = 0 when idle
  fl,        \* the flush: [pc, n, new]
  latest,    \* history: for each key the newest write applied
  keyOf,     \* history: the key of each write, 0 for write 1 if it was not made
  damaged,   \* history: keys a refused item has cost their value
  orphans,   \* history: tables a failed flush left behind
  calls      \* counted against the bounds: [load, fault]

vars == <<status, tabs, queue, arr, states, val, mu, drops, rd, wr, fl, latest,
          keyOf, damaged, orphans, calls>>

Keys == 1..MaxKey
Actors == Readers \cup {"mu", "flush", "close"}
Free == [pc |-> "free", old |-> 0, by |-> "none"]
IdleReader == [rs |-> 0, floor |-> [k \in Keys |-> 0]]
IdleWriter == [mem |-> 0, key |-> 0, seq |-> 0]
IdleFlush == [pc |-> "none", n |-> 0, new |-> 0]

\* The value of write s: 1, 2, 0, 1, ... words, the empty one a delete's.
Val(s) == [i \in 1..(s % 3) |-> s]

\* newFlushableEntry for a memtable, and for an array table; a memtable has its
\* writerRefs and the room its writes have reserved.
NewMem == [kind |-> "mem", refs |-> 1, live |-> TRUE, obsolete |-> FALSE, file |-> FALSE,
           writers |-> 1, used |-> 0, body |-> [k \in Keys |-> 0]]
NewArr(t) == [kind |-> "arr", refs |-> 1, live |-> TRUE, obsolete |-> FALSE, file |-> TRUE,
              writers |-> 0, used |-> 0, body |-> t]

Tables(rs) == states[rs].mems \o (IF states[rs].arr = 0 THEN <<>> ELSE <<states[rs].arr>>)

\* The state newPlainDB leaves: an empty memtable, and the array table of an earlier
\* life, here with write 1, if there was one.
Init ==
  \E old \in BOOLEAN :
    /\ LET t == OpenArrayTable(WriteFinish(SetAll(<<[key |-> 1, val |-> Val(1)]>>, <<"none">>)))
           mem == [NewMem EXCEPT !.refs = 2] IN
         tabs = IF old THEN <<mem, [NewArr(t) EXCEPT !.refs = 2]>> ELSE <<mem>>
    /\ status = "open" /\ queue = <<1>> /\ arr = IF old THEN 2 ELSE 0
    /\ states = <<[refs |-> 1, mems |-> queue, arr |-> arr]>> /\ val = 1
    /\ mu = Free /\ drops = [a \in Actors |-> <<>>]
    /\ rd = [r \in Readers |-> IdleReader] /\ wr = IdleWriter /\ fl = IdleFlush
    /\ keyOf = <<IF old THEN 1 ELSE 0>>
    /\ latest = [k \in Keys |-> IF old /\ k = 1 THEN 1 ELSE 0]
    /\ damaged = {} /\ orphans = {} /\ calls = [load |-> 0, fault |-> 0]

MayFail == calls.fault < MaxFaults /\ calls.load <= MaxFaultLoads

Mutable == queue[Len(queue)]
Ready == Min({i \in DOMAIN queue : i = Len(queue) \/ tabs[queue[i]].writers > 0}) - 1

-----------------------------------------------------------------------------
(***************************************************************************)
(* References.                                                             *)
(***************************************************************************)

\* readerRef of every table of a read state.
Referenced(ts, ids) == [i \in DOMAIN ts |-> IF i \in ids THEN [ts[i] EXCEPT !.refs = @ + 1]
                                            ELSE ts[i]]

\* mutant: a memtable is freed while one reference is left.
ReaderUnrefEarly(t) ==
  [t EXCEPT !.refs = @ - 1, !.live = @ /\ t.refs > 2, !.file = @ /\ ~(t.refs = 1 /\ t.obsolete)]

\* readerUnref and release: at zero the memory or the mapping goes, and the file of
\* an obsolete array table.
ReaderUnref(t) ==
  [t EXCEPT !.refs = @ - 1, !.live = @ /\ t.refs > 1, !.file = @ /\ ~(t.refs = 1 /\ t.obsolete)]

SetObsolete(t) == [t EXCEPT !.obsolete = TRUE]

\* mutant: the table is marked after its reference is given back.
FlushUnrefFirst(t) == SetObsolete(ReaderUnref(t))

\* flush1: the flushed table is marked while the flush still has a reference.
FlushUnref(t) == ReaderUnref(SetObsolete(t))

\* One pass of a loop over readerUnref, by whoever runs it.
Drop(a) ==
  /\ drops[a] # <<>> /\ (a = "flush" => fl.pc = "release")
  /\ LET t == Head(drops[a]) IN
       tabs' = [tabs EXCEPT ![t] = IF a = "flush" THEN FlushUnref(@) ELSE ReaderUnref(@)]
  /\ drops' = [drops EXCEPT ![a] = Tail(@)]
  /\ UNCHANGED <<status, queue, arr, states, val, mu, rd, wr, fl, latest, keyOf, damaged,
                 orphans, calls>>

\* mutant: a read state keeps no reference to the array table.
RefsOfMems(mems, at) == Range(mems)

\* The tables updateReadState references.
RefsOf(mems, at) == Range(mems) \cup ({at} \ {0})

\* updateReadState up to the swap, with the tables ts, the queue q and the array
\* table at that its caller has just set.
Update(by, ts, q, at) ==
  /\ tabs' = Referenced(ts, RefsOf(q, at))
  /\ states' = Append(states, [refs |-> 1, mems |-> q, arr |-> at])
  /\ queue' = q /\ arr' = at
  /\ mu' = [pc |-> "swap", old |-> val, by |-> by]

\* readState.Lock: the new state replaces the old one.
UpdateSwap ==
  /\ mu.pc = "swap"
  /\ val' = Len(states)
  /\ mu' = [mu EXCEPT !.pc = "unref"]
  /\ UNCHANGED <<status, tabs, queue, arr, states, drops, rd, wr, fl, latest, keyOf, damaged,
                 orphans, calls>>

\* unref of a read state by a: the last one gives the tables back.  What the state
\* listed is forgotten with it.
Unref(s, a) ==
  /\ states' = IF states[s].refs = 1
               THEN [states EXCEPT ![s] = [refs |-> 0, mems |-> <<>>, arr |-> 0]]
               ELSE [states EXCEPT ![s].refs = @ - 1]
  /\ drops' = [drops EXCEPT ![a] = IF states[s].refs = 1 THEN @ \o Tables(s) ELSE @]

UpdateUnref ==
  /\ mu.pc = "unref"
  /\ Unref(mu.old, "mu")
  /\ mu' = [mu EXCEPT !.pc = "end"]
  /\ UNCHANGED <<status, tabs, queue, arr, val, rd, wr, fl, latest, keyOf, damaged, orphans,
                 calls>>

\* The end of the caller: makeRoomForWrite gives up its reference to the memtable it
\* replaced, flush1 leaves mu and starts on the tables it flushed.
UpdateEnd ==
  /\ mu.pc = "end" /\ drops["mu"] = <<>>
  /\ mu' = Free
  /\ IF mu.by = "switch"
       THEN /\ tabs' = [tabs EXCEPT ![queue[Len(queue) - 1]].writers = @ - 1]
            /\ UNCHANGED fl
       ELSE fl' = [fl EXCEPT !.pc = "release"] /\ UNCHANGED tabs
  /\ UNCHANGED <<status, queue, arr, states, val, drops, rd, wr, latest, keyOf, damaged,
                 orphans, calls>>

-----------------------------------------------------------------------------
(***************************************************************************)
(* Readers and the writer.                                                 *)
(***************************************************************************)

\* loadReadState, for a Get or an Iterator.  The client does not call into a DB it
\* is closing; what it has open may stay open.
Load(r) ==
  /\ status = "open" /\ rd[r].rs = 0 /\ drops[r] = <<>>
  /\ calls.load < IF calls.fault = 0 THEN MaxLoads ELSE MaxFaultLoads
  /\ calls' = [calls EXCEPT !.load = @ + 1]
  /\ states' = [states EXCEPT ![val].refs = @ + 1]
  /\ rd' = [rd EXCEPT ![r] = [rs |-> val, floor |-> latest]]
  /\ UNCHANGED <<status, tabs, queue, arr, val, mu, drops, wr, fl, latest, keyOf, damaged,
                 orphans>>

\* The closer Get returns, or Iterator.Close.
CloseReader(r) ==
  /\ rd[r].rs # 0
  /\ Unref(rd[r].rs, r)
  /\ rd' = [rd EXCEPT ![r] = IdleReader]
  /\ UNCHANGED <<status, tabs, queue, arr, val, mu, wr, fl, latest, keyOf, damaged, orphans,
                 calls>>

\* makeRoomForWrite when the batch fits: prepare takes a writer's reference.
Write(k) ==
  /\ status = "open" /\ mu.pc = "free" /\ wr.mem = 0
  /\ Len(keyOf) < MaxWrites /\ tabs[Mutable].used < MemCap
  /\ keyOf' = Append(keyOf, k)
  /\ wr' = [mem |-> Mutable, key |-> k, seq |-> Len(keyOf) + 1]
  /\ tabs' = [tabs EXCEPT ![Mutable].writers = @ + 1, ![Mutable].used = @ + 1]
  /\ UNCHANGED <<status, queue, arr, states, val, mu, drops, rd, fl, latest, damaged, orphans,
                 calls>>

\* makeRoomForWrite when the batch does not fit, or for a manual flush: a new
\* memtable.  A writer may be filling the old one.
SwitchMem ==
  LET new == Len(tabs) + 1 IN
  /\ status = "open" /\ mu.pc = "free" /\ Len(queue) < StopWrites
  /\ \/ tabs[Mutable].used = MemCap
     \/ \E i \in DOMAIN queue : \E k \in Keys : tabs[queue[i]].body[k] # 0
  /\ Cardinality({i \in DOMAIN tabs : tabs[i].kind = "mem"}) <= MaxSwitches
  /\ Update("switch", Append(tabs, NewMem), Append(queue, new), arr)
  /\ UNCHANGED <<status, val, drops, rd, wr, fl, latest, keyOf, damaged, orphans, calls>>

\* memTable.apply and writerUnref.
Apply ==
  /\ wr.mem # 0
  /\ tabs' = [tabs EXCEPT ![wr.mem].body[wr.key] = wr.seq, ![wr.mem].writers = @ - 1]
  /\ latest' = [latest EXCEPT ![wr.key] = wr.seq]
  /\ wr' = IdleWriter
  /\ UNCHANGED <<status, queue, arr, states, val, mu, drops, rd, fl, keyOf, damaged, orphans,
                 calls>>

-----------------------------------------------------------------------------
(***************************************************************************)
(* The flush.                                                              *)
(***************************************************************************)

FlushStart ==
  /\ fl.pc = "none" /\ status = "open" /\ mu.pc = "free" /\ Ready > 0
  /\ fl' = [pc |-> "build", n |-> Ready, new |-> 0]
  /\ UNCHANGED <<status, tabs, queue, arr, states, val, mu, drops, rd, wr, latest, keyOf,
                 damaged, orphans, calls>>

\* What the flush reads: the first n memtables, and the array table.
Flushing == SubSeq(queue, 1, fl.n) \o (IF arr = 0 THEN <<>> ELSE <<arr>>)

\* mutant: the array table is left out.
InputOfMems ==
  LET newest(k) == Max({tabs[queue[i]].body[k] : i \in 1..fl.n})
      keys == Ascending({k \in Keys : newest(k) # 0})
  IN  [i \in DOMAIN keys |-> [key |-> keys[i], val |-> Val(newest(keys[i]))]]

\* newInputIter and compactionIter: each key once, a memtable's value before the
\* array table's.
Input ==
  LET newest(k) == Max({tabs[queue[i]].body[k] : i \in 1..fl.n})
      old == IF arr = 0 THEN <<>> ELSE Items(tabs[arr].body)
      keys == {k \in Keys : newest(k) # 0} \cup {old[i].key : i \in DOMAIN old}
      sorted == Ascending(keys)
      kept(k) == (CHOOSE i \in DOMAIN old : old[i].key = k)
  IN  [i \in DOMAIN sorted |->
         [key |-> sorted[i],
          val |-> IF newest(sorted[i]) # 0 THEN Val(newest(sorted[i]))
                  ELSE old[kept(sorted[i])].val]]

\* The items whose set fails when fault strikes at the i-th: that one, if it comes to
\* the failing step.
SkippedBy(in, i, fault) ==
  {j \in DOMAIN in \cap {i} :
     Refused(SetAll(SubSeq(in, 1, j - 1), [h \in 1..(j - 1) |-> "none"]), 2 + Len(in[j].val), fault)}

\* runFlush, without mu.  At most one step fails: the file or the mapping of one
\* item cannot grow and the item is skipped, which also lengthens the value before
\* it, or writeFinish fails.  A failed or panicking flush leaves its table behind:
\* its return has set atEntry to nil before the deferred function looks at it.  (A
\* newArrayTable that fails leaves an empty file for the next newPlainDB to delete.)
FlushBuild ==
  /\ fl.pc = "build"
  /\ LET in == Input IN
     \E fault \in {<<0, "none">>} \cup ((1..(Len(in) + 1)) \X {"file", "map"}) :
       LET all == SetAll(in, [i \in DOMAIN in |-> IF i = fault[1] THEN fault[2] ELSE "none"])
           done == WriteFinish(all)
           skipped == SkippedBy(in, fault[1], fault[2])
           bad == fault[1] = Len(in) + 1 \/ done.panic
           faulty == bad \/ skipped # {} IN
       /\ faulty \/ fault[1] = 0
       /\ faulty => MayFail
       /\ calls' = [calls EXCEPT !.fault = @ + (IF faulty THEN 1 ELSE 0)]
       /\ tabs' = Append(tabs, NewArr(IF bad THEN all ELSE done))
       /\ orphans' = IF bad THEN orphans \cup {Len(tabs) + 1} ELSE orphans
       /\ damaged' = IF bad THEN damaged
                     ELSE damaged \cup {in[i].key : i \in
                            {j \in DOMAIN in : j \in skipped \/ j + 1 \in skipped}}
       /\ fl' = IF bad THEN IdleFlush ELSE [fl EXCEPT !.pc = "install", !.new = Len(tabs) + 1]
  /\ UNCHANGED <<status, queue, arr, states, val, mu, drops, rd, wr, latest, keyOf>>

\* flush1 under mu: the queue without the flushed memtables and the new array table
\* become the read state; the tables flushed are to be unreferenced afterwards.
FlushInstall ==
  /\ fl.pc = "install" /\ mu.pc = "free"
  /\ Update("flush", tabs, SubSeq(queue, fl.n + 1, Len(queue)), fl.new)
  /\ drops' = [drops EXCEPT !["flush"] = Flushing]
  /\ fl' = [fl EXCEPT !.pc = "update"]
  /\ UNCHANGED <<status, val, rd, wr, latest, keyOf, damaged, orphans, calls>>

\* metadata.apply has failed: the memtables stay, and nobody unreferences the table.
FlushRefused ==
  /\ fl.pc = "install" /\ mu.pc = "free" /\ MayFail
  /\ calls' = [calls EXCEPT !.fault = @ + 1]
  /\ orphans' = orphans \cup {fl.new}
  /\ fl' = IdleFlush
  /\ UNCHANGED <<status, tabs, queue, arr, states, val, mu, drops, rd, wr, latest, keyOf,
                 damaged>>

FlushEnd ==
  /\ fl.pc = "release" /\ drops["flush"] = <<>> /\ mu.pc = "free"
  /\ fl' = IdleFlush
  /\ UNCHANGED <<status, tabs, queue, arr, states, val, mu, drops, rd, wr, latest, keyOf,
                 damaged, orphans, calls>>

-----------------------------------------------------------------------------
(***************************************************************************)
(* plainDB.Close waits for the flush and then gives up the DB's own        *)
(* references, with readers still open.                                    *)
(***************************************************************************)

Close ==
  /\ status = "open" /\ mu.pc = "free" /\ wr.mem = 0 /\ fl.pc = "none"
  /\ status' = "closing"
  /\ Unref(val, "close")
  /\ UNCHANGED <<tabs, queue, arr, val, mu, rd, wr, fl, latest, keyOf, damaged, orphans, calls>>

\* The loop over the queue, and arrtable.
CloseQueue ==
  /\ status = "closing" /\ drops["close"] = <<>>
  /\ status' = "closed"
  /\ drops' = [drops EXCEPT !["close"] = queue \o (IF arr = 0 THEN <<>> ELSE <<arr>>)]
  /\ queue' = <<>> /\ arr' = 0
  /\ UNCHANGED <<tabs, states, val, mu, rd, wr, fl, latest, keyOf, damaged, orphans, calls>>

Next ==
  \/ \E a \in Actors : Drop(a)
  \/ UpdateSwap \/ UpdateUnref \/ UpdateEnd
  \/ \E r \in Readers : Load(r) \/ CloseReader(r)
  \/ \E k \in Keys : Write(k)
  \/ SwitchMem \/ Apply
  \/ FlushStart \/ FlushBuild \/ FlushInstall \/ FlushRefused \/ FlushEnd
  \/ Close \/ CloseQueue

Spec == Init /\ [][Next]_vars

-----------------------------------------------------------------------------
(***************************************************************************)
(* Properties.                                                             *)
(***************************************************************************)

InUse(s) == states[s].refs > 0
Lists(s) == Range(Tables(s))

\* Nothing is used after it is freed: what a reader's state lists (plainDB.Get and
\* the iterators), what the flush iterates over, and the memtable a writer fills keep
\* their memory, and the array tables among them their file, whatever is flushed,
\* switched or closed meanwhile.
UsedIsLive ==
  LET used == (UNION {Lists(rd[r].rs) : r \in {x \in Readers : rd[x].rs # 0}})
              \cup (IF fl.pc \in {"build", "install"} THEN Range(Flushing) ELSE {})
              \cup ({wr.mem, fl.new} \ {0})
  IN  \A t \in used : tabs[t].live /\ (tabs[t].kind = "arr" => tabs[t].file)

\* Each table's readerRefs is what its owners add up to: the queue or arrtable, the
\* read states in use that list it, and the readerUnrefs still to come.
RefsExact ==
  \A t \in DOMAIN tabs :
    tabs[t].refs = Cardinality({i \in DOMAIN queue : queue[i] = t})
                   + (IF t \in {arr, fl.new} \cup orphans THEN 1 ELSE 0)
                   + Cardinality({s \in DOMAIN states : InUse(s) /\ t \in Lists(s)})
                   + Cardinality(UNION {{a} \X {i \in DOMAIN drops[a] : drops[a][i] = t} : a \in Actors})

\* When no goroutine is at work and no reader is open, the memory and the files that
\* are left are those of the queue and of arrtable, and after Close only arrtable's
\* file; a flush that failed has left its own.
NothingLeft ==
  ((\A r \in Readers : rd[r].rs = 0) /\ (\A a \in Actors : drops[a] = <<>>)
     /\ mu.pc = "free" /\ fl.pc = "none" /\ status # "closing") =>
    /\ {t \in DOMAIN tabs : tabs[t].live} = Range(queue) \cup ({arr} \ {0}) \cup orphans
    /\ {t \in DOMAIN tabs : tabs[t].file /\ tabs[t].obsolete} = {}
    /\ Cardinality({t \in DOMAIN tabs \ orphans : tabs[t].file}) <= 1

\* What plainDB.Get finds for a key in a read state.
Lookup(s, k) ==
  LET hits == {i \in DOMAIN states[s].mems : tabs[states[s].mems[i]].body[k] # 0} IN
  IF hits # {} THEN [found |-> TRUE, val |-> Val(tabs[states[s].mems[Max(hits)]].body[k])]
  ELSE IF states[s].arr # 0 THEN AtGet(tabs[states[s].arr].body, k)
  ELSE [found |-> FALSE, val |-> <<>>]

\* A reader finds, as long as its state is open, the value of the newest write that
\* was applied before it loaded the state, or of a later one: no switch, flush or
\* array-table layout hides it.  Keys whose item a flush could not write are lost.
ReadsBack ==
  \A r \in Readers : rd[r].rs # 0 =>
    \A k \in Keys \ damaged : rd[r].floor[k] # 0 =>
      LET got == Lookup(rd[r].rs, k) IN
      got.found /\ \E s \in rd[r].floor[k]..Len(keyOf) : keyOf[s] = k /\ got.val = Val(s)

\* No access to an array table leaves its mapping or its file, at whatever size file
\* and mapping are grown, failed growth included; only a table whose size has passed
\* the 32 bits of its offset panics.
PanicsOnlyAtLimit ==
  \A t \in DOMAIN tabs : tabs[t].kind = "arr" /\ tabs[t].body.panic => tabs[t].body.over

\* An array table that a flush has installed is on disk to its last word before the
\* logs behind it are deleted, whatever the mapping's pages do later: fileTruncate
\* syncs it.  Not so when its size needs no cut.
InstalledSynced ==
  arr # 0 => LET t == tabs[arr].body IN
             t.synced \/ t.off = CalcExpandSize(t.off)
=============================================================================
