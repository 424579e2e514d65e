------------------------- MODULE PlainDurableProofs -------------------------
(***************************************************************************)
(* What PlainDB promises about kills and closes: what has to survive is on *)
(* disk (Durable), is there when the database is open again (ReopenReads), *)
(* and no log goes that recovery would read (LogsKept).  DInv is the third *)
(* invariant, on top of those of PlainDBProofs.                            *)
(*                                                                         *)
(* This needs file numbers that are used once.  The flush takes its number *)
(* without the lock and may set the next one back (undone): DInv holds     *)
(* until then, and with up to three memtables that never happens.          *)
(***************************************************************************)
EXTENDS PlainDBProofs

\* FlushBuild's store does not undo one of makeRoomForWrite.
NumbersKept == FlushBuild => nextFileNum' >= nextFileNum

Up == status \in {"recovered", "open", "closing"}

\* The log of a table: a large batch has taken over that of the table before it.
LogOf(i) == IF queue[i].log # 0 THEN queue[i].log ELSE queue[i + 1].log

\* A record of write s of key k.
IsOf(r, k, s) == r.key = k /\ r.seq = s

Recyclers == [logs : Seq(Nat), max : Nat, min : Nat]

\* The types QInv leaves out.
KindInv ==
  /\ place \in [Clients -> Nat \X Nat] /\ synced \in Nat /\ floor \in Data
  /\ recycler \in Recyclers
  /\ \A t \in trash : t[1] = "log" => t[2] \in Nat
  /\ \E b \in Nat : \A f \in DOMAIN logs : f >= meta.min =>
       \A p \in DOMAIN logs[f] : logs[f][p].seq <= b

\* The current log has the highest number, the mutable memtable's, and the next one
\* a higher one still.
FilesInv ==
  /\ Up <=> logQueue # <<>>
  /\ Up => /\ CurLog < nextFileNum /\ meta.min <= CurLog
           /\ \A f \in DOMAIN logs : f <= CurLog
  /\ Live => /\ CurLog \in DOMAIN logs /\ synced <= Len(logs[CurLog])
             /\ Mutable.log = CurLog
  /\ status = "recovered" => meta.min = CurLog /\ \A f \in DOMAIN logs : f < CurLog
  /\ ~Live => synced = 0
  /\ \A i \in DOMAIN logQueue : logQueue[i] > 0
  /\ \A c \in Clients : pc[c] = "switch" => op[c].new > CurLog /\ op[c].new < nextFileNum

\* What is deleted or recycled is below the logs recovery reads.
GoneInv ==
  /\ \A t \in trash : t[1] = "log" => t[2] < meta.min
  /\ \A i \in DOMAIN recycler.logs : recycler.logs[i] < meta.min
  /\ flushPc = "delete" => \A f \in fl.logs : 0 < f /\ f < meta.min
  /\ ~Live => recycler.logs = <<>>

\* Later logs have later writes.
SeriesInv ==
  \A f, g \in DOMAIN logs : meta.min <= f /\ f < g =>
    \A i \in DOMAIN logs[f], j \in DOMAIN logs[g] : logs[f][i].seq < logs[g][j].seq

\* A log that has a key has a write of it as new as table a's: replaying the log does
\* not bring an older value back.
NotBehind(f, a) ==
  \A i \in DOMAIN logs[f] : \E j \in DOMAIN logs[f] :
    logs[f][j].key = logs[f][i].key /\ a[logs[f][i].key] <= logs[f][j].seq

StaleInv ==
  /\ \A f \in DOMAIN logs : f >= meta.min => NotBehind(f, At(meta.at))
  /\ status = "replay" => \A f \in pending : NotBehind(f, At(arr))
  /\ Up => \A f \in DOMAIN logs : f >= meta.min => NotBehind(f, At(arr))
  /\ Live => \A i \in DOMAIN logs[CurLog] :
               At(arr)[logs[CurLog][i].key] <= logs[CurLog][i].seq

\* The array table in use is there, and the recorded one is it or an older one.
ArrInv ==
  /\ arr # 0 => arr \in DOMAIN ats
  /\ status # "closed" => \A k \in Keys : At(meta.at)[k] <= At(arr)[k]
  /\ status # "closed" /\ lapse = {} => arr = meta.at \/ (arr = 0 /\ meta.at \notin DOMAIN ats)

\* What a table holds is in its log, and logs come in the order of the tables.
LoggedInv ==
  \A i \in DOMAIN queue :
    /\ queue[i].log = 0 => i < Len(queue) /\ queue[i + 1].mem = 0 /\ queue[i + 1].log # 0
    /\ LogOf(i) \in DOMAIN logs /\ LogOf(i) >= meta.min
    /\ i < Len(queue) => LogOf(i) < CurLog
    /\ \A j \in DOMAIN queue : i < j => LogOf(i) <= LogOf(j)
    /\ \A k \in Keys : queue[i].data[k] # 0 =>
         \E p \in DOMAIN logs[LogOf(i)] : IsOf(logs[LogOf(i)][p], k, queue[i].data[k])

\* Who has logged a large batch that is not in the queue yet.
Logging(c) == Making(c) /\ op[c].kind = "large"

\* What recovery would read is in the tables, or in the hands of a client.
HeldBy(f, r) ==
  \/ r.seq <= At(arr)[r.key]
  \/ \E i \in DOMAIN queue : LogOf(i) = f /\ queue[i].data[r.key] >= r.seq
  \/ \E c \in Clients : /\ pc[c] = "apply" /\ IsOf(r, op[c].key, op[c].seq)
                        /\ \E i \in DOMAIN queue : queue[i].mem = op[c].mem /\ LogOf(i) = f
  \/ \E c \in Clients : Logging(c) /\ IsOf(r, op[c].key, op[c].seq) /\ f = CurLog
KeptInv ==
  Live => \A f \in DOMAIN logs : f >= meta.min => \A p \in DOMAIN logs[f] : HeldBy(f, logs[f][p])

\* The write of client c is at place p of log f, where the client waits for it.
Written(c, f, p) ==
  /\ p \in DOMAIN logs[f] /\ IsOf(logs[f][p], op[c].key, op[c].seq)
  /\ f = CurLog /\ op[c].sync => place[c] = <<f, p>>

\* A write on its way is in the log of its memtable, and one that is about to be
\* acknowledged is applied, and still in a log or already in the array table.
AckInv ==
  \A c \in Clients :
    /\ pc[c] = "apply" => \A i \in DOMAIN queue : queue[i].mem = op[c].mem =>
                            \E p \in DOMAIN logs[LogOf(i)] : Written(c, LogOf(i), p)
    /\ pc[c] = "ack" =>
         /\ op[c].key \in Keys /\ op[c].seq <= latest[op[c].key]
         /\ \/ op[c].seq <= At(arr)[op[c].key]
            \/ \E f \in DOMAIN logs : f >= meta.min /\ \E p \in DOMAIN logs[f] : Written(c, f, p)
    /\ Logging(c) =>
         \E p \in DOMAIN logs[CurLog] : IsOf(logs[CurLog][p], op[c].key, op[c].seq)

\* A write of key k not older than s is in a log recovery reads, and synced.
OnDisk(k, s) ==
  \E f \in DOMAIN logs : f >= meta.min /\ \E p \in DOMAIN logs[f] :
    logs[f][p].key = k /\ logs[f][p].seq >= s /\ (Live /\ f = CurLog => p <= synced)

\* What has to survive is in the array table or can be recovered.
FloorInv ==
  /\ Up => \A k \in Keys : floor[k] <= At(arr)[k] \/ OnDisk(k, floor[k])
  /\ status = "replay" => \A k \in Keys :
       \/ floor[k] <= At(arr)[k]
       \/ \E f \in pending : \E i \in DOMAIN logs[f] : logs[f][i].key = k /\ logs[f][i].seq >= floor[k]
  /\ status = "closed" /\ lapse = {} =>
       \A k \in Keys : floor[k] <= At(meta.at)[k] \/ OnDisk(k, floor[k])
  /\ Live => \A k \in Keys : floor[k] <= latest[k]
  /\ status = "closed" => trash = {}

\* A flush records the log of the first table it leaves, and succeeds in it.
TakenInv ==
  /\ flushPc \in {"number", "build", "install"} => fl.min = LogOf(fl.n + 1)
  /\ flushPc \in {"delete", "release"} => fl.ok

DInv == /\ RInv /\ KindInv /\ FilesInv /\ GoneInv /\ SeriesInv /\ StaleInv /\ ArrInv /\ LoggedInv
        /\ KeptInv /\ AckInv /\ FloorInv /\ TakenInv
-----------------------------------------------------------------------------

\* The types of logs and records.
LEMMA LogTypes ==
  ASSUME QInv
  PROVE  \A f \in DOMAIN logs :
           /\ f \in Nat /\ logs[f] \in Seq(Record) /\ Len(logs[f]) \in Nat
           /\ DOMAIN logs[f] = 1..Len(logs[f])
           /\ \A p \in DOMAIN logs[f] : /\ logs[f][p] \in Record /\ logs[f][p].key \in Keys
                                        /\ logs[f][p].seq \in Nat
<1>1. \A f \in DOMAIN logs : f \in Nat /\ logs[f] \in Seq(Record)
  BY DEF QInv, DiskInv, Bounded
<1>2. \A f \in DOMAIN logs : Len(logs[f]) \in Nat /\ DOMAIN logs[f] = 1..Len(logs[f])
  BY <1>1
<1>3. \A f \in DOMAIN logs : \A p \in DOMAIN logs[f] : logs[f][p] \in Record
  BY <1>1
<1> QED BY <1>1, <1>2, <1>3 DEF Record

\* The current log has a number.
LEMMA CurFact ==
  ASSUME TypeInv, logQueue # <<>>
  PROVE  CurLog \in Nat /\ Len(logQueue) \in Nat /\ Len(logQueue) > 0
         /\ CurLog = logQueue[Len(logQueue)]
BY DEF TypeInv, CurLog

\* Steps that leave the queue and the logs recovery reads as they are.
Quiet == \/ FlushStart \/ FlushNumber \/ FlushBuild \/ FlushDelete \/ FlushEnd
         \/ SyncLog \/ Close \/ DeleteFile \/ UNCHANGED vars
         \/ \E c \in Clients : \/ Flush(c) \/ SwitchLog(c) \/ Ack(c)
                              \/ \E k \in Keys : Set(c, k) /\ op'[c].kind = "small"

\* What clients have in hand stays the same, but for who is done.
SameHands ==
  \A d \in Clients :
    /\ pc'[d] \in {"apply", "ack"} => pc'[d] = pc[d] /\ op'[d] = op[d] /\ place'[d] = place[d]
    /\ pc[d] = "apply" => pc'[d] = "apply"
    /\ Logging(d)' => Logging(d)
    /\ Logging(d) => Logging(d)' /\ op'[d].key = op[d].key /\ op'[d].seq = op[d].seq

\* One client moves on; what the others hold is the same.
LEMMA OthersSame ==
  ASSUME QInv, NEW c \in Clients,
         \A d \in Clients : d # c => pc'[d] = pc[d] /\ op'[d] = op[d] /\ place'[d] = place[d],
         pc[c] # "apply", pc'[c] \notin {"apply", "ack"},
         Logging(c)' <=> Logging(c),
         Logging(c) => op'[c].key = op[c].key /\ op'[c].seq = op[c].seq
  PROVE  SameHands
BY DEF SameHands, Logging, Making

\* A quiet step's clients.
LEMMA QuietHands ==
  ASSUME DInv, Quiet
  PROVE  SameHands
<1>a. pc \in [Clients -> ClientPcs] /\ op \in [Clients -> Op] /\ place \in [Clients -> Nat \X Nat]
  BY DEF DInv, RInv, QInv, TypeInv, KindInv
<1>b. QInv
  BY DEF DInv, RInv
<1>1. CASE UNCHANGED <<pc, op, place>>
  BY <1>1 DEF SameHands, Logging, Making
<1>2. CASE FlushEnd
  <2>1. /\ \A d \in Clients : \/ pc'[d] = pc[d] /\ op'[d] = op[d]
                              \/ pc[d] = "flushing" /\ pc'[d] = "idle"
        /\ place' = place
    BY <1>2, <1>a DEF FlushEnd
  <2> QED BY <2>1 DEF SameHands, Logging, Making
<1>3. ASSUME NEW c \in Clients, Flush(c) PROVE SameHands
  <2>1. /\ \A d \in Clients : d # c => pc'[d] = pc[d] /\ op'[d] = op[d] /\ place'[d] = place[d]
        /\ pc[c] = "idle" /\ pc'[c] = "room" /\ op'[c].kind = "flush"
    BY <1>3, <1>a DEF Flush, NoOp
  <2> QED BY <1>b, <2>1, OthersSame DEF Logging, Making
<1>4. ASSUME NEW c \in Clients, SwitchLog(c) PROVE SameHands
  <2>1. /\ \A d \in Clients : d # c => pc'[d] = pc[d] /\ op'[d] = op[d] /\ place'[d] = place[d]
        /\ pc[c] = "room" /\ pc'[c] = "switch" /\ op'[c].kind = op[c].kind
        /\ op'[c].key = op[c].key /\ op'[c].seq = op[c].seq
    BY <1>4, <1>a DEF SwitchLog, Op
  <2> QED BY <1>b, <2>1, OthersSame DEF Logging, Making
<1>5. ASSUME NEW c \in Clients, Ack(c) PROVE SameHands
  <2>1. /\ \A d \in Clients : d # c => pc'[d] = pc[d] /\ op'[d] = op[d] /\ place'[d] = place[d]
        /\ pc[c] = "ack" /\ pc'[c] = "idle"
    BY <1>5, <1>a DEF Ack
  <2> QED BY <1>b, <2>1, OthersSame DEF Logging, Making
<1>6. ASSUME NEW c \in Clients, NEW k \in Keys, Set(c, k), op'[c].kind = "small" PROVE SameHands
  <2>1. /\ \A d \in Clients : d # c => pc'[d] = pc[d] /\ op'[d] = op[d] /\ place'[d] = place[d]
        /\ pc[c] = "idle" /\ pc'[c] = "room"
    BY <1>6, <1>a DEF Set
  <2> QED BY <1>b, <1>6, <2>1, OthersSame DEF Logging, Making
<1> QED
  BY <1>1, <1>2, <1>3, <1>4, <1>5, <1>6 DEF Quiet, vars, clientVars, FlushStart, FlushNumber,
     FlushBuild, FlushDelete, SyncLog, Close, DeleteFile

\* Its state: the queue, the metadata and the logs recovery reads are the same, the
\* array table in use too, and no more of the current log is unsynced.
LEMMA QuietFact ==
  ASSUME DInv, Quiet
  PROVE  /\ UNCHANGED <<meta, logQueue, queue, arr, latest, pending>>
         /\ At(arr)' = At(arr)
         /\ status' = status \/ (status = "open" /\ status' = "closing")
         /\ \A f \in DOMAIN logs' : f \in DOMAIN logs /\ logs'[f] = logs[f]
         /\ \A f \in DOMAIN logs : f >= meta.min => f \in DOMAIN logs'
         /\ synced \in Nat /\ synced' \in Nat /\ synced <= synced'
         /\ Live => synced' <= Len(logs[CurLog])
<1> USE DEF DInv
<1>0. QInv /\ NumInv /\ TrashInv
  BY DEF RInv
<1>1. UNCHANGED <<meta, logQueue, queue, arr, latest, pending>>
  BY DEF Quiet, vars, diskVars, logVars, histVars, FlushStart, FlushNumber, FlushBuild, FlushDelete,
     FlushEnd, SyncLog, Close, DeleteFile, Flush, SwitchLog, Ack, Set
<1>2. At(arr)' = At(arr)
  <2>1. CASE FlushBuild \/ DeleteFile
    BY <1>0, <2>1, AtSame
  <2>2. CASE ~FlushBuild /\ ~DeleteFile
    <3>1. UNCHANGED <<ats, arr>>
      BY <2>2 DEF Quiet, vars, diskVars, FlushStart, FlushNumber, FlushDelete, FlushEnd, SyncLog, Close,
         Flush, SwitchLog, Ack, Set
    <3> QED BY <1>0, <3>1, AtSame
  <2> QED BY <2>1, <2>2
<1>3. status' = status \/ (status = "open" /\ status' = "closing")
  BY DEF Quiet, vars, FlushStart, FlushNumber, FlushBuild, FlushDelete,
     FlushEnd, SyncLog, Close, DeleteFile, Flush, SwitchLog, Ack, Set
<1>4. \A f \in DOMAIN logs : f \in Nat /\ Len(logs[f]) \in Nat
  BY <1>0, LogTypes
<1>5. /\ \A f \in DOMAIN logs' : f \in DOMAIN logs /\ logs'[f] = logs[f]
      /\ \A f \in DOMAIN logs : f >= meta.min => f \in DOMAIN logs'
  <2>1. CASE DeleteFile
    <3>1. PICK t \in trash : logs' = IF t[1] = "log" THEN Drop(logs, {t[2]}) ELSE logs
      BY <2>1 DEF DeleteFile
    <3>2. t[1] = "log" => t[2] \in Nat /\ t[2] < meta.min
      BY DEF KindInv, GoneInv
    <3>3. meta.min \in Nat
      BY <1>0, NumTypes
    <3>4. t[1] = "log" => \A f \in DOMAIN logs : f >= meta.min => f # t[2]
      BY <1>4, <3>2, <3>3
    <3> QED BY <3>1, <3>4 DEF Drop
  <2>2. CASE ~DeleteFile
    <3>1. \/ UNCHANGED logs
          \/ \E c \in Clients, k \in Keys : Set(c, k) /\ op'[c].kind = "small"
      BY <2>2 DEF Quiet, vars, diskVars, FlushStart, FlushNumber, FlushBuild, FlushDelete,
         FlushEnd, SyncLog, Close, Flush, SwitchLog, Ack
    <3>2. ASSUME NEW c \in Clients, NEW k \in Keys, Set(c, k), op'[c].kind = "small"
          PROVE  logs' = logs
      <4>1. op \in [Clients -> Op]
        BY <1>0 DEF QInv, TypeInv
      <4>2. PICK large \in {FALSE, LargeBatches}, sync \in BOOLEAN :
              /\ op' = [op EXCEPT ![c] = [NoOp EXCEPT
                    !.kind = IF large THEN "large" ELSE "small", !.key = k,
                    !.seq = logSeqNum, !.sync = sync]]
              /\ ~large => logs' = logs
        BY <3>2 DEF Set
      <4>3. op'[c].kind = IF large THEN "large" ELSE "small"
        BY <4>1, <4>2 DEF NoOp
      <4> QED BY <3>2, <4>2, <4>3
    <3> QED BY <3>1, <3>2
  <2> QED BY <2>1, <2>2
<1>6. synced \in Nat /\ (Live => CurLog \in DOMAIN logs /\ synced <= Len(logs[CurLog]))
  BY DEF KindInv, FilesInv
<1>7. \/ synced' = synced
      \/ Live /\ synced' = Len(logs[CurLog])
  <2>1. \A c \in Clients : pc[c] = "room" => status = "open"
    BY <1>0, BusyFact
  <2> QED BY <2>1 DEF Quiet, vars, logVars, FlushStart, FlushNumber, FlushBuild, FlushDelete,
     FlushEnd, SyncLog, Close, DeleteFile, Flush, SwitchLog, Ack, Set, Live
<1>8. synced' \in Nat /\ synced <= synced' /\ (Live => synced' <= Len(logs[CurLog]))
  BY <1>4, <1>6, <1>7
<1> QED
  BY <1>1, <1>2, <1>3, <1>5, <1>6, <1>8

\* The current log has one more record, newer than all that recovery would read.
Appended(r) ==
  /\ r \in Record /\ CurLog \in DOMAIN logs /\ DOMAIN logs' = DOMAIN logs
  /\ \A f \in DOMAIN logs : f # CurLog => logs'[f] = logs[f]
  /\ DOMAIN logs'[CurLog] = 1..(Len(logs[CurLog]) + 1)
  /\ logs'[CurLog][Len(logs[CurLog]) + 1] = r
  /\ \A p \in DOMAIN logs[CurLog] : p \in DOMAIN logs'[CurLog] /\ logs'[CurLog][p] = logs[CurLog][p]
  /\ \A p \in DOMAIN logs'[CurLog] : p \in DOMAIN logs[CurLog] \/ p = Len(logs[CurLog]) + 1
  /\ \A f \in DOMAIN logs : f >= meta.min => \A p \in DOMAIN logs[f] : logs[f][p].seq < r.seq
  /\ At(arr)[r.key] < r.seq

\* A log with a record more.
LEMMA AppendShape ==
  ASSUME DInv, status = "open", NEW r \in Record,
         logs' = [logs EXCEPT ![CurLog] = Append(logs[CurLog], r)],
         \A f \in DOMAIN logs : f >= meta.min => \A p \in DOMAIN logs[f] : logs[f][p].seq < r.seq,
         At(arr)[r.key] < r.seq
  PROVE  Appended(r)
<1>1. CurLog \in DOMAIN logs
  BY DEF DInv, FilesInv, Live
<1>2. logs[CurLog] \in Seq(Record)
  BY <1>1, LogTypes DEF DInv, RInv
<1>3. /\ DOMAIN logs' = DOMAIN logs /\ logs'[CurLog] = Append(logs[CurLog], r)
      /\ \A f \in DOMAIN logs : f # CurLog => logs'[f] = logs[f]
  BY <1>1
<1> DEFINE s == logs[CurLog]
           t == Append(s, r)
<1>4. /\ Len(s) \in Nat /\ DOMAIN s = 1..Len(s) /\ DOMAIN t = 1..(Len(s) + 1)
      /\ t[Len(s) + 1] = r /\ \A p \in 1..Len(s) : t[p] = s[p]
  BY <1>2
<1> HIDE DEF s, t
<1>5. /\ \A p \in DOMAIN s : p \in DOMAIN t /\ t[p] = s[p]
      /\ \A p \in DOMAIN t : p \in DOMAIN s \/ p = Len(s) + 1
  BY <1>4
<1> QED BY <1>1, <1>3, <1>4, <1>5 DEF Appended, s, t

\* commitWrite logs a large batch before it makes room for it,
LEMMA SetLarge ==
  ASSUME DInv, NEW c \in Clients, NEW k \in Keys, Set(c, k), op'[c].kind # "small"
  PROVE  /\ \E r \in Record : Appended(r) /\ r.key = op'[c].key /\ r.seq = op'[c].seq
         /\ status = "open" /\ pc[c] = "idle" /\ Logging(c)' /\ ~Logging(c)
         /\ \A d \in Clients : ~(Making(d))
         /\ UNCHANGED <<meta, logQueue, queue, arr, ats, latest, pending, synced, status, floor, lapse,
                        place, trash, recycler, flushPc, fl, nextFileNum>>
         /\ \A d \in Clients : d # c => pc'[d] = pc[d] /\ op'[d] = op[d]
         /\ pc'[c] = "room"
<1> USE DEF DInv
<1>1. op \in [Clients -> Op] /\ pc \in [Clients -> ClientPcs] /\ QInv
  BY DEF RInv, QInv, TypeInv
<1>2. PICK large \in {FALSE, LargeBatches}, sync \in BOOLEAN :
        /\ op' = [op EXCEPT ![c] = [NoOp EXCEPT
                    !.kind = IF large THEN "large" ELSE "small", !.key = k,
                    !.seq = logSeqNum, !.sync = sync]]
        /\ logs' = IF large THEN [logs EXCEPT ![CurLog] = Append(@, [key |-> k, seq |-> logSeqNum, large |-> TRUE])]
                            ELSE logs
  BY DEF Set
<1>3. op'[c].kind = (IF large THEN "large" ELSE "small") /\ op'[c].key = k /\ op'[c].seq = logSeqNum
  BY <1>1, <1>2 DEF NoOp
<1>4. op'[c].kind = "large" /\ large
  BY <1>3
<1> DEFINE r == [key |-> k, seq |-> logSeqNum, large |-> TRUE]
<1>5. r \in Record /\ r.key = k /\ r.seq = logSeqNum
  BY <1>1, NumTypes DEF Record
<1>6. status = "open" /\ logs' = [logs EXCEPT ![CurLog] = Append(logs[CurLog], r)]
  BY <1>2, <1>4 DEF Set
<1> HIDE DEF r
<1>7. \A f \in DOMAIN logs : f >= meta.min => \A p \in DOMAIN logs[f] : logs[f][p].seq < r.seq
  BY <1>5, <1>6 DEF RInv, LogInv
<1>8. At(arr)[r.key] < r.seq
  BY <1>5 DEF RInv, OrderInv
<1>9. Appended(r)
  BY <1>5, <1>6, <1>7, <1>8, AppendShape
<1>10. pc[c] = "idle" /\ pc' = [pc EXCEPT ![c] = "room"] /\ commitMu = NONE
  BY DEF Set
<1>11. \A d \in Clients : ~Making(d)
  BY <1>1, <1>10, ClientsAssumption DEF Making, QInv, ModeInv
<1>12. pc'[c] = "room" /\ \A d \in Clients : d # c => pc'[d] = pc[d] /\ op'[d] = op[d]
  BY <1>1, <1>2, <1>10
<1>13. Logging(c)' /\ ~Logging(c)
  BY <1>4, <1>11, <1>12 DEF Logging, Making
<1>14. UNCHANGED <<meta, logQueue, queue, arr, ats, latest, pending, synced, status, floor, lapse,
                   place, trash, recycler, flushPc, fl, nextFileNum>>
  BY DEF Set, logVars, flushVars, histVars
<1> QED BY <1>3, <1>5, <1>6, <1>9, <1>10, <1>11, <1>12, <1>13, <1>14

\* and a small one when prepare has found room for it.
LEMMA PrepareLogs ==
  ASSUME DInv, NEW c \in Clients, Prepare(c)
  PROVE  /\ \E r \in Record : Appended(r) /\ r.key = op[c].key /\ r.seq = op[c].seq
         /\ status = "open" /\ pc[c] = "room" /\ op[c].kind = "small" /\ pc'[c] = "apply"
         /\ op'[c].key = op[c].key /\ op'[c].seq = op[c].seq /\ op'[c].sync = op[c].sync
         /\ op'[c].mem = queue[Len(queue)].mem
         /\ op[c].sync => place'[c] = <<CurLog, Len(logs[CurLog]) + 1>>
         /\ \A d \in Clients : ~Logging(d) /\ ~(Making(d)')
         /\ UNCHANGED <<meta, logQueue, arr, ats, latest, pending, synced, status, floor, lapse,
                        trash, recycler, flushPc, fl, nextFileNum>>
         /\ \A d \in Clients : d # c => pc'[d] = pc[d] /\ op'[d] = op[d] /\ place'[d] = place[d]
         /\ queue # <<>> /\ DOMAIN queue' = DOMAIN queue /\ Len(queue') = Len(queue)
         /\ \A i \in DOMAIN queue : /\ queue'[i].log = queue[i].log /\ queue'[i].mem = queue[i].mem
                                    /\ queue'[i].data = queue[i].data
<1> USE DEF DInv
<1>1. /\ op \in [Clients -> Op] /\ pc \in [Clients -> ClientPcs] /\ QInv
      /\ place \in [Clients -> Nat \X Nat]
  BY DEF RInv, QInv, TypeInv, KindInv
<1>2. pc[c] = "room" /\ op[c].kind = "small" /\ status = "open" /\ queue # <<>>
  BY <1>1, BusyFact DEF Prepare
<1> DEFINE r == [key |-> op[c].key, seq |-> op[c].seq, large |-> FALSE]
<1>3. r \in Record /\ r.key = op[c].key /\ r.seq = op[c].seq
  BY <1>1, <1>2 DEF Record, QInv, OpInv, Op
<1>4. logs' = [logs EXCEPT ![CurLog] = Append(logs[CurLog], r)]
  BY DEF Prepare
<1> HIDE DEF r
<1>5. Making(c)
  BY <1>2 DEF Making
<1>6. \A f \in DOMAIN logs : f >= meta.min => \A p \in DOMAIN logs[f] : logs[f][p].seq < r.seq
  BY <1>2, <1>3, <1>5 DEF RInv, LogInv
<1>7. At(arr)[r.key] < r.seq
  BY <1>3, <1>5 DEF RInv, HolderInv, Record
<1>8. Appended(r)
  BY <1>2, <1>3, <1>4, <1>6, <1>7, AppendShape
<1>9. /\ pc' = [pc EXCEPT ![c] = "apply"] /\ op' = [op EXCEPT ![c].mem = queue[Len(queue)].mem]
      /\ place' = IF op[c].sync THEN [place EXCEPT ![c] = <<CurLog, Len(logs[CurLog]) + 1>>]
                            ELSE place
  BY DEF Prepare, Mutable
<1>10. /\ pc'[c] = "apply" /\ op'[c].key = op[c].key /\ op'[c].seq = op[c].seq
       /\ op'[c].sync = op[c].sync /\ op'[c].mem = queue[Len(queue)].mem
  BY <1>1, <1>9 DEF Op
<1>11. op[c].sync => place'[c] = <<CurLog, Len(logs[CurLog]) + 1>>
  BY <1>1, <1>9
<1>12. \A d \in Clients : d # c => pc'[d] = pc[d] /\ op'[d] = op[d] /\ place'[d] = place[d]
  BY <1>1, <1>9
<1>13. \A d \in Clients : d # c => ~Making(d)
  BY <1>1, <1>2, OneMaker
<1>14. \A d \in Clients : ~Logging(d) /\ ~(Making(d)')
  BY <1>2, <1>10, <1>12, <1>13 DEF Logging, Making
<1>15. UNCHANGED <<meta, logQueue, arr, ats, latest, pending, synced, status, floor, lapse,
                   trash, recycler, flushPc, fl, nextFileNum>>
  BY DEF Prepare, logVars, flushVars, histVars
<1>16. /\ DOMAIN queue' = DOMAIN queue /\ Len(queue') = Len(queue)
       /\ \A i \in DOMAIN queue : /\ queue'[i].log = queue[i].log /\ queue'[i].mem = queue[i].mem
                                  /\ queue'[i].data = queue[i].data
  <2>1. TypeInv
    BY <1>1 DEF QInv
  <2>2. /\ queue' \in Seq(Table) /\ Len(queue') = Len(queue)
        /\ \A i \in 1..Len(queue) :
              /\ queue'[i].mem = queue[i].mem /\ queue'[i].log = queue[i].log
              /\ queue'[i].data = queue[i].data
    BY <1>2, <2>1, PrepareShape
  <2>3. queue \in Seq(Table)
    BY <2>1 DEF TypeInv
  <2> QED BY <2>2, <2>3
<1> QED BY <1>2, <1>3, <1>8, <1>10, <1>11, <1>12, <1>14, <1>15, <1>16

\* Every table has a log, the mutable memtable the current one.
LEMMA LogOfFact ==
  ASSUME DInv, Live
  PROVE  /\ queue # <<>> /\ Len(queue) \in Nat /\ Len(queue) > 0 /\ DOMAIN queue = 1..Len(queue)
         /\ CurLog \in Nat /\ CurLog > 0 /\ CurLog \in DOMAIN logs
         /\ queue[Len(queue)].log = CurLog /\ LogOf(Len(queue)) = CurLog
         /\ \A i \in DOMAIN queue : /\ queue[i].log \in Nat
                                    /\ LogOf(i) \in Nat /\ LogOf(i) \in DOMAIN logs
                                    /\ meta.min <= LogOf(i) /\ LogOf(i) <= CurLog
<1>1. TypeInv /\ ModeInv /\ QInv
  BY DEF DInv, RInv, QInv
<1>2. queue # <<>>
  BY <1>1 DEF ModeInv
<1>3. /\ Mutable = queue[Len(queue)] /\ Len(queue) \in Nat /\ Len(queue) > 0 /\ DOMAIN queue = 1..Len(queue)
  BY <1>1, <1>2, MutableFact
<1>4. logQueue # <<>> /\ Mutable.log = CurLog /\ CurLog \in DOMAIN logs
  BY DEF DInv, FilesInv, Live, Up
<1>5. CurLog \in Nat /\ Len(logQueue) \in DOMAIN logQueue /\ CurLog = logQueue[Len(logQueue)]
  BY <1>1, <1>4, CurFact DEF TypeInv
<1>6. CurLog > 0
  BY <1>5 DEF DInv, FilesInv
<1>7. queue[Len(queue)].log = CurLog /\ LogOf(Len(queue)) = CurLog
  BY <1>3, <1>4, <1>5, <1>6 DEF LogOf
<1>8. \A f \in DOMAIN logs : f \in Nat
  BY <1>1, LogTypes
<1>9. \A i \in DOMAIN queue : queue[i].log \in Nat
  BY <1>1, EntryFact DEF Table
<1>10. ASSUME NEW i \in DOMAIN queue
       PROVE  LogOf(i) \in DOMAIN logs /\ meta.min <= LogOf(i) /\ LogOf(i) <= CurLog
  <2>1. /\ LogOf(i) \in DOMAIN logs /\ LogOf(i) >= meta.min
        /\ i < Len(queue) => LogOf(i) < CurLog
    BY DEF DInv, LoggedInv
  <2>2. LogOf(i) \in Nat /\ meta.min \in Nat
    BY <1>1, <1>8, <2>1, NumTypes
  <2>3. i = Len(queue) \/ i < Len(queue)
    BY <1>3
  <2> QED BY <1>5, <1>7, <2>1, <2>2, <2>3
<1> QED BY <1>2, <1>3, <1>4, <1>5, <1>6, <1>7, <1>8, <1>9, <1>10

\* makeRoomForWrite's new log is a file of its own, whatever it was recycled from.
LEMMA SwitchLogs ==
  ASSUME DInv, NEW c \in Clients, SwitchMem(c)
  PROVE  /\ status = "open" /\ op[c].new \in Nat /\ op[c].new > CurLog /\ op[c].new < nextFileNum
         /\ op[c].new >= meta.min /\ op[c].new \notin DOMAIN logs
         /\ op[c].new \in DOMAIN logs' /\ logs'[op[c].new] = <<>>
         /\ \A f \in DOMAIN logs' : f = op[c].new \/ (f \in DOMAIN logs /\ logs'[f] = logs[f])
         /\ \A f \in DOMAIN logs : f >= meta.min => f \in DOMAIN logs' /\ logs'[f] = logs[f]
         /\ logQueue' = Append(logQueue, op[c].new) /\ CurLog' = op[c].new /\ logQueue' # <<>>
         /\ UNCHANGED <<meta, ats, arr, status, nextFileNum, trash, pending, op, place, fl, floor, lapse>>
         /\ At(arr)' = At(arr) /\ synced' = 0
         /\ recycler' \in Recyclers
         /\ \A i \in DOMAIN recycler'.logs : recycler'.logs[i] < meta.min
<1>1. QInv /\ pc[c] = "switch"
  BY DEF DInv, RInv, SwitchMem
<1>2. status = "open"
  BY <1>1, BusyFact
<1>3. op[c].new \in Nat /\ meta.min \in Nat /\ nextFileNum \in Nat
  BY <1>1, OpFact, NumTypes
<1>4. logQueue # <<>> /\ meta.min <= CurLog /\ \A f \in DOMAIN logs : f <= CurLog
  BY <1>2 DEF DInv, FilesInv, Up
<1>5. CurLog \in Nat /\ Len(logQueue) \in Nat /\ logQueue \in Seq(Nat)
  BY <1>1, <1>4, CurFact DEF QInv, TypeInv
<1>6. op[c].new > CurLog /\ op[c].new < nextFileNum
  BY <1>1 DEF DInv, FilesInv
<1>7. \A f \in DOMAIN logs : f \in Nat
  BY <1>1, LogTypes
<1>8. op[c].new >= meta.min /\ op[c].new \notin DOMAIN logs
  BY <1>3, <1>4, <1>5, <1>6, <1>7
<1>9. logQueue' = Append(logQueue, op[c].new) /\ synced' = 0
      /\ UNCHANGED <<meta, ats, arr, status, nextFileNum, trash, pending, op, place, fl, floor, lapse>>
  BY DEF SwitchMem
<1>10. logQueue' # <<>> /\ CurLog' = op[c].new
  <2>1. Len(logQueue') = Len(logQueue) + 1 /\ logQueue'[Len(logQueue) + 1] = op[c].new
    BY <1>3, <1>5, <1>9
  <2> QED BY <1>5, <2>1 DEF CurLog
<1>11. recycler \in Recyclers /\ \A i \in DOMAIN recycler.logs : recycler.logs[i] < meta.min
  BY DEF DInv, KindInv, GoneInv
<1>12. recycler.logs \in Seq(Nat)
  BY <1>11 DEF Recyclers
<1>13. CASE recycler.logs = <<>>
  <2>1. logs' = Put(logs, op[c].new, <<>>) /\ recycler' = recycler
    BY <1>13 DEF SwitchMem
  <2>2. /\ op[c].new \in DOMAIN logs' /\ logs'[op[c].new] = <<>>
        /\ \A f \in DOMAIN logs' : f = op[c].new \/ (f \in DOMAIN logs /\ logs'[f] = logs[f])
        /\ \A f \in DOMAIN logs : f # op[c].new => f \in DOMAIN logs' /\ logs'[f] = logs[f]
    BY <2>1 DEF Put
  <2> QED BY <1>2, <1>3, <1>6, <1>8, <1>9, <1>10, <1>11, <2>1, <2>2 DEF At
<1>14. CASE recycler.logs # <<>>
  <2> DEFINE h == Head(recycler.logs)
  <2>1. logs' = Put(Drop(logs, {h}), op[c].new, <<>>) /\ recycler' = [recycler EXCEPT !.logs = Tail(recycler.logs)]
    BY <1>14 DEF SwitchMem
  <2>2. h = recycler.logs[1] /\ 1 \in DOMAIN recycler.logs /\ h \in Nat
    BY <1>12, <1>14
  <2>3. h < meta.min
    BY <1>11, <2>2
  <2> HIDE DEF h
  <2>4. /\ op[c].new \in DOMAIN logs' /\ logs'[op[c].new] = <<>>
        /\ \A f \in DOMAIN logs' : f = op[c].new \/ (f \in DOMAIN logs /\ logs'[f] = logs[f])
        /\ \A f \in DOMAIN logs : f # op[c].new /\ f # h => f \in DOMAIN logs' /\ logs'[f] = logs[f]
    BY <2>1 DEF Put, Drop
  <2>5. \A f \in DOMAIN logs : f >= meta.min => f # h
    BY <1>3, <1>7, <2>2, <2>3
  <2>6. Tail(recycler.logs) \in Seq(Nat) /\ recycler'.logs = Tail(recycler.logs)
        /\ \A i \in DOMAIN Tail(recycler.logs) : /\ i + 1 \in DOMAIN recycler.logs
                                                /\ Tail(recycler.logs)[i] = recycler.logs[i + 1]
    <3>1. Tail(recycler.logs) \in Seq(Nat)
          /\ \A i \in DOMAIN Tail(recycler.logs) : /\ i + 1 \in DOMAIN recycler.logs
                                                   /\ Tail(recycler.logs)[i] = recycler.logs[i + 1]
      BY <1>12, <1>14
    <3>2. recycler'.logs = Tail(recycler.logs)
      BY <1>11, <2>1 DEF Recyclers
    <3> QED BY <3>1, <3>2
  <2>7. recycler' \in Recyclers
    BY <1>11, <2>1, <2>6 DEF Recyclers
  <2>8. \A i \in DOMAIN recycler'.logs : recycler'.logs[i] < meta.min
    BY <1>11, <2>6
  <2> QED BY <1>2, <1>3, <1>6, <1>8, <1>9, <1>10, <2>4, <2>5, <2>7, <2>8 DEF At
<1> QED BY <1>13, <1>14

\* The tables keep their logs when the memtable is replaced: the new memtable has the
\* new log, a large batch that of the memtable it follows.
LEMMA SwitchTables ==
  ASSUME DInv, NEW c \in Clients, SwitchMem(c)
  PROVE  LET n == Len(queue)
             m == Len(queue')
             large == op[c].kind = "large" IN
         /\ n \in Nat /\ n > 0 /\ DOMAIN queue = 1..n /\ m \in Nat /\ DOMAIN queue' = 1..m
         /\ m = IF large THEN n + 2 ELSE n + 1
         /\ \A i \in 1..n : /\ queue'[i].data = queue[i].data /\ queue'[i].mem = queue[i].mem
                            /\ LogOf(i)' = LogOf(i)
                            /\ queue'[i].log = 0 => /\ queue'[i + 1].mem = 0
                                                    /\ queue'[i + 1].log # 0
         /\ large => /\ \A i \in 1..m : i = n + 1 => LogOf(i)' = CurLog
                     /\ queue'[n + 1].log # 0
                     /\ op[c].key \in Keys /\ op[c].seq \in Nat
                     /\ queue'[n + 1].data[op[c].key] = op[c].seq
                     /\ \A k \in Keys : k # op[c].key => queue'[n + 1].data[k] = 0
         /\ queue'[m].log = op[c].new /\ queue'[m].log # 0 /\ \A i \in 1..m : i = m => LogOf(i)' = op[c].new
         /\ \A k \in Keys : queue'[m].data[k] = 0
         /\ LogOf(n) = CurLog
         /\ \A i \in 1..m : i > n => queue'[i].mem = 0 \/ queue'[i].mem = queue[n].mem + 1
<1> DEFINE n == Len(queue)
           m == Len(queue')
           large == op[c].kind = "large"
<1>1. TypeInv /\ OpInv /\ QInv /\ IdsInv /\ RInv
  BY DEF DInv, RInv, QInv
<1>2. pc[c] = "switch" /\ Live
  BY SwitchLogs DEF SwitchMem, Live
<1>3. /\ queue # <<>> /\ n \in Nat /\ n > 0 /\ DOMAIN queue = 1..n
      /\ CurLog \in Nat /\ CurLog > 0 /\ queue[n].log = CurLog /\ LogOf(n) = CurLog
      /\ \A i \in DOMAIN queue : queue[i].log \in Nat
  BY <1>2, LogOfFact
<1>4. /\ queue' \in Seq(Table) /\ m = IF large THEN n + 2 ELSE n + 1
      /\ \A i \in 1..(n - 1) : queue'[i] = queue[i]
      /\ queue'[n].mem = queue[n].mem /\ queue'[n].data = queue[n].data
      /\ large => queue'[n + 1].mem = 0 /\ queue'[n + 1].log = queue[n].log
      /\ queue'[m].mem = queue[n].mem + 1 /\ queue'[m].data = Empty
      /\ queue'[n].log = IF large THEN 0 ELSE queue[n].log
      /\ queue'[m].log = op[c].new
  BY <1>1, <1>3, SwitchShape
<1>5. m \in Nat /\ DOMAIN queue' = 1..m
  BY <1>3, <1>4
<1>6. op[c].new \in Nat /\ op[c].new > 0
  BY <1>3, SwitchLogs
<1>7. /\ \A i \in 1..n : queue'[i].data = queue[i].data /\ queue'[i].mem = queue[i].mem
      /\ \A i \in 1..m : i > n =>
              /\ queue'[i].mem = 0 \/ queue'[i].mem = queue[n].mem + 1
              /\ \A k \in Keys : \/ queue'[i].data[k] = 0
                                 \/ /\ large /\ k = op[c].key /\ i = n + 1
                                    /\ queue'[i].data[k] = op[c].seq
      /\ large => /\ op[c].key \in Keys /\ op[c].seq \in Nat
                  /\ queue'[n + 1].data[op[c].key] = op[c].seq
  BY <1>1, SwitchData
<1>8. queue[n].mem > 0
  BY <1>1, <1>3 DEF IdsInv, Mutable
<1>9. \A i \in DOMAIN queue : queue[i].log = 0 => i < n /\ queue[i + 1].mem = 0 /\ queue[i + 1].log # 0
  BY DEF DInv, LoggedInv
<1>10. ASSUME NEW i \in 1..n
       PROVE  /\ LogOf(i)' = LogOf(i)
              /\ queue'[i].log = 0 => queue'[i + 1].mem = 0 /\ queue'[i + 1].log # 0
  <2>1. CASE i = n /\ large
    BY <1>3, <1>4, <2>1 DEF LogOf
  <2>2. CASE i = n /\ ~large
    BY <1>3, <1>4, <2>2 DEF LogOf
  <2>3. CASE i # n
    <3>1. i \in 1..(n - 1) /\ i \in DOMAIN queue /\ i + 1 \in 1..n
      <4>1. n \in Nat /\ DOMAIN queue = 1..n
        BY <1>3
      <4> HIDE DEF n
      <4> QED BY <2>3, <4>1
    <3>2. queue'[i] = queue[i]
      BY <1>4, <3>1
    <3>3. queue[i].log = 0 => i + 1 \in 1..(n - 1) /\ queue'[i + 1] = queue[i + 1]
      <4> SUFFICES ASSUME queue[i].log = 0 PROVE i + 1 \in 1..(n - 1) /\ queue'[i + 1] = queue[i + 1]
        OBVIOUS
      <4>1. queue[i + 1].mem = 0
        BY <1>9, <3>1
      <4>2. i + 1 # n
        BY <1>8, <4>1
      <4>3. i + 1 \in 1..(n - 1)
        BY <1>3, <3>1, <4>2
      <4> QED BY <1>4, <4>3
    <3> QED BY <1>9, <3>1, <3>2, <3>3 DEF LogOf
  <2> QED BY <2>1, <2>2, <2>3
<1>11. large => (\A i \in 1..m : i = n + 1 => LogOf(i)' = CurLog) /\ queue'[n + 1].log # 0
  BY <1>3, <1>4 DEF LogOf
<1>12. queue'[m].log # 0 /\ \A i \in 1..m : i = m => LogOf(i)' = op[c].new
  BY <1>4, <1>6 DEF LogOf
<1>13. \A k \in Keys : queue'[m].data[k] = 0
  BY <1>4, EmptyFact
<1>14. large => \A k \in Keys : k # op[c].key => queue'[n + 1].data[k] = 0
  <2>1. large => n + 1 \in 1..m /\ n + 1 > n
    BY <1>3, <1>4
  <2> QED BY <1>7, <2>1
<1> HIDE DEF n, m, large
<1>15. /\ n \in Nat /\ n > 0 /\ DOMAIN queue = 1..n /\ m \in Nat /\ DOMAIN queue' = 1..m
       /\ m = (IF large THEN n + 2 ELSE n + 1) /\ LogOf(n) = CurLog /\ queue'[m].log = op[c].new
  BY <1>3, <1>4, <1>5
<1>16. \A i \in 1..n : /\ queue'[i].data = queue[i].data /\ queue'[i].mem = queue[i].mem
                       /\ LogOf(i)' = LogOf(i)
                       /\ queue'[i].log = 0 => queue'[i + 1].mem = 0 /\ queue'[i + 1].log # 0
  BY <1>7, <1>10
<1>17. \A i \in 1..m : i > n => queue'[i].mem = 0 \/ queue'[i].mem = queue[n].mem + 1
  BY <1>7
<1> QED BY <1>7, <1>11, <1>12, <1>13, <1>14, <1>15, <1>16, <1>17 DEF n, m, large

\* Its clients: the one that switches is done, or goes on with a small write.
LEMMA SwitchHands ==
  ASSUME DInv, NEW c \in Clients, SwitchMem(c)
  PROVE  /\ \A d \in Clients : d # c => pc'[d] = pc[d]
         /\ pc[c] = "switch" /\ pc'[c] \in {"room", "ack", "flushing"}
         /\ pc'[c] = "room" => op[c].kind = "small"
         /\ pc'[c] = "ack" => op[c].kind = "large" /\ Logging(c)
         /\ op[c].kind = "large" => latest' = Upd(latest, op[c].key, op[c].seq)
         /\ op[c].kind # "large" => latest' = latest
         /\ \A d \in Clients : ~(Logging(d)') /\ pc'[d] # "switch"
         /\ \A d \in Clients : Logging(d) => d = c /\ op[c].kind = "large"
<1>1. QInv /\ pc[c] = "switch" /\ op' = op
  BY DEF DInv, RInv, SwitchMem
<1>2. op[c].kind \in {"small", "large", "flush"}
  BY <1>1 DEF QInv, TypeInv, OpInv, Op, Kinds
<1>3. pc \in [Clients -> ClientPcs]
  BY <1>1 DEF QInv, TypeInv
<1>4. pc' = [pc EXCEPT ![c] = CASE op[c].kind = "small" -> "room"
                              [] op[c].kind = "large" -> "ack"
                              [] op[c].kind = "flush" -> "flushing"]
  BY DEF SwitchMem
<1>5. /\ \A d \in Clients : d # c => pc'[d] = pc[d]
      /\ pc'[c] \in {"room", "ack", "flushing"}
      /\ pc'[c] = "room" => op[c].kind = "small"
      /\ pc'[c] = "ack" => op[c].kind = "large"
  BY <1>2, <1>3, <1>4
<1>6. \A d \in Clients : pc[d] \in {"room", "switch"} => d = c
  BY <1>1 DEF QInv, ModeInv
<1>7. \A d \in Clients : ~(Logging(d)') /\ pc'[d] # "switch"
  BY <1>1, <1>5, <1>6 DEF Logging, Making
<1>8. \A d \in Clients : Logging(d) => d = c /\ op[c].kind = "large"
  BY <1>6 DEF Logging, Making
<1>9. pc'[c] = "ack" => Logging(c)
  BY <1>1, <1>5 DEF Logging, Making
<1>10. /\ op[c].kind = "large" => latest' = Upd(latest, op[c].key, op[c].seq)
       /\ op[c].kind # "large" => latest' = latest
  BY DEF SwitchMem
<1> QED BY <1>1, <1>5, <1>7, <1>8, <1>9, <1>10

\* flush1's metadata edit is accepted; it leaves the current log where it is.
LEMMA InstallOk ==
  ASSUME DInv, FlushInstall
  PROVE  /\ Live /\ flushPc = "install" /\ MetaOk(fl.min) /\ fl.min = LogOf(fl.n + 1)
         /\ fl.n \in Nat /\ fl.n > 0 /\ fl.n < Len(queue) /\ Len(queue) \in Nat
         /\ fl.min \in Nat /\ meta.min <= fl.min /\ fl.min <= CurLog /\ fl.min < nextFileNum
         /\ meta'.min = fl.min /\ meta'.at = fl.num /\ arr' = fl.num /\ fl.num # 0 /\ lapse' = {}
         /\ fl.num \in DOMAIN ats
         /\ CurLog' = CurLog /\ logQueue' # <<>>
         /\ \A i \in DOMAIN logQueue' : logQueue'[i] > 0
         /\ \A f \in fl'.logs : f \in Nat /\ 0 < f /\ f < fl.min
         /\ fl'.ok /\ flushPc' = "delete"
         /\ UNCHANGED <<logs, ats, status, nextFileNum, synced, recycler, trash, pending, pc, op, place,
                        floor, latest>>
<1>1. QInv /\ RInv /\ flushPc = "install"
  BY DEF DInv, RInv, FlushInstall
<1>2. Live
  BY <1>1, FlushLive DEF Live
<1>3. /\ DOMAIN queue = 1..Len(queue) /\ Len(queue) \in Nat
      /\ \A i \in DOMAIN queue : LogOf(i) \in Nat /\ meta.min <= LogOf(i) /\ LogOf(i) <= CurLog
      /\ CurLog \in Nat
  BY <1>2, LogOfFact
<1>4. fl.n \in Nat /\ fl.n > 0 /\ fl.n < Len(queue)
  BY <1>1, NumTypes DEF QInv, FlushInv
<1>5. fl.min = LogOf(fl.n + 1)
  BY <1>1 DEF DInv, TakenInv
<1>6. fl.n + 1 \in DOMAIN queue
  BY <1>3, <1>4
<1>7. fl.min \in Nat /\ meta.min <= fl.min /\ fl.min <= CurLog
  BY <1>3, <1>5, <1>6
<1>8. CurLog < nextFileNum /\ nextFileNum \in Nat
  BY <1>1, <1>2, NumTypes DEF DInv, FilesInv, Live, Up
<1>9. fl.min < nextFileNum
  BY <1>3, <1>7, <1>8
<1>10. MetaOk(fl.min)
  BY <1>7, <1>9 DEF MetaOk
<1>11. fl.num \in Nat /\ fl.num # 0 /\ arr < fl.num
  BY <1>1, NumTypes DEF RInv, NumInv
<1>12. /\ meta' = MetaSet(fl.min, nextFileNum, fl.num) /\ arr' = fl.num /\ lapse' = {}
       /\ flushPc' = "delete"
       /\ UNCHANGED <<logs, ats, status, nextFileNum, synced, recycler, trash, pending, pc, op, place,
                      floor, latest>>
  BY <1>10 DEF FlushInstall, clientVars
<1>13. meta'.min = fl.min /\ meta'.at = fl.num
  BY <1>11, <1>12 DEF MetaSet
<1>14. fl.num \in DOMAIN ats
  BY <1>1 DEF RInv, InstallInv
<1> DEFINE S == Obsolete(fl.min)
           x == Cardinality(S)
           y == Len(logQueue)
<1>15. /\ fl' = [fl EXCEPT !.logs = {logQueue[i] : i \in S}, !.old = arr, !.ok = TRUE]
       /\ logQueue' = SubSeq(logQueue, x + 1, y)
  BY <1>10, <1>12, <1>13 DEF FlushInstall
<1>16. fl \in Flushes /\ logQueue \in Seq(Nat) /\ logQueue # <<>>
  BY <1>1, <1>2 DEF QInv, TypeInv, DInv, FilesInv, Live, Up
<1>17. fl'.ok /\ fl'.logs = {logQueue[i] : i \in S}
  BY <1>15, <1>16 DEF Flushes
<1>18. y \in Nat /\ y > 0 /\ CurLog = logQueue[y] /\ DOMAIN logQueue = 1..y
  BY <1>16 DEF CurLog
<1>19. S \subseteq 1..(y - 1)
  <2>1. \A i \in S : i \in 1..y /\ logQueue[i] < fl.min
    BY <1>18 DEF Obsolete
  <2>2. ~(logQueue[y] < fl.min)
    BY <1>3, <1>7, <1>18
  <2> QED BY <1>18, <2>1, <2>2
<1>20. x \in Nat /\ x < y
  <2> HIDE DEF S
  <2>1. y - 1 \in Nat
    BY <1>18
  <2>2. IsFiniteSet(1..(y - 1)) /\ Cardinality(1..(y - 1)) = y - 1
    BY <2>1, FS_Interval
  <2>3. IsFiniteSet(S) /\ x <= y - 1 /\ x \in Nat
    BY <1>19, <2>2, FS_Subset, FS_CardinalityType
  <2> QED BY <1>18, <2>3
<1> HIDE DEF S, x
<1>21. Len(logQueue') = y - x /\ y - x > 0 /\ y - x \in Nat
       /\ \A i \in 1..(y - x) : logQueue'[i] = logQueue[i + x] /\ i + x \in DOMAIN logQueue
  <2> DEFINE t == SubSeq(logQueue, x + 1, Len(logQueue))
  <2>1. /\ Len(t) = Len(logQueue) - x /\ Len(t) > 0 /\ Len(t) \in Nat
        /\ \A i \in 1..Len(t) : t[i] = logQueue[i + x] /\ i + x \in DOMAIN logQueue
    BY <1>16, <1>20, Dropped
  <2>2. logQueue' = t
    BY <1>15
  <2> QED BY <2>1, <2>2
<1>22. logQueue' # <<>> /\ CurLog' = CurLog
  <2>1. y - x \in 1..(y - x) /\ (y - x) + x = y
    BY <1>18, <1>20, <1>21
  <2>2. logQueue'[y - x] = logQueue[y]
    BY <1>21, <2>1
  <2> QED BY <1>18, <1>21, <2>2 DEF CurLog
<1>23. \A i \in DOMAIN logQueue : logQueue[i] \in Nat /\ logQueue[i] > 0
  BY <1>16 DEF DInv, FilesInv
<1>24. \A i \in DOMAIN logQueue' : logQueue'[i] > 0
  <2>1. DOMAIN logQueue' = 1..(y - x)
    BY <1>15, <1>16, <1>18, <1>20
  <2> QED BY <1>21, <1>23, <2>1
<1>25. \A f \in fl'.logs : f \in Nat /\ 0 < f /\ f < fl.min
  <2>1. \A i \in S : i \in 1..y /\ logQueue[i] < fl.min
    <3> SUFFICES ASSUME NEW i \in S PROVE i \in 1..y /\ logQueue[i] < fl.min
      OBVIOUS
    <3>1. i \in 1..y /\ \A j \in 1..i : logQueue[j] < fl.min
      BY <1>18 DEF S, Obsolete
    <3> QED BY <1>18, <3>1
  <2> QED BY <1>17, <1>18, <1>23, <2>1
<1> QED BY <1>1, <1>2, <1>3, <1>4, <1>5, <1>7, <1>9, <1>10, <1>11, <1>12, <1>13, <1>14, <1>17, <1>22, <1>24, <1>25

\* While every array table in use is recorded, recovery starts from the one in use.
LEMMA RecordedFact ==
  ASSUME DInv, status # "closed", lapse = {}
  PROVE  At(meta.at) = At(arr)
<1>1. 0 \notin DOMAIN ats
  BY DEF DInv, RInv, AtsInv
<1>2. arr = meta.at \/ (arr = 0 /\ meta.at \notin DOMAIN ats)
  BY DEF DInv, ArrInv
<1> QED BY <1>1, <1>2 DEF At

\* Array tables come and go in a quiet step, but the one in use stays, and no table
\* appears under the number the metadata has.
LEMMA QuietTables ==
  ASSUME DInv, Quiet
  PROVE  /\ arr' # 0 => arr' \in DOMAIN ats'
         /\ meta.at \notin DOMAIN ats => meta.at \notin DOMAIN ats'
         /\ \A k \in Keys : At(meta.at)'[k] <= At(meta.at)[k]
<1> USE DEF DInv, RInv
<1>0. QInv /\ AtsInv
  OBVIOUS
<1>1. At(meta.at) \in Data /\ arr \in Nat /\ meta.at \in Nat
  BY <1>0, AtFact, NumTypes
<1>2. meta' = meta /\ arr' = arr
  BY QuietFact
<1>3. arr # 0 => arr \in DOMAIN ats
  BY DEF ArrInv
<1>4. CASE FlushBuild
  <2>1. PICK v : ats' = Put(ats, fl.num, v)
    BY <1>4 DEF FlushBuild
  <2>2. fl.num # meta.at
    BY <1>0, <1>4, NumTypes DEF FlushBuild, NumInv
  <2>3. At(meta.at)' = At(meta.at)
    BY <1>2, <2>1, <2>2 DEF At, Put
  <2> QED BY <1>1, <1>2, <1>3, <2>1, <2>2, <2>3 DEF Put, Data
<1>5. CASE DeleteFile
  <2>1. PICK t \in trash : ats' = IF t[1] = "at" THEN Drop(ats, {t[2]}) ELSE ats
    BY <1>5 DEF DeleteFile
  <2>2. t[1] = "at" => t[2] # arr
    BY DEF TrashInv
  <2>3. At(meta.at)' \in {At(meta.at), Empty}
    BY <1>2, <2>1 DEF At, Drop
  <2>4. \A k \in Keys : Empty[k] = 0 /\ At(meta.at)[k] \in Nat
    BY <1>1, EmptyFact DEF Data
  <2>5. arr # 0 => arr \in DOMAIN ats'
    BY <1>3, <2>1, <2>2 DEF Drop
  <2>6. DOMAIN ats' \subseteq DOMAIN ats
    BY <2>1 DEF Drop
  <2>7. \A k \in Keys : At(meta.at)'[k] <= At(meta.at)[k]
    <3>1. CASE At(meta.at)' = At(meta.at)
      BY <2>4, <3>1
    <3>2. CASE At(meta.at)' = Empty
      BY <2>4, <3>2
    <3> QED BY <2>3, <3>1, <3>2
  <2> QED BY <1>2, <2>5, <2>6, <2>7
<1>6. CASE ~FlushBuild /\ ~DeleteFile
  <2>1. ats' = ats
    BY <1>6 DEF Quiet, vars, diskVars, FlushStart, FlushNumber, FlushDelete, FlushEnd, SyncLog, Close,
       Flush, SwitchLog, Ack, Set
  <2>2. At(meta.at)' = At(meta.at)
    BY <1>2, <2>1 DEF At
  <2> QED BY <1>1, <1>2, <1>3, <2>1, <2>2 DEF Data
<1> QED BY <1>4, <1>5, <1>6

\* replayWAL takes the oldest log; its newest writes win.
LEMMA ReplayFact ==
  ASSUME DInv, ReplayWAL
  PROVE  \E f \in pending :
           /\ f \in DOMAIN logs /\ f >= meta.min /\ \A g \in pending : f <= g
           /\ pending' = pending \ {f}
           /\ UNCHANGED <<meta, logs, floor, status, queue, logVars, clientVars, flushVars, latest>>
           /\ status = "replay"
           /\ \A k \in Keys :
                /\ At(arr)[k] \in Nat /\ At(arr)'[k] \in Nat
                /\ \A i \in DOMAIN logs[f] : logs[f][i].key = k => logs[f][i].seq <= At(arr)'[k]
                /\ \/ At(arr)'[k] = At(arr)[k]
                   \/ \E i \in DOMAIN logs[f] : logs[f][i].key = k /\ logs[f][i].seq = At(arr)'[k]
           /\ At(meta.at)' = At(meta.at)
           /\ arr' # 0 => arr' \in DOMAIN ats'
           /\ lapse' = {} => lapse = {} /\ arr' = arr /\ ats' = ats
           /\ trash' = trash \/ trash' = trash \cup {<<"at", arr>>}
<1>0. RInv /\ QInv /\ TypeInv /\ DiskInv
  BY DEF DInv, RInv, QInv
<1> DEFINE f == Min(pending)
<1>1. status = "replay" /\ pending # {} /\ pending \subseteq DOMAIN logs
  BY <1>0 DEF ReplayWAL, DiskInv
<1>2. pending \subseteq Nat
  BY <1>0, <1>1, LogTypes
<1>3. f \in pending /\ \A g \in pending : f <= g
  BY <1>1, <1>2, MinFact
<1>4. f >= meta.min
  BY <1>0, <1>1, <1>3 DEF RInv, LogInv
<1>5. /\ pending' = pending \ {f}
      /\ UNCHANGED <<meta, logs, floor, status, queue, logVars, clientVars, flushVars, latest>>
  BY DEF ReplayWAL
<1>6. \A k \in Keys : At(arr)[k] \in Nat
  BY <1>0, DataFact
<1>7. arr # 0 => arr \in DOMAIN ats
  BY DEF DInv, ArrInv
<1>8. CASE logs[f] = <<>>
  <2>1. UNCHANGED <<ats, arr, trash, lapse>>
    BY <1>8 DEF ReplayWAL
  <2>2. At(arr)' = At(arr) /\ At(meta.at)' = At(meta.at)
    BY <1>5, <2>1 DEF At
  <2>3. DOMAIN logs[f] = {}
    BY <1>8
  <2> HIDE DEF f
  <2> QED BY <1>1, <1>3, <1>4, <1>5, <1>6, <1>7, <2>1, <2>2, <2>3
<1>9. CASE logs[f] # <<>>
  <2>1. lapse' = {"unrecorded"} /\ arr' = nextFileNum
        /\ trash' = (IF arr = 0 THEN trash ELSE trash \cup {<<"at", arr>>})
    BY <1>9 DEF ReplayWAL
  <2>2. arr < nextFileNum /\ meta.at < nextFileNum /\ nextFileNum \in Nat /\ nextFileNum > 0
        /\ arr \in Nat /\ meta.at \in Nat
    BY <1>0, <1>1, NumTypes DEF RInv, NumInv
  <2>3. ~UNCHANGED <<ats, arr, nextFileNum, logSeqNum, trash, lapse>>
    BY <2>1, <2>2
  <2>4. PICK v \in Data : /\ ats' = Put(ats, nextFileNum, v) /\ arr' = nextFileNum
                          /\ \A k \in Keys :
                              /\ v[k] < logSeqNum'
                              /\ \A i \in DOMAIN logs[f] : logs[f][i].key = k => logs[f][i].seq <= v[k]
                              /\ \/ v[k] = At(arr)[k]
                                 \/ \E i \in DOMAIN logs[f] : logs[f][i].key = k /\ logs[f][i].seq = v[k]
    BY <1>0, <2>3, ReplayedFact
  <2>5. At(arr)' = v /\ At(meta.at)' = At(meta.at) /\ arr' \in DOMAIN ats'
    BY <1>5, <2>2, <2>4 DEF At, Put
  <2>6. \A k \in Keys : v[k] \in Nat
    BY <2>4 DEF Data
  <2> HIDE DEF f
  <2> QED BY <1>1, <1>3, <1>4, <1>5, <1>6, <2>1, <2>4, <2>5, <2>6
<1> QED BY <1>8, <1>9

\* What a process that ends leaves behind: the logs recovery reads, of the current one at
\* least what is synced.
LEMMA EndLogs ==
  ASSUME DInv, Ending
  PROVE  /\ status # "closed" /\ meta.min \in Nat /\ meta'.min \in Nat /\ meta.min <= meta'.min
         /\ meta'.at = meta.at
         /\ \A f \in DOMAIN logs' :
              /\ f \in DOMAIN logs
              /\ \A p \in DOMAIN logs'[f] : p \in DOMAIN logs[f] /\ logs'[f][p] = logs[f][p]
              /\ ~(Live /\ f = CurLog) => logs'[f] = logs[f]
         /\ \A f \in DOMAIN logs : f >= meta.min =>
              /\ f \in DOMAIN logs'
              /\ \A p \in DOMAIN logs[f] : (Live /\ f = CurLog => p <= synced) => p \in DOMAIN logs'[f]
         /\ CloseDone => \A f \in DOMAIN logs' : logs'[f] = logs[f]
<1>0. QInv /\ DiskInv
  BY DEF DInv, RInv, QInv
<1>1. meta.min \in Nat /\ fl.min \in Nat
  BY <1>0, NumTypes
<1>2. status # "closed"
  BY <1>0, FlushLive DEF Ending, CloseDone, Crash, CrashInMetaEdit, OpenFails
<1>3. meta'.min \in Nat /\ meta.min <= meta'.min /\ meta'.at = meta.at
  <2>1. CASE CrashInMetaEdit
    <3>1. meta \in Metas /\ meta.min <= fl.min
      BY <1>0, <2>1 DEF CrashInMetaEdit, MetaOk, DiskInv
    <3>2. PICK x, y : meta' = [meta EXCEPT !.min = fl.min, !.next = x, !.last = y]
      BY <2>1 DEF CrashInMetaEdit
    <3> QED BY <1>1, <3>1, <3>2 DEF Metas
  <2>2. CASE ~CrashInMetaEdit
    <3>1. meta' = meta
      BY <2>2 DEF Ending, CloseDone, Crash, OpenFails, diskVars
    <3> QED BY <1>1, <3>1
  <2> QED BY <2>1, <2>2
<1>4. \A f \in DOMAIN logs : /\ f \in Nat /\ logs[f] \in Seq(Record)
                             /\ Len(logs[f]) \in Nat /\ DOMAIN logs[f] = 1..Len(logs[f])
  BY <1>0, LogTypes
<1>5. CloseDone => \A f \in DOMAIN logs' : logs'[f] = logs[f]
  BY DEF CloseDone, Drop
<1>6. CASE CloseDone
  <2> DEFINE S == {t[2] : t \in {u \in trash : u[1] = "log"}}
  <2>1. logs' = Drop(logs, S)
    BY <1>6 DEF CloseDone
  <2>2. \A f \in DOMAIN logs : f >= meta.min => f \notin S
    <3>1. \A t \in trash : t[1] = "log" => t[2] \in Nat /\ t[2] < meta.min
      BY DEF DInv, KindInv, GoneInv
    <3>2. \A x \in S : x \in Nat /\ x < meta.min
      BY <3>1
    <3> HIDE DEF S
    <3> QED BY <1>1, <1>4, <3>2
  <2> HIDE DEF S
  <2> QED BY <1>1, <1>2, <1>3, <1>5, <2>1, <2>2 DEF Drop
<1>7. CASE OpenFails
  <2>1. logs' = logs
    BY <1>7 DEF OpenFails, diskVars
  <2> QED BY <1>1, <1>2, <1>3, <1>4, <1>5, <2>1
<1>8. CASE Crash \/ CrashInMetaEdit
  <2>1. LoseTail
    BY <1>8 DEF Crash, CrashInMetaEdit
  <2>2. CASE logQueue = <<>> \/ CurLog \notin DOMAIN logs
    <3>1. logs' = logs
      BY <2>1, <2>2 DEF LoseTail
    <3> QED BY <1>1, <1>2, <1>3, <1>4, <1>5, <3>1
  <2>3. CASE logQueue # <<>> /\ CurLog \in DOMAIN logs
    <3>1. PICK n \in synced..Len(logs[CurLog]) :
            logs' = [logs EXCEPT ![CurLog] = SubSeq(logs[CurLog], 1, n)]
      BY <2>1, <2>3 DEF LoseTail
    <3>2. synced \in Nat /\ Len(logs[CurLog]) \in Nat /\ logs[CurLog] \in Seq(Record)
          /\ DOMAIN logs[CurLog] = 1..Len(logs[CurLog])
      BY <1>4, <2>3 DEF DInv, KindInv
    <3>3. n \in Nat /\ synced <= n /\ n <= Len(logs[CurLog])
      BY <3>1, <3>2
    <3>4. DOMAIN logs' = DOMAIN logs /\ \A f \in DOMAIN logs : f # CurLog => logs'[f] = logs[f]
      BY <3>1
    <3>5. logs'[CurLog] = SubSeq(logs[CurLog], 1, n)
      BY <2>3, <3>1
    <3> DEFINE s == logs[CurLog]
               t == SubSeq(s, 1, n)
    <3>6. DOMAIN t = 1..n /\ \A p \in 1..n : t[p] = s[p] /\ p \in DOMAIN s
      BY <3>2, <3>3
    <3>7. \A p \in DOMAIN s : p <= synced => p \in 1..n
      BY <3>2, <3>3
    <3>8. Live
      BY <1>4, <2>3 DEF DInv, FilesInv, Up, Live
    <3> HIDE DEF s, t
    <3>9. \A p \in DOMAIN logs'[CurLog] : p \in DOMAIN logs[CurLog] /\ logs'[CurLog][p] = logs[CurLog][p]
      BY <3>5, <3>6 DEF s, t
    <3>10. \A p \in DOMAIN logs[CurLog] : p <= synced => p \in DOMAIN logs'[CurLog]
      BY <3>5, <3>6, <3>7 DEF s, t
    <3> QED BY <1>1, <1>2, <1>3, <1>5, <3>4, <3>8, <3>9, <3>10
  <2> QED BY <2>2, <2>3
<1> QED BY <1>6, <1>7, <1>8 DEF Ending

\* And the recorded array table, unless another one is in use.
LEMMA EndTables ==
  ASSUME DInv, Ending
  PROVE  /\ \A k \in Keys : At(meta.at)'[k] <= At(meta.at)[k]
         /\ lapse' = {} => /\ lapse = {} /\ ~CrashInMetaEdit
                           /\ \A k \in Keys : At(meta.at)'[k] = At(arr)[k]
         /\ Forget
<1>0. AtsInv /\ QInv
  BY DEF DInv, RInv
<1>1. At(meta.at) \in Data /\ status # "closed" /\ meta'.at = meta.at
  BY <1>0, AtFact, EndLogs
<1>2. lapse' = {} => lapse = {} /\ ~CrashInMetaEdit
  BY DEF Ending, CloseDone, Crash, CrashInMetaEdit, OpenFails, histVars
<1>3. lapse = {} => At(meta.at) = At(arr)
  BY <1>1, RecordedFact
<1>4. CASE CloseDone \/ OpenFails
  <2>1. PICK S : ats' = Drop(ats, S) /\ \A f \in S : \E t \in trash : t[1] = "at" /\ t[2] = f
    <3>1. CASE CloseDone
      <4>1. ats' = Drop(ats, {t[2] : t \in {u \in trash : u[1] = "at"}})
        BY <3>1 DEF CloseDone
      <4> QED BY <4>1
    <3>2. CASE OpenFails
      <4>1. PICK gone \in SUBSET {t \in trash : t[1] = "at"} : ats' = Drop(ats, {t[2] : t \in gone})
        BY <3>2 DEF OpenFails
      <4> QED BY <4>1
    <3> QED BY <1>4, <3>1, <3>2
  <2>2. At(meta.at)' = At(meta.at) \/ (At(meta.at)' = Empty /\ meta.at \in S)
    BY <1>1, <2>1 DEF At, Drop
  <2>3. \A k \in Keys : Empty[k] = 0 /\ At(meta.at)[k] \in Nat
    BY <1>1, EmptyFact DEF Data
  <2>4. \A k \in Keys : At(meta.at)'[k] <= At(meta.at)[k]
    BY <2>2, <2>3
  <2>5. arr \notin S
    BY <2>1 DEF DInv, RInv, TrashInv
  <2>6. lapse = {} => \A k \in Keys : At(meta.at)'[k] = At(arr)[k]
    <3> SUFFICES ASSUME lapse = {} PROVE At(meta.at)' = At(arr)
      OBVIOUS
    <3>1. arr = meta.at \/ (arr = 0 /\ meta.at \notin DOMAIN ats)
      BY <1>1 DEF DInv, ArrInv
    <3>2. CASE arr = meta.at
      BY <1>3, <2>2, <2>5, <3>2
    <3>3. CASE meta.at \notin DOMAIN ats
      <4>1. At(meta.at) = Empty
        BY <3>3 DEF At
      <4> QED BY <1>3, <2>2, <4>1
    <3> QED BY <3>1, <3>2, <3>3
  <2>7. Forget
    BY <1>4 DEF CloseDone, OpenFails
  <2> QED BY <1>2, <2>4, <2>6, <2>7
<1>5. CASE Crash \/ CrashInMetaEdit
  <2>1. ats' = ats /\ Forget
    BY <1>5 DEF Crash, CrashInMetaEdit
  <2>2. At(meta.at)' = At(meta.at)
    BY <1>1, <2>1 DEF At
  <2>3. \A k \in Keys : At(meta.at)[k] \in Nat
    BY <1>1 DEF Data
  <2> QED BY <1>2, <1>3, <2>1, <2>2, <2>3
<1> QED BY <1>4, <1>5 DEF Ending

\* Opening: nothing changes on disk, and the recorded array table is the one in use.
LEMMA OpenFact ==
  ASSUME DInv, Open
  PROVE  /\ status = "closed" /\ status' = "replay"
         /\ UNCHANGED <<meta, logs, ats, queue, logQueue, synced, clientVars, flushVars, latest>>
         /\ pending' = {f \in DOMAIN logs : f >= meta.min}
         /\ lapse' = {} /\ \A t \in trash' : t[1] = "at"
         /\ At(arr)' = At(meta.at) /\ At(meta.at)' = At(meta.at)
         /\ arr' # 0 => arr' \in DOMAIN ats
         /\ arr' = meta.at \/ (arr' = 0 /\ meta.at \notin DOMAIN ats)
         /\ recycler'.logs = recycler.logs /\ recycler' \in Recyclers
<1>0. 0 \notin DOMAIN ats /\ QInv /\ DiskInv
  BY DEF DInv, RInv, QInv, AtsInv
<1>1. /\ status = "closed" /\ status' = "replay"
      /\ UNCHANGED <<meta, logs, ats, queue, logQueue, synced, clientVars, flushVars, latest>>
      /\ pending' = {f \in DOMAIN logs : f >= meta.min} /\ lapse' = {}
      /\ arr' = IF meta.at \in DOMAIN ats THEN meta.at ELSE 0
  BY DEF Open, diskVars, ToReplay
<1>2. At(arr)' = At(meta.at) /\ At(meta.at)' = At(meta.at)
  BY <1>0, <1>1 DEF At
<1>3. \A t \in trash' : t[1] = "at"
  BY DEF Open
<1>4. recycler \in Recyclers
  BY DEF DInv, KindInv
<1> DEFINE T == {0} \cup {f + 1 : f \in DOMAIN logs}
<1>5. recycler' = [recycler EXCEPT !.min = Max(T)]
  BY DEF Open
<1>6. Max(T) \in Nat
  <2>1. PICK b \in Nat : \A f \in DOMAIN logs : f \in Nat /\ f <= b
    BY <1>0 DEF DiskInv, Bounded
  <2>2. T \subseteq Nat /\ T # {} /\ \A y \in T : y <= b + 1
    BY <2>1
  <2>3. b + 1 \in Nat
    BY <2>1
  <2> HIDE DEF T
  <2>4. Max(T) \in T
    BY <2>2, <2>3, MaxFact
  <2> QED BY <2>2, <2>4
<1> HIDE DEF T
<1>7. recycler'.logs = recycler.logs /\ recycler' \in Recyclers
  BY <1>4, <1>5, <1>6 DEF Recyclers
<1> QED BY <1>1, <1>2, <1>3, <1>7

\* The end of recovery: a number for the first log is recorded,
LEMMA RecoveredFact ==
  ASSUME DInv, Recovered
  PROVE  /\ status = "replay" /\ status' = "recovered" /\ pending = {} /\ pending' = {}
         /\ logQueue' = <<nextFileNum>> /\ CurLog' = nextFileNum /\ nextFileNum' = nextFileNum + 1
         /\ meta'.min = nextFileNum /\ meta'.at = meta.at
         /\ \A f \in DOMAIN logs : f \in Nat /\ f < nextFileNum
         /\ nextFileNum \in Nat /\ nextFileNum > 0
         /\ UNCHANGED <<logs, ats, arr, queue, synced, recycler, trash, clientVars, flushVars, floor,
                        latest, lapse>>
         /\ At(arr)' = At(arr) /\ At(meta.at)' = At(meta.at)
<1>1. QInv
  BY DEF DInv, RInv
<1>2. nextFileNum \in Nat /\ nextFileNum > 0 /\ \A f \in DOMAIN logs : f \in Nat
  BY <1>1, NumTypes, LogTypes
<1>3. /\ status = "replay" /\ status' = "recovered" /\ pending = {} /\ pending' = {}
      /\ logQueue' = <<nextFileNum>> /\ nextFileNum' = nextFileNum + 1
      /\ meta' = MetaSet(nextFileNum, nextFileNum + 1, 0)
      /\ UNCHANGED <<logs, ats, arr, queue, synced, recycler, trash, clientVars, flushVars, floor,
                     latest, lapse>>
  BY DEF Recovered, histVars
<1>4. \A f \in DOMAIN logs : f < nextFileNum
  BY <1>3 DEF DInv, RInv, LogInv
<1>5. meta'.min = nextFileNum /\ meta'.at = meta.at
  BY <1>3 DEF MetaSet
<1>6. CurLog' = nextFileNum
  BY <1>3 DEF CurLog
<1>7. At(arr)' = At(arr) /\ At(meta.at)' = At(meta.at)
  BY <1>3, <1>5 DEF At
<1> QED BY <1>2, <1>3, <1>4, <1>5, <1>6, <1>7

\* and the log and the first memtable are made.
LEMMA OpenDoneFact ==
  ASSUME DInv, OpenDone
  PROVE  /\ status = "recovered" /\ status' = "open" /\ CurLog' = CurLog
         /\ CurLog \in Nat /\ CurLog > 0 /\ meta.min = CurLog
         /\ CurLog \in DOMAIN logs' /\ logs'[CurLog] = <<>>
         /\ \A f \in DOMAIN logs' : f \in Nat /\ f <= CurLog /\ (f >= meta.min => f = CurLog)
         /\ \A f \in DOMAIN logs : f < CurLog
         /\ UNCHANGED <<meta, ats, nextFileNum, arr, logVars, pending, clientVars, flushVars, floor, lapse>>
         /\ At(arr)' = At(arr) /\ At(meta.at)' = At(meta.at) /\ latest' = At(arr)
         /\ Len(queue') = 1 /\ DOMAIN queue' = {1} /\ queue'[1].log = CurLog /\ queue'[1].mem = 1
         /\ \A k \in Keys : queue'[1].data[k] = 0
         /\ LogOf(1)' = CurLog
         /\ \A t \in trash' : t \in trash \/ (t[1] = "log" /\ t[2] \in Nat /\ t[2] < meta.min)
<1>1. QInv
  BY DEF DInv, RInv
<1>2. /\ status = "recovered" /\ status' = "open"
      /\ logs' = Put(logs, CurLog, <<>>)
      /\ queue' = <<Mem(1, CurLog)>>
      /\ latest' = At(arr)
      /\ UNCHANGED <<meta, ats, nextFileNum, arr, logVars, pending, clientVars, flushVars, floor, lapse>>
  BY DEF OpenDone
<1>3. logQueue # <<>> /\ meta.min = CurLog /\ \A f \in DOMAIN logs : f < CurLog
  BY <1>2 DEF DInv, FilesInv, Up
<1>4. CurLog \in Nat /\ Len(logQueue) \in DOMAIN logQueue /\ CurLog = logQueue[Len(logQueue)]
  BY <1>1, <1>3, CurFact DEF QInv, TypeInv
<1>5. CurLog > 0
  BY <1>4 DEF DInv, FilesInv
<1>6. \A f \in DOMAIN logs : f \in Nat
  BY <1>1, LogTypes
<1>7. /\ CurLog \in DOMAIN logs' /\ logs'[CurLog] = <<>>
      /\ \A f \in DOMAIN logs' : f = CurLog \/ f \in DOMAIN logs
  BY <1>2 DEF Put
<1>8. \A f \in DOMAIN logs' : f \in Nat /\ f <= CurLog /\ (f >= meta.min => f = CurLog)
  BY <1>3, <1>4, <1>6, <1>7
<1>9. CurLog' = CurLog
  BY <1>2 DEF CurLog, logVars
<1>10. At(arr)' = At(arr) /\ At(meta.at)' = At(meta.at)
  BY <1>2 DEF At
<1>11. /\ Len(queue') = 1 /\ DOMAIN queue' = {1} /\ queue'[1].log = CurLog /\ queue'[1].mem = 1
       /\ queue'[1].data = Empty
  BY <1>2 DEF Mem
<1>12. \A k \in Keys : queue'[1].data[k] = 0
  BY <1>11, EmptyFact
<1>13. LogOf(1)' = CurLog
  BY <1>4, <1>5, <1>11 DEF LogOf
<1>14. \A t \in trash' : t \in trash \/ (t[1] = "log" /\ t[2] \in Nat /\ t[2] < meta.min)
  BY <1>6 DEF OpenDone
<1> QED BY <1>2, <1>3, <1>4, <1>5, <1>7, <1>8, <1>9, <1>10, <1>11, <1>12, <1>13, <1>14

\* The kinds of steps.
LEMMA DurKinds ==
  ASSUME DInv, [Next]_vars
  PROVE  \/ Quiet \/ Ending \/ FlushInstall \/ Open \/ ReplayWAL \/ Recovered \/ OpenDone
         \/ \E c \in Clients : \/ Prepare(c) \/ SwitchMem(c) \/ Apply(c)
                               \/ \E k \in Keys : Set(c, k) /\ op'[c].kind # "small"
BY DEF Next, Client, Flusher, Recovery, Quiet, Ending

\* File numbers in a quiet step.
LEMMA QuietNumbers ==
  ASSUME DInv, Quiet, NumbersKept
  PROVE  /\ nextFileNum \in Nat /\ nextFileNum' \in Nat /\ nextFileNum <= nextFileNum'
         /\ \A d \in Clients : pc'[d] = "switch" =>
              \/ pc[d] = "switch" /\ op'[d].new = op[d].new
              \/ op'[d].new = nextFileNum /\ nextFileNum' = nextFileNum + 1
<1>0. QInv /\ nextFileNum \in Nat /\ fl.num \in Nat
  BY NumTypes DEF DInv, RInv
<1>1. pc \in [Clients -> ClientPcs] /\ op \in [Clients -> Op]
  BY <1>0 DEF QInv, TypeInv
<1>2. CASE FlushBuild
  <2>1. nextFileNum' \in {fl.num + 1, nextFileNum + 1} /\ pc' = pc /\ op' = op
    BY <1>2 DEF FlushBuild, clientVars
  <2>2. nextFileNum' \in Nat /\ nextFileNum' >= nextFileNum
    BY <1>0, <1>2, <2>1 DEF NumbersKept
  <2> QED BY <1>0, <2>1, <2>2
<1>3. ASSUME NEW c \in Clients, SwitchLog(c)
      PROVE  /\ nextFileNum' = nextFileNum + 1
             /\ \A d \in Clients : d # c => pc'[d] = pc[d] /\ op'[d] = op[d]
             /\ op'[c].new = nextFileNum
  BY <1>1, <1>3 DEF SwitchLog, Op
<1>4. ASSUME NEW c \in Clients, Flush(c) \/ Ack(c) \/ \E k \in Keys : Set(c, k)
      PROVE  /\ nextFileNum' = nextFileNum
             /\ \A d \in Clients : d # c => pc'[d] = pc[d] /\ op'[d] = op[d]
             /\ pc'[c] # "switch"
  BY <1>1, <1>4 DEF Flush, Ack, Set
<1>5. CASE FlushEnd
  <2>1. \A d \in Clients : pc'[d] = "switch" => pc[d] = "switch" /\ op'[d] = op[d]
    BY <1>5 DEF FlushEnd
  <2> QED BY <1>0, <1>5, <2>1 DEF FlushEnd
<1>6. CASE FlushStart \/ FlushNumber \/ FlushDelete \/ SyncLog \/ Close \/ DeleteFile \/ UNCHANGED vars
  <2>1. UNCHANGED <<pc, op, nextFileNum>>
    BY <1>6 DEF FlushStart, FlushNumber, FlushDelete, SyncLog, Close, DeleteFile, vars, clientVars
  <2> QED BY <1>0, <2>1
<1> QED BY <1>0, <1>2, <1>3, <1>4, <1>5, <1>6 DEF Quiet

\* A live database keeps its logs in order (createLog, makeRoomForWrite, flush1).
LEMMA FilesStep ==
  ASSUME DInv, RInv', [Next]_vars, NumbersKept
  PROVE  FilesInv'
<1>0. /\ FilesInv /\ QInv /\ TypeInv /\ QInv' /\ TypeInv'
  BY DEF DInv, RInv, QInv
<1>1. nextFileNum \in Nat /\ nextFileNum' \in Nat /\ meta.min \in Nat
  BY <1>0, NumTypes DEF QInv, TypeInv
<1>2. \A f \in DOMAIN logs : f \in Nat
  BY <1>0, LogTypes
<1>3. logQueue # <<>> => CurLog \in Nat
  BY <1>0, CurFact
<1>4. CASE Quiet
  <2>1. /\ UNCHANGED <<meta, logQueue, queue>>
        /\ status' = status \/ (status = "open" /\ status' = "closing")
        /\ \A f \in DOMAIN logs' : f \in DOMAIN logs /\ logs'[f] = logs[f]
        /\ \A f \in DOMAIN logs : f >= meta.min => f \in DOMAIN logs'
        /\ Live => synced' <= Len(logs[CurLog])
    BY <1>4, QuietFact
  <2>2. CurLog' = CurLog /\ Mutable' = Mutable
    BY <2>1 DEF CurLog, Mutable
  <2>3. (Live' <=> Live) /\ (Up' <=> Up) /\ (status' = "recovered" <=> status = "recovered")
    BY <2>1 DEF Live, Up
  <2>4. nextFileNum <= nextFileNum'
        /\ \A d \in Clients : pc'[d] = "switch" =>
              \/ pc[d] = "switch" /\ op'[d].new = op[d].new
              \/ op'[d].new = nextFileNum /\ nextFileNum' = nextFileNum + 1
    BY <1>4, QuietNumbers
  <2>5. ~Live => synced' = synced
    <3> SUFFICES ASSUME ~Live PROVE synced' = synced
      OBVIOUS
    <3>1. \A c \in Clients : pc[c] = "idle"
      BY <1>0, BusyFact DEF Live
    <3> QED BY <1>4, <3>1 DEF Quiet, vars, logVars, FlushStart, FlushNumber, FlushBuild, FlushDelete,
     FlushEnd, SyncLog, Close, DeleteFile, Flush, SwitchLog, Ack, Set, Live
  <2>6. Up => CurLog < nextFileNum' /\ \A f \in DOMAIN logs' : f <= CurLog
    BY <1>0, <1>1, <1>3, <2>1, <2>4 DEF FilesInv
  <2>7. Live => CurLog \in DOMAIN logs' /\ synced' <= Len(logs'[CurLog])
    BY <1>0, <2>1 DEF FilesInv, Live, Up
  <2>8. ASSUME NEW d \in Clients, pc'[d] = "switch"
        PROVE  op'[d].new > CurLog /\ op'[d].new < nextFileNum'
    <3>1. CASE pc[d] = "switch" /\ op'[d].new = op[d].new
      <4>1. op[d].new > CurLog /\ op[d].new < nextFileNum /\ op[d].new \in Nat
        BY <1>0, <3>1, OpFact DEF FilesInv
      <4> QED BY <1>1, <2>4, <3>1, <4>1
    <3>2. CASE op'[d].new = nextFileNum /\ nextFileNum' = nextFileNum + 1
      <4>1. status' = "open"
        BY <1>0, <2>8 DEF QInv, ModeInv
      <4>2. Up
        BY <2>1, <4>1 DEF Up
      <4>3. CurLog < nextFileNum /\ CurLog \in Nat
        BY <1>0, <1>3, <4>2 DEF FilesInv
      <4> QED BY <1>1, <3>2, <4>3
    <3> QED BY <2>4, <2>8, <3>1, <3>2
  <2>9. status = "recovered" => \A f \in DOMAIN logs' : f < CurLog
    BY <1>0, <2>1 DEF FilesInv
  <2> QED BY <1>0, <2>1, <2>2, <2>3, <2>5, <2>6, <2>7, <2>8, <2>9 DEF FilesInv
<1>5. CASE Ending
  <2>1. logQueue' = <<>> /\ synced' = 0 /\ status' = "closed" /\ \A d \in Clients : pc'[d] = "idle"
    BY <1>5, EndTables DEF Forget
  <2> QED BY <2>1 DEF FilesInv, Up, Live
<1>6. CASE FlushInstall
  <2>1. /\ Live /\ meta'.min = fl.min /\ fl.min <= CurLog /\ CurLog' = CurLog /\ logQueue' # <<>>
        /\ \A i \in DOMAIN logQueue' : logQueue'[i] > 0
        /\ UNCHANGED <<logs, status, nextFileNum, synced, pc, op>>
    BY <1>6, InstallOk
  <2>2. Mutable' = Mutable
    <3>1. /\ queue' = SubSeq(queue, fl.n + 1, Len(queue)) /\ Len(queue') = Len(queue) - fl.n /\ Len(queue') > 0
          /\ \A i \in 1..Len(queue') : queue'[i] = queue[i + fl.n]
      <4>1. FlushInv /\ MetaOk(fl.min) /\ fl.n > 0 /\ fl.n \in Nat /\ fl.n < Len(queue) /\ Len(queue) \in Nat
        BY <1>0, <1>6, InstallOk DEF QInv
      <4>2. queue' = SubSeq(queue, fl.n + 1, Len(queue))
        BY <1>6, <4>1 DEF FlushInstall
      <4>3. queue \in Seq(Table)
        BY <1>0 DEF TypeInv
      <4> QED BY <4>1, <4>2, <4>3, Dropped
    <3>2. fl.n \in Nat /\ Len(queue) \in Nat
      BY <1>6, InstallOk
    <3>3. Len(queue') \in 1..Len(queue') /\ Len(queue') + fl.n = Len(queue)
      BY <3>1, <3>2
    <3> QED BY <3>1, <3>3 DEF Mutable
  <2> QED BY <1>0, <2>1, <2>2 DEF FilesInv, Live, Up
<1>7. CASE Open \/ ReplayWAL
  <2>1. status \in {"closed", "replay"} /\ status' = "replay" /\ UNCHANGED <<logQueue, synced, pc>>
    BY <1>7 DEF Open, ReplayWAL, logVars, clientVars
  <2>2. \A d \in Clients : pc[d] = "idle"
    BY <1>0, <2>1, BusyFact
  <2>3. logQueue = <<>> /\ synced = 0
    BY <1>0, <2>1 DEF FilesInv, Up, Live
  <2> QED BY <2>1, <2>2, <2>3 DEF FilesInv, Up, Live
<1>8. CASE Recovered
  <2>1. /\ status = "replay" /\ status' = "recovered"
        /\ logQueue' = <<nextFileNum>> /\ CurLog' = nextFileNum /\ nextFileNum' = nextFileNum + 1
        /\ meta'.min = nextFileNum /\ nextFileNum > 0
        /\ \A f \in DOMAIN logs : f < nextFileNum
        /\ UNCHANGED <<logs, synced, clientVars>>
    BY <1>8, RecoveredFact
  <2>2. \A d \in Clients : pc'[d] = "idle"
    BY <1>0, <2>1, BusyFact DEF clientVars
  <2>3. synced' = 0
    BY <1>0, <2>1 DEF FilesInv, Live
  <2>4. logQueue' # <<>> /\ \A i \in DOMAIN logQueue' : logQueue'[i] > 0
    BY <1>1, <2>1
  <2> QED BY <1>1, <1>2, <2>1, <2>2, <2>3, <2>4 DEF FilesInv, Up, Live
<1>9. CASE OpenDone
  <2>1. /\ status = "recovered" /\ status' = "open" /\ CurLog' = CurLog
        /\ CurLog \in Nat /\ CurLog > 0 /\ meta.min = CurLog
        /\ CurLog \in DOMAIN logs' /\ logs'[CurLog] = <<>>
        /\ \A f \in DOMAIN logs' : f \in Nat /\ f <= CurLog
        /\ UNCHANGED <<meta, nextFileNum, logVars, clientVars>>
        /\ Len(queue') = 1 /\ queue'[1].log = CurLog
    BY <1>9, OpenDoneFact
  <2>2. \A d \in Clients : pc'[d] = "idle"
    BY <1>0, <2>1, BusyFact DEF clientVars
  <2>3. synced' = 0 /\ logQueue' = logQueue
    BY <1>0, <2>1 DEF FilesInv, Live, logVars
  <2>4. Mutable'.log = CurLog /\ Len(logs'[CurLog]) = 0
    BY <2>1 DEF Mutable
  <2>5. CurLog < nextFileNum /\ logQueue # <<>> /\ \A i \in DOMAIN logQueue : logQueue[i] > 0
    BY <1>0, <2>1 DEF FilesInv, Up
  <2> QED BY <2>1, <2>2, <2>3, <2>4, <2>5 DEF FilesInv, Up, Live
<1>10. ASSUME NEW c \in Clients, Prepare(c) \/ \E k \in Keys : Set(c, k) /\ op'[c].kind # "small"
       PROVE  FilesInv'
  <2>1. /\ \E r \in Record : Appended(r)
        /\ UNCHANGED <<meta, logQueue, status, synced, nextFileNum>> /\ status = "open"
        /\ \A d \in Clients : d # c => pc'[d] = pc[d] /\ op'[d] = op[d]
        /\ pc'[c] # "switch"
        /\ Len(queue') = Len(queue) /\ queue # <<>>
        /\ \A i \in DOMAIN queue : queue'[i].log = queue[i].log
    <3>1. CASE Prepare(c)
      BY <3>1, PrepareLogs
    <3>2. CASE ~Prepare(c)
      <4>1. PICK k \in Keys : Set(c, k) /\ op'[c].kind # "small"
        BY <1>10, <3>2
      <4> QED BY <1>0, <4>1, SetLarge DEF QInv, ModeInv, Live
    <3> QED BY <1>10, <3>1, <3>2
  <2>2. PICK r \in Record : Appended(r)
    BY <2>1
  <2>3. CurLog' = CurLog
    BY <2>1 DEF CurLog
  <2>4. Mutable'.log = Mutable.log
    BY <1>0, <2>1, MutableFact DEF Mutable
  <2>5. CurLog \in DOMAIN logs /\ synced <= Len(logs[CurLog]) /\ Mutable.log = CurLog
    BY <1>0, <2>1 DEF FilesInv, Live
  <2>6. CurLog \in DOMAIN logs' /\ synced' <= Len(logs'[CurLog])
    <3>1. logs'[CurLog] \in Seq(Record) /\ Len(logs[CurLog]) \in Nat /\ CurLog \in DOMAIN logs'
      BY <1>0, <2>2, <2>5, LogTypes DEF Appended, QInv, DiskInv
    <3>2. Len(logs'[CurLog]) = Len(logs[CurLog]) + 1
      BY <2>2, <3>1 DEF Appended
    <3>3. synced \in Nat
      BY DEF DInv, KindInv
    <3> QED BY <2>1, <2>5, <3>1, <3>2, <3>3
  <2>7. DOMAIN logs' = DOMAIN logs
    BY <2>2 DEF Appended
  <2> QED BY <1>0, <2>1, <2>3, <2>4, <2>5, <2>6, <2>7 DEF FilesInv, Live, Up
<1>11. ASSUME NEW c \in Clients, SwitchMem(c) PROVE FilesInv'
  <2>1. /\ status = "open" /\ status' = status /\ op[c].new \in Nat /\ op[c].new > CurLog
        /\ op[c].new < nextFileNum /\ op[c].new >= meta.min
        /\ op[c].new \in DOMAIN logs' /\ logs'[op[c].new] = <<>>
        /\ \A f \in DOMAIN logs' : f = op[c].new \/ f \in DOMAIN logs
        /\ logQueue' = Append(logQueue, op[c].new) /\ CurLog' = op[c].new /\ logQueue' # <<>>
        /\ UNCHANGED <<meta, nextFileNum>> /\ synced' = 0
    BY <1>11, SwitchLogs
  <2>2. queue'[Len(queue')].log = op[c].new
    BY <1>11, SwitchTables
  <2>3. \A d \in Clients : pc'[d] # "switch"
    BY <1>11, SwitchHands
  <2>4. Up /\ logQueue # <<>>
    BY <1>0, <2>1 DEF Up, FilesInv
  <2>5. \A f \in DOMAIN logs' : f <= op[c].new
    BY <1>0, <1>2, <1>3, <2>1, <2>4 DEF FilesInv
  <2>6. \A i \in DOMAIN logQueue' : logQueue'[i] > 0
    <3>1. logQueue \in Seq(Nat) /\ CurLog \in Nat /\ op[c].new > 0
      BY <1>0, <1>3, <2>1, <2>4 DEF TypeInv
    <3>2. \A i \in DOMAIN logQueue' :
            \/ i \in DOMAIN logQueue /\ logQueue'[i] = logQueue[i]
            \/ logQueue'[i] = op[c].new
      BY <2>1, <3>1
    <3> QED BY <1>0, <3>1, <3>2 DEF FilesInv
  <2>7. Len(logs'[op[c].new]) = 0
    BY <2>1
  <2> QED BY <2>1, <2>2, <2>3, <2>5, <2>6, <2>7 DEF FilesInv, Up, Live, Mutable
<1>12. ASSUME NEW c \in Clients, Apply(c) PROVE FilesInv'
  <2>1. UNCHANGED <<meta, logs, status, nextFileNum, logQueue, synced, op>>
    BY <1>12 DEF Apply, diskVars, logVars
  <2>2. /\ Len(queue') = Len(queue) /\ \A i \in 1..Len(queue) : queue'[i].log = queue[i].log
    BY <1>0, <1>12, ApplyShape DEF QInv
  <2>3. queue # <<>> /\ pc[c] = "apply"
    BY <1>0, <1>12, BusyFact DEF Apply
  <2>4. Mutable'.log = Mutable.log /\ CurLog' = CurLog
    BY <1>0, <2>1, <2>2, <2>3, MutableFact DEF Mutable, CurLog
  <2>5. pc' = [pc EXCEPT ![c] = "ack"] /\ pc \in [Clients -> ClientPcs]
    BY <1>0, <1>12 DEF Apply, TypeInv
  <2>6. \A d \in Clients : pc'[d] = "switch" => pc[d] = "switch"
    BY <2>5
  <2> QED BY <1>0, <2>1, <2>4, <2>6 DEF FilesInv, Up, Live
<1> QED BY <1>4, <1>5, <1>6, <1>7, <1>8, <1>9, <1>10, <1>11, <1>12, DurKinds

\* Max of two numbers is one of them.
LEMMA MaxOfTwo ==
  ASSUME NEW x \in Nat, NEW y \in Nat
  PROVE  /\ Max({x, y}) \in {x, y} /\ Max({x, y}) >= x /\ Max({x, y}) >= y
<1> DEFINE T == {x, y}
<1>1. T \subseteq Nat /\ T # {} /\ \A z \in T : z <= x + y
  OBVIOUS
<1>2. x + y \in Nat
  OBVIOUS
<1>3. x \in T /\ y \in T
  OBVIOUS
<1> HIDE DEF T
<1>4. Max(T) \in T /\ \A z \in T : Max(T) >= z
  BY <1>1, <1>2, MaxFact
<1> QED BY <1>3, <1>4 DEF T

\* Min of two numbers is one of them.
LEMMA MinOfTwo ==
  ASSUME NEW x \in Nat, NEW y \in Nat
  PROVE  /\ Min({x, y}) \in {x, y} /\ Min({x, y}) <= x /\ Min({x, y}) <= y
<1> DEFINE T == {x, y}
<1>1. T \subseteq Nat /\ T # {} /\ x \in T /\ y \in T
  OBVIOUS
<1> HIDE DEF T
<1>2. Min(T) \in T /\ \A z \in T : Min(T) <= z
  BY <1>1, MinFact
<1> QED BY <1>1, <1>2 DEF T

\* A list after another.
LEMMA NatJoin ==
  ASSUME NEW s \in Seq(Nat), NEW t \in Seq(Nat)
  PROVE  /\ s \o t \in Seq(Nat) /\ DOMAIN (s \o t) = 1..(Len(s) + Len(t))
         /\ \A i \in 1..Len(s) : (s \o t)[i] = s[i]
         /\ \A i \in 1..Len(t) : (s \o t)[Len(s) + i] = t[i]
<1>1. s \o t \in Seq(Nat) /\ Len(s \o t) = Len(s) + Len(t)
  OBVIOUS
<1>2. \A i \in 1..Len(s) : (s \o t)[i] = s[i]
  OBVIOUS
<1>3. \A i \in 1..Len(t) : (s \o t)[Len(s) + i] = t[i]
  OBVIOUS
<1>4. DOMAIN (s \o t) = 1..(Len(s) + Len(t))
  BY <1>1
<1> QED BY <1>1, <1>2, <1>3, <1>4

\* logRecycler.add keeps what it has and some of what it is given.
LEMMA RecyclerFact ==
  ASSUME NEW r \in Recyclers, NEW m \in Nat, NEW S, \A f \in S : f \in Nat /\ 0 < f /\ f < m
  PROVE  /\ RecyclerAdd(r, S) \in Recyclers
         /\ \A i \in DOMAIN RecyclerAdd(r, S).logs :
              \/ RecyclerAdd(r, S).logs[i] \in S
              \/ i \in DOMAIN r.logs /\ RecyclerAdd(r, S).logs[i] = r.logs[i]
         /\ RecyclerRefuses(r, S) \subseteq S
<1> DEFINE new == {f \in S : r.min <= f /\ r.max < f}
           room == StopWrites + 1 - Len(r.logs)
           taken == {f \in new : Cardinality({g \in new : g < f}) < room}
           q == Ascending(taken)
           n == Cardinality(taken)
           x == Max(new \cup {r.max})
<1>1. RecyclerAdd(r, S) = [r EXCEPT !.logs = r.logs \o q, !.max = x]
  BY DEF RecyclerAdd
<1>2. r.logs \in Seq(Nat) /\ r.max \in Nat /\ r.min \in Nat
  BY DEF Recyclers
<1>3. taken \in SUBSET (1..m) /\ taken \subseteq S
  <2>1. \A f \in S : f \in 1..m
    OBVIOUS
  <2> QED BY <2>1
<1>4. x \in Nat
  <2> DEFINE T == new \cup {r.max}
  <2>1. T \subseteq Nat /\ T # {} /\ \A y \in T : y <= m + r.max
    BY <1>2
  <2>2. m + r.max \in Nat
    BY <1>2
  <2> HIDE DEF T
  <2>3. Max(T) \in T
    BY <2>1, <2>2, MaxFact
  <2> QED BY <2>1, <2>3 DEF T
<1> HIDE DEF taken, x
<1>5. n \in Nat /\ q \in [1..n -> taken]
  BY <1>3, AscendingFact
<1> HIDE DEF q, n
<1>6. q \in Seq(Nat) /\ DOMAIN q = 1..n /\ Len(q) = n
  <2>1. q \in [1..n -> Nat]
    BY <1>3, <1>5
  <2>2. q \in Seq(Nat)
    BY <1>5, <2>1, SeqDef
  <2> QED BY <1>5, <2>2
<1> DEFINE l == r.logs \o q
<1>7. /\ l \in Seq(Nat) /\ DOMAIN l = 1..(Len(r.logs) + Len(q))
      /\ \A i \in 1..Len(r.logs) : l[i] = r.logs[i]
      /\ \A i \in 1..Len(q) : l[Len(r.logs) + i] = q[i]
  BY <1>2, <1>6, NatJoin
<1>8. ASSUME NEW i \in DOMAIN l
      PROVE  l[i] \in S \/ (i \in DOMAIN r.logs /\ l[i] = r.logs[i])
  <2>0. Len(r.logs) \in Nat /\ DOMAIN r.logs = 1..Len(r.logs)
    BY <1>2
  <2>1. CASE i <= Len(r.logs)
    BY <1>5, <1>6, <1>7, <2>0, <2>1
  <2>2. CASE i > Len(r.logs)
    <3>1. PICK j \in 1..Len(q) : i = Len(r.logs) + j
      <4>1. i - Len(r.logs) \in 1..Len(q)
        BY <1>5, <1>6, <1>7, <2>0, <2>2
      <4>2. i \in Nat
        BY <1>5, <1>6, <1>7, <2>0
      <4>3. i = Len(r.logs) + (i - Len(r.logs))
        BY <2>0, <4>2
      <4> QED BY <4>1, <4>3
    <3>2. l[i] = q[j] /\ q[j] \in taken
      BY <1>5, <1>6, <1>7, <3>1
    <3> QED BY <1>3, <3>2
  <2> QED BY <1>5, <1>6, <1>7, <2>0, <2>1, <2>2
<1> HIDE DEF l
<1>9. RecyclerAdd(r, S) = [r EXCEPT !.logs = l, !.max = x]
  BY <1>1 DEF l
<1>10. RecyclerAdd(r, S) \in Recyclers /\ RecyclerAdd(r, S).logs = l
  BY <1>4, <1>7, <1>9 DEF Recyclers
<1>11. RecyclerRefuses(r, S) \subseteq S
  BY DEF RecyclerRefuses
<1> QED BY <1>8, <1>10, <1>11

\* What a new process would read is what a record says or the recorded array table.
LEMMA SurvivesFact ==
  ASSUME DInv, NEW k \in Keys
  PROVE  LET found == {y \in Recoverable : y.key = k} IN
         /\ Survives(k) \in Nat
         /\ \A y \in found : y.seq <= Survives(k)
         /\ \/ found = {} /\ Survives(k) = At(meta.at)[k]
            \/ \E y \in found : y.seq = Survives(k)
<1> DEFINE found == {y \in Recoverable : y.key = k}
           T == {x.seq : x \in found}
<1>0. QInv /\ AtsInv
  BY DEF DInv, RInv
<1>1. At(meta.at) \in Data
  BY <1>0, AtFact
<1>2. PICK b \in Nat : \A f \in DOMAIN logs : f >= meta.min => \A p \in DOMAIN logs[f] : logs[f][p].seq <= b
  BY DEF DInv, KindInv
<1>3. \A y \in Recoverable : y.seq \in Nat /\ y.seq <= b
  <2> SUFFICES ASSUME NEW y \in Recoverable PROVE y.seq \in Nat /\ y.seq <= b
    OBVIOUS
  <2>1. PICK f \in DOMAIN logs : /\ f >= meta.min
                                 /\ y \in {logs[f][i] : i \in 1..(IF logQueue # <<>> /\ f = CurLog
                                                               THEN synced ELSE Len(logs[f]))}
    BY DEF Recoverable
  <2>2. PICK i \in 1..(IF logQueue # <<>> /\ f = CurLog THEN synced ELSE Len(logs[f])) : y = logs[f][i]
    BY <2>1
  <2>3. Len(logs[f]) \in Nat /\ DOMAIN logs[f] = 1..Len(logs[f])
    BY <1>0, LogTypes
  <2>4. i \in DOMAIN logs[f]
    <3>1. CASE logQueue # <<>> /\ f = CurLog
      <4>1. synced <= Len(logs[f]) /\ synced \in Nat
        <5>1. f \in Nat /\ Up
          BY <1>0, <3>1, LogTypes DEF DInv, FilesInv
        <5>2. Live
          BY <3>1, <5>1 DEF DInv, FilesInv, Up, Live
        <5> QED BY <3>1, <5>2 DEF DInv, FilesInv, KindInv
      <4> QED BY <2>2, <2>3, <3>1, <4>1
    <3>2. CASE ~(logQueue # <<>> /\ f = CurLog)
      BY <2>2, <2>3, <3>2
    <3> QED BY <3>1, <3>2
  <2> QED BY <1>0, <1>2, <2>1, <2>2, <2>4, LogTypes
<1>4. T \subseteq Nat /\ \A z \in T : z <= b
  BY <1>3
<1>5. Survives(k) = IF T = {} THEN At(meta.at)[k] ELSE Max(T)
  BY DEF Survives
<1>6. \A y \in found : y.seq \in T
  OBVIOUS
<1>7. CASE T = {}
  <2>1. found = {}
    BY <1>6, <1>7
  <2>2. Survives(k) = At(meta.at)[k] /\ Survives(k) \in Nat
    BY <1>1, <1>5, <1>7 DEF Data
  <2> QED BY <2>1, <2>2
<1>8. CASE T # {}
  <2>1. Max(T) \in T /\ \A z \in T : Max(T) >= z
    <3> HIDE DEF T
    <3> QED BY <1>2, <1>4, <1>8, MaxFact
  <2>2. Survives(k) = Max(T)
    BY <1>5, <1>8
  <2>3. \E y \in found : y.seq = Survives(k)
    BY <2>1, <2>2
  <2>4. \A y \in found : y.seq <= Survives(k)
    <3> HIDE DEF T, found
    <3>1. Max(T) \in Nat
      BY <1>4, <2>1
    <3> QED BY <1>4, <1>6, <2>1, <2>2, <3>1
  <2>5. Survives(k) \in Nat
    <3> HIDE DEF T
    <3> QED BY <1>4, <2>1, <2>2
  <2> QED BY <2>3, <2>4, <2>5
<1> QED BY <1>7, <1>8

\* When a flush ends, what its clients wait for is in the array table in use.
LEMMA EndFloor ==
  ASSUME DInv, FlushEnd
  PROVE  floor' \in Data /\ \A k \in Keys : floor'[k] = floor[k] \/ floor'[k] = At(arr)[k]
<1>0. AtsInv /\ floor \in Data /\ NumInv /\ arr \in Nat /\ QInv
  BY NumTypes DEF DInv, RInv, KindInv
<1>1. flushPc = "release" /\ fl.ok
  BY DEF DInv, TakenInv, FlushEnd
<1>2. arr = fl.num /\ fl.old < arr /\ fl.old \in Nat
  BY <1>0, <1>1, NumTypes DEF NumInv
<1>3. arr \in DOMAIN ats
  BY <1>0, <1>2 DEF DInv, ArrInv
<1>4. ats[fl.num] = At(arr) /\ At(arr) \in Data
  BY <1>0, <1>2, <1>3, AtFact DEF At
<1>5. floor' = floor \/ floor' = [k \in Keys |-> Max({floor[k], At(arr)[k]})]
  BY <1>4 DEF FlushEnd
<1>6. \A k \in Keys : /\ Max({floor[k], At(arr)[k]}) \in Nat
                      /\ Max({floor[k], At(arr)[k]}) \in {floor[k], At(arr)[k]}
  <2> TAKE k \in Keys
  <2>1. floor[k] \in Nat /\ At(arr)[k] \in Nat
    BY <1>0, <1>4 DEF Data
  <2> QED BY <2>1, MaxOfTwo
<1> QED BY <1>0, <1>5, <1>6 DEF Data

\* What a clean Close leaves is what readers see.
LEMMA CloseFloor ==
  ASSUME DInv, CloseDone
  PROVE  Live /\ \A k \in Keys : floor'[k] = latest[k] /\ latest[k] \in Nat
<1>1. Live
  BY DEF CloseDone, Live
<1>2. \A k \in Keys : Get(k) = latest[k]
  BY <1>1, GetFact DEF DInv, RInv, QInv, LatestInv
<1>3. \A k \in Keys : latest[k] \in Nat
  BY DataFact DEF DInv
<1>4. floor' = [k \in Keys |-> Get(k)]
  BY DEF CloseDone
<1> QED BY <1>1, <1>2, <1>3, <1>4

\* Opening asks for no more than what survives.
LEMMA OpenFloor ==
  ASSUME DInv, Open
  PROVE  /\ floor' \in Data
         /\ \A k \in Keys : /\ lapse = {} => floor'[k] = floor[k]
                            /\ lapse # {} => floor'[k] <= Survives(k)
<1>1. floor \in Data /\ \A k \in Keys : floor[k] \in Nat
  BY DEF DInv, KindInv, Data
<1>2. CASE lapse = {}
  BY <1>1, <1>2 DEF Open
<1>3. CASE lapse # {}
  <2>1. floor' = [k \in Keys |-> Min({floor[k], Survives(k)})]
    BY <1>3 DEF Open
  <2>2. \A k \in Keys : Min({floor[k], Survives(k)}) \in Nat /\ Min({floor[k], Survives(k)}) <= Survives(k)
    <3> TAKE k \in Keys
    <3>1. Survives(k) \in Nat
      BY SurvivesFact
    <3> QED BY <1>1, <3>1, MinOfTwo
  <2> QED BY <1>3, <2>1, <2>2 DEF Data
<1> QED BY <1>2, <1>3

\* doDeleteObsoleteFiles gives up, in a quiet step, only logs that recovery does not read.
LEMMA QuietGone ==
  ASSUME DInv, Quiet
  PROVE  /\ \A t \in trash' : t \in trash \/ t[1] = "at" \/ (t[1] = "log" /\ t[2] \in Nat /\ t[2] < meta.min)
         /\ recycler' \in Recyclers
         /\ \A i \in DOMAIN recycler'.logs : recycler'.logs[i] < meta.min
         /\ flushPc' = "delete" => flushPc = "delete" /\ fl' = fl
         /\ ~Live => recycler' = recycler
<1>0. /\ recycler \in Recyclers /\ QInv /\ meta.min \in Nat
      /\ \A i \in DOMAIN recycler.logs : recycler.logs[i] < meta.min
  BY NumTypes DEF DInv, KindInv, GoneInv, RInv
<1>1. CASE FlushDelete
  <2>1. /\ recycler' = RecyclerAdd(recycler, fl.logs) /\ flushPc = "delete" /\ flushPc' = "release"
        /\ trash' = trash \cup {<<"log", f>> : f \in RecyclerRefuses(recycler, fl.logs)}
    BY <1>1 DEF FlushDelete
  <2>2. fl.logs \subseteq Nat
    BY <1>0 DEF QInv, TypeInv, Flushes, FileSets
  <2>3. \A f \in fl.logs : f \in Nat /\ 0 < f /\ f < meta.min
    BY <2>1, <2>2 DEF DInv, GoneInv
  <2>4. /\ RecyclerAdd(recycler, fl.logs) \in Recyclers
        /\ \A i \in DOMAIN RecyclerAdd(recycler, fl.logs).logs :
              \/ RecyclerAdd(recycler, fl.logs).logs[i] \in fl.logs
              \/ i \in DOMAIN recycler.logs /\ RecyclerAdd(recycler, fl.logs).logs[i] = recycler.logs[i]
        /\ RecyclerRefuses(recycler, fl.logs) \subseteq fl.logs
    BY <1>0, <2>3, RecyclerFact
  <2>5. \A t \in trash' : t \in trash \/ (t[1] = "log" /\ t[2] \in Nat /\ t[2] < meta.min)
    BY <2>1, <2>3, <2>4
  <2>6. \A i \in DOMAIN recycler'.logs : recycler'.logs[i] < meta.min
    BY <1>0, <2>1, <2>3, <2>4
  <2>7. Live
    BY <1>0, <2>1, FlushLive DEF Live
  <2> QED BY <2>1, <2>4, <2>5, <2>6, <2>7
<1>2. CASE FlushEnd
  <2>1. recycler' = recycler /\ flushPc' \in {"none", "start"} /\ \A t \in trash' : t \in trash \/ t[1] = "at"
    BY <1>2, NewFlush DEF FlushEnd, logVars
  <2> QED BY <1>0, <2>1
<1>3. CASE ~FlushDelete /\ ~FlushEnd
  <2>1. recycler' = recycler /\ trash' \subseteq trash
    BY <1>3 DEF Quiet, vars, logVars, FlushStart, FlushNumber, FlushBuild, SyncLog, Close, DeleteFile,
       Flush, SwitchLog, Ack, Set
  <2>2. flushPc' = "delete" => flushPc = "delete" /\ fl' = fl
    BY <1>3, NewFlush DEF Quiet, vars, flushVars, FlushStart, FlushNumber, FlushBuild, SyncLog, Close,
       DeleteFile, Flush, SwitchLog, Ack, Set
  <2> QED BY <1>0, <2>1, <2>2
<1> QED BY <1>1, <1>2, <1>3

\* What goes is below what recovery reads (doDeleteObsoleteFiles, scanObsoleteFiles).
LEMMA GoneStep ==
  ASSUME DInv, RInv', [Next]_vars
  PROVE  GoneInv'
<1>0. /\ GoneInv /\ KindInv /\ QInv /\ meta.min \in Nat /\ recycler.logs \in Seq(Nat)
      /\ \A t \in trash : t[1] = "log" => t[2] \in Nat /\ t[2] < meta.min
  BY NumTypes DEF DInv, RInv, GoneInv, KindInv, Recyclers
<1>1. CASE Quiet
  <2>1. meta' = meta /\ (Live' <=> Live)
    BY <1>1, QuietFact DEF Live
  <2>2. /\ \A t \in trash' : t \in trash \/ t[1] = "at" \/ (t[1] = "log" /\ t[2] \in Nat /\ t[2] < meta.min)
        /\ \A i \in DOMAIN recycler'.logs : recycler'.logs[i] < meta.min
        /\ flushPc' = "delete" => flushPc = "delete" /\ fl' = fl
        /\ ~Live => recycler' = recycler
    BY <1>1, QuietGone
  <2> QED BY <1>0, <2>1, <2>2 DEF GoneInv
<1>2. CASE Ending
  <2>1. recycler'.logs = <<>> /\ trash' = {} /\ flushPc' = "none"
    BY <1>2, EndTables DEF Forget
  <2> QED BY <2>1 DEF GoneInv
<1>3. CASE FlushInstall
  <2>1. /\ Live /\ meta'.min = fl.min /\ meta.min <= fl.min /\ fl.min \in Nat
        /\ \A f \in fl'.logs : f \in Nat /\ 0 < f /\ f < fl.min
        /\ UNCHANGED <<status, recycler, trash>>
    BY <1>3, InstallOk
  <2>2. \A i \in DOMAIN recycler.logs : recycler.logs[i] \in Nat
    BY <1>0
  <2>3. \A i \in DOMAIN recycler.logs : recycler.logs[i] < fl.min
    BY <1>0, <2>1, <2>2 DEF GoneInv
  <2>4. \A t \in trash : t[1] = "log" => t[2] < fl.min
    BY <1>0, <2>1
  <2> QED BY <2>1, <2>3, <2>4 DEF GoneInv, Live
<1>4. CASE Open \/ ReplayWAL
  <2>1. /\ status # "open" /\ status # "closing" /\ status' = "replay" /\ flushPc' = "none"
        /\ meta' = meta /\ recycler'.logs = recycler.logs
        /\ \A t \in trash' : t \in trash \/ t[1] = "at"
    <3>1. CASE Open
      BY <3>1, OpenFact, OpeningFact DEF DInv
    <3>2. CASE ReplayWAL
      BY <3>2, ReplayFact, OpeningFact DEF DInv, logVars
    <3> QED BY <1>4, <3>1, <3>2
  <2> QED BY <1>0, <2>1 DEF GoneInv, Live
<1>5. CASE Recovered
  <2>1. /\ status = "replay" /\ status' = "recovered"
        /\ UNCHANGED <<recycler, trash, flushVars>>
    BY <1>5, RecoveredFact
  <2>2. recycler.logs = <<>> /\ flushPc = "none"
    BY <1>0, <2>1 DEF GoneInv, Live, QInv, ModeInv
  <2>3. \A t \in trash : t[1] # "log"
    BY <1>0, <2>1 DEF QInv, DiskInv
  <2> QED BY <2>1, <2>2, <2>3 DEF GoneInv, flushVars
<1>6. CASE OpenDone
  <2>1. /\ status = "recovered" /\ status' = "open"
        /\ UNCHANGED <<meta, logVars, flushVars>>
        /\ \A t \in trash' : t \in trash \/ (t[1] = "log" /\ t[2] \in Nat /\ t[2] < meta.min)
    BY <1>6, OpenDoneFact
  <2> QED BY <1>0, <2>1 DEF GoneInv, flushVars, logVars, Live
<1>7. ASSUME NEW c \in Clients, SwitchMem(c)
      PROVE  GoneInv'
  <2>1. /\ UNCHANGED <<meta, trash, fl, status>> /\ status = "open"
        /\ \A i \in DOMAIN recycler'.logs : recycler'.logs[i] < meta.min
    BY <1>7, SwitchLogs
  <2>2. flushPc' = "delete" => flushPc = "delete"
    BY <1>7 DEF SwitchMem, ScheduleFlush
  <2> QED BY <1>0, <2>1, <2>2 DEF GoneInv, Live
<1>8. ASSUME NEW c \in Clients, Apply(c)
      PROVE  GoneInv'
  <2>1. UNCHANGED <<meta, trash, fl, status, recycler>>
    BY <1>8 DEF Apply, diskVars, logVars
  <2>2. flushPc' = "delete" => flushPc = "delete"
    BY <1>8 DEF Apply, ScheduleFlush
  <2> QED BY <1>0, <2>1, <2>2 DEF GoneInv, Live
<1>9. ASSUME NEW c \in Clients, Prepare(c) \/ \E k \in Keys : Set(c, k) /\ op'[c].kind # "small"
      PROVE  GoneInv'
  <2>1. UNCHANGED <<meta, trash, fl, status, recycler, flushPc>>
    BY <1>9, PrepareLogs, SetLarge
  <2> QED BY <1>0, <2>1 DEF GoneInv, Live
<1> QED BY <1>1, <1>2, <1>3, <1>4, <1>5, <1>6, <1>7, <1>8, <1>9, DurKinds

\* The types hold on.
LEMMA KindStep ==
  ASSUME DInv, RInv', [Next]_vars
  PROVE  KindInv'
<1>0. /\ KindInv /\ QInv /\ meta.min \in Nat /\ TypeInv /\ AckInv
  BY NumTypes DEF DInv, RInv, QInv
<1>1. place' \in [Clients -> Nat \X Nat]
  <2>1. CASE Ending
    BY <2>1, EndTables DEF Forget, NoPlace
  <2>2. ASSUME NEW c \in Clients, Ack(c) PROVE place' \in [Clients -> Nat \X Nat]
    BY <1>0, <2>2 DEF Ack, KindInv, NoPlace
  <2>3. ASSUME NEW c \in Clients, Prepare(c) PROVE place' \in [Clients -> Nat \X Nat]
    <3>1. CurLog \in Nat /\ CurLog \in DOMAIN logs
      BY <2>3, PrepareLogs, LogOfFact DEF Live
    <3>2. <<CurLog, Len(logs[CurLog]) + 1>> \in Nat \X Nat
      BY <1>0, <3>1, LogTypes
    <3>3. place' = IF op[c].sync THEN [place EXCEPT ![c] = <<CurLog, Len(logs[CurLog]) + 1>>] ELSE place
      BY <2>3 DEF Prepare
    <3> QED BY <1>0, <3>2, <3>3 DEF KindInv
  <2>4. CASE ~Ending /\ \A c \in Clients : ~Ack(c) /\ ~Prepare(c)
    <3>1. place' = place
      BY <2>4 DEF Next, Client, Flusher, Recovery, Ending, vars, clientVars, FlushStart, FlushNumber,
         FlushBuild, FlushInstall, FlushDelete, FlushEnd, SyncLog, DeleteFile, Open, ReplayWAL,
         Recovered, OpenDone, Close, Flush, Set, SwitchLog, SwitchMem, Apply
    <3> QED BY <1>0, <3>1 DEF KindInv
  <2> QED BY <2>1, <2>2, <2>3, <2>4
<1>2. synced' \in Nat
  <2>1. CASE Quiet
    BY <2>1, QuietFact
  <2>2. CASE Ending
    BY <2>2, EndTables DEF Forget
  <2>3. CASE ~Quiet /\ ~Ending
    <3>1. synced' = synced \/ synced' = 0
      BY <2>3, DurKinds, SetLarge, PrepareLogs DEF FlushInstall, Open, ReplayWAL, Recovered,
         OpenDone, SwitchMem, Apply, logVars
    <3> QED BY <1>0, <3>1 DEF KindInv
  <2> QED BY <2>1, <2>2, <2>3
<1>3. floor' \in Data
  <2>0. floor \in Data
    BY <1>0 DEF KindInv
  <2>1. CASE FlushEnd
    BY <2>1, EndFloor
  <2>2. ASSUME NEW c \in Clients, Ack(c) PROVE floor' \in Data
    <3>1. op[c].key \in Keys /\ op[c].seq \in Nat
      BY <1>0, <2>2, OpFact DEF Ack, AckInv
    <3>2. floor' = floor \/ floor' = Upd(floor, op[c].key, op[c].seq)
      BY <2>2 DEF Ack
    <3> QED BY <2>0, <3>1, <3>2, UpdFact
  <2>3. CASE CloseDone
    <3>1. \A k \in Keys : floor'[k] = latest[k] /\ latest[k] \in Nat
      BY <2>3, CloseFloor
    <3>2. floor' = [k \in Keys |-> Get(k)]
      BY <2>3 DEF CloseDone
    <3> QED BY <3>1, <3>2 DEF Data
  <2>4. CASE Open
    BY <2>4, OpenFloor
  <2>5. CASE ~FlushEnd /\ ~CloseDone /\ ~Open /\ \A c \in Clients : ~Ack(c)
    <3>1. floor' = floor
      BY <2>5 DEF Next, Client, Flusher, Recovery, vars, histVars, FlushStart, FlushNumber,
         FlushBuild, FlushInstall, FlushDelete, SyncLog, DeleteFile, ReplayWAL, OpenFails,
         Recovered, OpenDone, Close, Flush, Set, SwitchLog, SwitchMem, Apply, Prepare, Crash, CrashInMetaEdit
    <3> QED BY <2>0, <3>1
  <2> QED BY <2>1, <2>2, <2>3, <2>4, <2>5
<1>4. recycler' \in Recyclers /\ \A t \in trash' : t[1] = "log" => t[2] \in Nat
  <2>1. CASE Quiet
    BY <1>0, <2>1, QuietGone DEF KindInv
  <2>2. CASE Ending
    <3>1. recycler' = [logs |-> <<>>, max |-> 0, min |-> 0] /\ trash' = {}
      BY <2>2, EndTables DEF Forget
    <3>2. <<>> \in Seq(Nat)
      OBVIOUS
    <3> QED BY <3>1, <3>2 DEF Recyclers
  <2>3. CASE Open
    BY <2>3, OpenFact
  <2>4. CASE OpenDone
    BY <1>0, <2>4, OpenDoneFact DEF KindInv, logVars
  <2>5. CASE ReplayWAL
    BY <1>0, <2>5, ReplayFact DEF KindInv, logVars
  <2>6. CASE FlushInstall \/ Recovered
    BY <1>0, <2>6, InstallOk, RecoveredFact DEF KindInv
  <2>7. ASSUME NEW c \in Clients, SwitchMem(c) PROVE recycler' \in Recyclers /\ trash' = trash
    BY <2>7, SwitchLogs
  <2>8. ASSUME NEW c \in Clients, Apply(c) PROVE recycler' = recycler /\ trash' = trash
    BY <2>8 DEF Apply, logVars
  <2>9. ASSUME NEW c \in Clients, Prepare(c) \/ \E k \in Keys : Set(c, k) /\ op'[c].kind # "small"
        PROVE  recycler' = recycler /\ trash' = trash
    BY <2>9, PrepareLogs, SetLarge
  <2> QED BY <1>0, <2>1, <2>2, <2>3, <2>4, <2>5, <2>6, <2>7, <2>8, <2>9, DurKinds DEF KindInv
<1>5. \E b \in Nat : \A f \in DOMAIN logs' : f >= meta'.min => \A p \in DOMAIN logs'[f] : logs'[f][p].seq <= b
  <2>1. CASE status' \in {"recovered", "open", "closing"}
    <3>1. logSeqNum' \in Nat /\ QInv'
      BY DEF RInv, QInv, TypeInv
    <3>2. \A f \in DOMAIN logs' : f >= meta'.min => \A p \in DOMAIN logs'[f] : logs'[f][p].seq < logSeqNum'
      BY <2>1 DEF RInv, LogInv
    <3>3. \A f \in DOMAIN logs' : f >= meta'.min => \A p \in DOMAIN logs'[f] : logs'[f][p].seq \in Nat
      <4>1. \A f \in DOMAIN logs' : logs'[f] \in Seq(Record)
        BY <3>1 DEF QInv, DiskInv
      <4>2. \A f \in DOMAIN logs' : \A p \in DOMAIN logs'[f] : logs'[f][p] \in Record
        BY <4>1
      <4> QED BY <4>2 DEF Record
    <3> QED BY <3>1, <3>2, <3>3
  <2>2. CASE status' \notin {"recovered", "open", "closing"}
    <3>1. PICK b \in Nat : \A f \in DOMAIN logs : f >= meta.min => \A p \in DOMAIN logs[f] : logs[f][p].seq <= b
      BY <1>0 DEF KindInv
    <3>2. \/ Ending
          \/ UNCHANGED <<meta, logs>>
          \/ Quiet
      <4>1. ASSUME NEW c \in Clients, \/ Prepare(c) \/ SwitchMem(c)
                                      \/ \E k \in Keys : Set(c, k) /\ op'[c].kind # "small"
            PROVE  status' = "open"
        BY <4>1, PrepareLogs, SwitchLogs, SetLarge
      <4>2. FlushInstall => status' \in {"open", "closing"}
        BY InstallOk DEF Live
      <4>3. (\E c \in Clients : Apply(c)) \/ Open \/ ReplayWAL => UNCHANGED <<meta, logs>>
        BY OpenFact, ReplayFact DEF Apply, diskVars
      <4>4. Recovered \/ OpenDone => status' \in {"recovered", "open"}
        BY RecoveredFact, OpenDoneFact
      <4> QED BY <2>2, <4>1, <4>2, <4>3, <4>4, DurKinds
    <3>3. CASE Ending
      <4>1. \A f \in DOMAIN logs : f \in Nat
        BY <1>0, LogTypes
      <4>2. /\ meta.min \in Nat /\ meta'.min \in Nat /\ meta.min <= meta'.min
            /\ \A f \in DOMAIN logs' :
              /\ f \in DOMAIN logs
              /\ \A p \in DOMAIN logs'[f] : p \in DOMAIN logs[f] /\ logs'[f][p] = logs[f][p]
        BY <3>3, EndLogs
      <4>3. \A f \in DOMAIN logs' : f >= meta'.min => f >= meta.min
        BY <4>1, <4>2
      <4> QED BY <3>1, <4>2, <4>3
    <3>4. CASE UNCHANGED <<meta, logs>>
      BY <3>1, <3>4
    <3>5. CASE Quiet
      <4>1. /\ meta' = meta /\ \A f \in DOMAIN logs' : f \in DOMAIN logs /\ logs'[f] = logs[f]
        BY <3>5, QuietFact
      <4> QED BY <3>1, <4>1
    <3> QED BY <3>2, <3>3, <3>4, <3>5
  <2> QED BY <2>1, <2>2
<1> QED BY <1>1, <1>2, <1>3, <1>4, <1>5 DEF KindInv

\* A client logs its write.
Writes(c) == Prepare(c) \/ \E k \in Keys : Set(c, k) /\ op'[c].kind # "small"

\* The current log gets a record, and the tables stay.
LEMMA WritesFact ==
  ASSUME DInv, NEW c \in Clients, Writes(c)
  PROVE  /\ \E r \in Record : Appended(r)
         /\ UNCHANGED <<meta, logQueue, arr, ats, latest, pending, synced, status, floor, lapse,
                        trash, recycler, flushPc, fl, nextFileNum>>
         /\ status = "open" /\ CurLog' = CurLog /\ At(arr)' = At(arr) /\ At(meta.at)' = At(meta.at)
         /\ Len(queue') = Len(queue) /\ DOMAIN queue' = DOMAIN queue
         /\ \A i \in DOMAIN queue : /\ queue'[i].log = queue[i].log /\ queue'[i].mem = queue[i].mem
                                    /\ queue'[i].data = queue[i].data
<1>1. CASE Prepare(c)
  BY <1>1, PrepareLogs DEF CurLog, At
<1>2. CASE ~Prepare(c)
  <2>1. PICK k \in Keys : Set(c, k) /\ op'[c].kind # "small"
    BY <1>2 DEF Writes
  <2> QED BY <2>1, SetLarge DEF CurLog, At
<1> QED BY <1>1, <1>2

\* No record recovery reads is new, but for that of a client that logs its write.
LEMMA ReadableFact ==
  ASSUME DInv, RInv', [Next]_vars, \A c \in Clients : ~Writes(c)
  PROVE  \A f \in DOMAIN logs' : f >= meta'.min => \A i \in DOMAIN logs'[f] :
           f \in DOMAIN logs /\ f >= meta.min /\ i \in DOMAIN logs[f] /\ logs'[f][i] = logs[f][i]
<1> DEFINE G == \A f \in DOMAIN logs' : f >= meta'.min => \A i \in DOMAIN logs'[f] :
           f \in DOMAIN logs /\ f >= meta.min /\ i \in DOMAIN logs[f] /\ logs'[f][i] = logs[f][i]
<1>0. QInv /\ meta.min \in Nat /\ \A f \in DOMAIN logs : f \in Nat
  BY LogTypes, NumTypes DEF DInv, RInv
<1>1. CASE Quiet
  BY <1>1, QuietFact
<1>2. CASE Ending
  <2>1. /\ meta.min \in Nat /\ meta'.min \in Nat /\ meta.min <= meta'.min
        /\ \A f \in DOMAIN logs' :
              /\ f \in DOMAIN logs
              /\ \A p \in DOMAIN logs'[f] : p \in DOMAIN logs[f] /\ logs'[f][p] = logs[f][p]
    BY <1>2, EndLogs
  <2>2. \A f \in DOMAIN logs' : f >= meta'.min => f >= meta.min
    BY <1>0, <2>1
  <2> QED BY <2>1, <2>2
<1>3. CASE FlushInstall
  <2>1. logs' = logs /\ meta'.min = fl.min /\ fl.min \in Nat /\ meta.min <= fl.min
    BY <1>3, InstallOk
  <2>2. \A f \in DOMAIN logs : f >= fl.min => f >= meta.min
    BY <1>0, <2>1
  <2> QED BY <2>1, <2>2
<1>4. CASE Open \/ ReplayWAL \/ \E c \in Clients : Apply(c)
  <2>1. UNCHANGED <<meta, logs>>
    BY <1>4, OpenFact, ReplayFact DEF Apply, diskVars
  <2> QED BY <2>1
<1>5. CASE Recovered
  <2>1. /\ logs' = logs /\ meta'.min = nextFileNum /\ nextFileNum \in Nat
        /\ \A f \in DOMAIN logs : f < nextFileNum
    BY <1>5, RecoveredFact
  <2> QED BY <1>0, <2>1
<1>6. CASE OpenDone
  <2>1. /\ meta' = meta /\ logs'[CurLog] = <<>>
        /\ \A f \in DOMAIN logs' : f >= meta.min => f = CurLog
    BY <1>6, OpenDoneFact
  <2> QED BY <2>1
<1>7. ASSUME NEW c \in Clients, SwitchMem(c) PROVE G
  <2>1. /\ meta' = meta /\ logs'[op[c].new] = <<>>
        /\ \A f \in DOMAIN logs' : f = op[c].new \/ (f \in DOMAIN logs /\ logs'[f] = logs[f])
    BY <1>7, SwitchLogs
  <2> QED BY <2>1
<1> QED BY <1>1, <1>2, <1>3, <1>4, <1>5, <1>6, <1>7, DurKinds DEF Writes

\* Logs are written one after the other (makeRoomForWrite, newPlainDB).
LEMMA SeriesStep ==
  ASSUME DInv, RInv', [Next]_vars
  PROVE  SeriesInv'
<1>0. SeriesInv /\ QInv /\ meta.min \in Nat
  BY NumTypes DEF DInv, RInv
<1>1. CASE \A c \in Clients : ~Writes(c)
  <2>1. \A f \in DOMAIN logs' : f >= meta'.min => \A i \in DOMAIN logs'[f] :
           f \in DOMAIN logs /\ f >= meta.min /\ i \in DOMAIN logs[f] /\ logs'[f][i] = logs[f][i]
    BY <1>1, ReadableFact
  <2> SUFFICES ASSUME NEW f \in DOMAIN logs', NEW g \in DOMAIN logs', meta'.min <= f, f < g,
                      NEW i \in DOMAIN logs'[f], NEW j \in DOMAIN logs'[g]
               PROVE  logs'[f][i].seq < logs'[g][j].seq
    BY DEF SeriesInv
  <2>2. f \in DOMAIN logs /\ f >= meta.min /\ i \in DOMAIN logs[f] /\ logs'[f][i] = logs[f][i]
    <3>1. f >= meta'.min
      OBVIOUS
    <3> QED BY <2>1, <3>1
  <2>3. f \in Nat /\ g \in Nat /\ meta'.min \in Nat
    BY LogTypes DEF RInv, QInv, DiskInv, Bounded, Metas
  <2>4. g >= meta'.min
    BY <2>3
  <2>5. g \in DOMAIN logs /\ j \in DOMAIN logs[g] /\ logs'[g][j] = logs[g][j]
    BY <2>1, <2>4
  <2> QED BY <1>0, <2>2, <2>5 DEF SeriesInv
<1>2. ASSUME NEW c \in Clients, Writes(c)
      PROVE  SeriesInv'
  <2>1. meta' = meta /\ status = "open"
    BY <1>2, WritesFact
  <2>2. PICK r \in Record : Appended(r)
    BY <1>2, WritesFact
  <2>3. CurLog \in Nat /\ \A f \in DOMAIN logs : f \in Nat /\ f <= CurLog
    BY <1>0, <2>1, LogOfFact, LogTypes DEF Live, DInv, FilesInv, Up
  <2> SUFFICES ASSUME NEW f \in DOMAIN logs', NEW g \in DOMAIN logs', meta.min <= f, f < g,
                      NEW i \in DOMAIN logs'[f], NEW j \in DOMAIN logs'[g]
               PROVE  logs'[f][i].seq < logs'[g][j].seq
    BY <2>1 DEF SeriesInv
  <2>4. f \in DOMAIN logs /\ g \in DOMAIN logs
    BY <2>2 DEF Appended
  <2>5. f # CurLog /\ i \in DOMAIN logs[f] /\ logs'[f][i] = logs[f][i]
    BY <2>2, <2>3, <2>4 DEF Appended
  <2>6. CASE j \in DOMAIN logs[g] /\ logs'[g][j] = logs[g][j]
    BY <1>0, <2>4, <2>5, <2>6 DEF SeriesInv
  <2>7. CASE logs'[g][j] = r
    BY <2>2, <2>4, <2>5, <2>7 DEF Appended
  <2> QED BY <2>2, <2>4, <2>6, <2>7 DEF Appended
<1> QED BY <1>1, <1>2

\* The array table in use and the recorded one.
LEMMA ArrStep ==
  ASSUME DInv, RInv', [Next]_vars
  PROVE  ArrInv'
<1>0. ArrInv /\ \A k \in Keys : At(arr)[k] \in Nat /\ At(meta.at)[k] \in Nat
  BY AtFact DEF DInv, RInv, Data
<1>1. CASE Quiet
  <2>1. /\ UNCHANGED <<meta, arr>> /\ At(arr)' = At(arr)
        /\ status' = "closed" <=> status = "closed"
    BY <1>1, QuietFact
  <2>2. /\ arr' # 0 => arr' \in DOMAIN ats'
        /\ meta.at \notin DOMAIN ats => meta.at \notin DOMAIN ats'
        /\ \A k \in Keys : At(meta.at)'[k] <= At(meta.at)[k]
    BY <1>1, QuietTables
  <2>3. \A k \in Keys : At(meta.at)'[k] \in Nat
    BY AtFact, <2>1 DEF RInv, AtsInv, At, Data, Empty
  <2>4. lapse' = lapse
    BY <1>1 DEF Quiet, vars, histVars, FlushStart, FlushNumber, FlushBuild, FlushDelete,
       FlushEnd, SyncLog, Close, DeleteFile, Flush, SwitchLog, Ack, Set
  <2> QED BY <1>0, <2>1, <2>2, <2>3, <2>4 DEF ArrInv
<1>2. CASE Ending
  <2>1. arr' = 0 /\ status' = "closed"
    BY <1>2, EndTables DEF Forget
  <2> QED BY <2>1 DEF ArrInv
<1>3. CASE FlushInstall
  <2>1. arr' = fl.num /\ meta'.at = fl.num /\ fl.num \in DOMAIN ats /\ ats' = ats
    BY <1>3, InstallOk
  <2>2. At(arr)' = At(meta.at)' /\ At(arr)' \in Data
    BY <2>1 DEF At, RInv, AtsInv
  <2> QED BY <2>1, <2>2 DEF ArrInv, Data
<1>4. CASE Open
  <2>1. /\ UNCHANGED <<meta, ats>>
        /\ At(arr)' = At(meta.at) /\ At(meta.at)' = At(meta.at)
        /\ arr' # 0 => arr' \in DOMAIN ats
        /\ arr' = meta.at \/ (arr' = 0 /\ meta.at \notin DOMAIN ats)
    BY <1>4, OpenFact
  <2> QED BY <1>0, <2>1 DEF ArrInv
<1>5. CASE ReplayWAL
  <2>1. PICK f \in pending :
           /\ f \in DOMAIN logs /\ meta' = meta /\ status = "replay"
           /\ \A k \in Keys :
                /\ At(arr)[k] \in Nat /\ At(arr)'[k] \in Nat
                /\ \A i \in DOMAIN logs[f] : logs[f][i].key = k => logs[f][i].seq <= At(arr)'[k]
                /\ \/ At(arr)'[k] = At(arr)[k]
                   \/ \E i \in DOMAIN logs[f] : logs[f][i].key = k /\ logs[f][i].seq = At(arr)'[k]
           /\ At(meta.at)' = At(meta.at)
           /\ arr' # 0 => arr' \in DOMAIN ats'
           /\ lapse' = {} => lapse = {} /\ arr' = arr /\ ats' = ats
    BY <1>5, ReplayFact
  <2>2. ASSUME NEW k \in Keys PROVE At(arr)[k] <= At(arr)'[k]
    <3>1. CASE At(arr)'[k] = At(arr)[k]
      BY <1>0, <3>1
    <3>2. CASE \E i \in DOMAIN logs[f] : logs[f][i].key = k /\ logs[f][i].seq = At(arr)'[k]
      <4>1. PICK i \in DOMAIN logs[f] : logs[f][i].key = k
        BY <3>2
      <4>2. NotBehind(f, At(arr))
        BY <2>1 DEF DInv, StaleInv
      <4>3. PICK j \in DOMAIN logs[f] : logs[f][j].key = k /\ At(arr)[k] <= logs[f][j].seq
        BY <4>1, <4>2 DEF NotBehind
      <4>4. logs[f][j].seq <= At(arr)'[k] /\ logs[f][j].seq \in Nat
        BY <2>1, <4>3, LogTypes DEF DInv, RInv
      <4> QED BY <2>1, <4>3, <4>4
    <3> QED BY <2>1, <3>1, <3>2
  <2>3. \A k \in Keys : At(meta.at)'[k] <= At(arr)'[k]
    <3> TAKE k \in Keys
    <3>1. At(meta.at)[k] <= At(arr)[k]
      BY <1>0, <2>1 DEF ArrInv
    <3> QED BY <1>0, <2>1, <2>2, <3>1
  <2>4. lapse' = {} => arr' = meta'.at \/ (arr' = 0 /\ meta'.at \notin DOMAIN ats')
    BY <1>0, <2>1 DEF ArrInv
  <2> QED BY <2>1, <2>3, <2>4 DEF ArrInv
<1>6. CASE Recovered \/ OpenDone
  <2>1. /\ UNCHANGED <<ats, arr, lapse>> /\ At(arr)' = At(arr) /\ At(meta.at)' = At(meta.at)
        /\ meta'.at = meta.at /\ status # "closed"
    BY <1>6, RecoveredFact, OpenDoneFact
  <2> QED BY <1>0, <2>1 DEF ArrInv
<1>7. ASSUME NEW c \in Clients, Writes(c) \/ SwitchMem(c) \/ Apply(c)
      PROVE  ArrInv'
  <2>1. UNCHANGED <<ats, arr, lapse, status, meta>>
    BY <1>7, WritesFact DEF SwitchMem, Apply, diskVars
  <2>2. At(arr)' = At(arr) /\ At(meta.at)' = At(meta.at)
    BY <2>1 DEF At
  <2> QED BY <1>0, <2>1, <2>2 DEF ArrInv
<1> QED BY <1>1, <1>2, <1>3, <1>4, <1>5, <1>6, <1>7, DurKinds DEF Writes

\* What a flush takes and records (flush1).
LEMMA TakenStep ==
  ASSUME DInv, RInv', [Next]_vars
  PROVE  TakenInv'
<1>0. TakenInv /\ QInv /\ TypeInv
  BY DEF DInv, RInv, QInv
<1>1. CASE flushPc' \in {"none", "start"}
  BY <1>1 DEF TakenInv
<1>2. CASE FlushStart
  <2>1. CASE flushPc' = "number"
    <3> DEFINE n == Ready(queue)
    <3>1. /\ n > 0 /\ \A i \in 1..n : queue[i].log < queue[n + 1].log
          /\ fl' = [NoFlush EXCEPT !.n = n, !.min = queue[n + 1].log] /\ queue' = queue
      BY <1>2, <2>1, NewFlush DEF FlushStart, MinUnflushed
    <3>2. n \in Nat /\ n < Len(queue) /\ Len(queue) \in Nat
      <4>1. queue # <<>>
        BY <1>0, <1>2 DEF QInv, ModeInv, FlushStart, Live
      <4> QED BY <1>0, <4>1, ReadyFact DEF TypeInv
    <3> HIDE DEF n
    <3>3. fl'.n = n /\ fl'.min = queue[n + 1].log
      BY <3>1 DEF NoFlush
    <3>4. 1 \in 1..n /\ 1 \in DOMAIN queue /\ n + 1 \in DOMAIN queue
      BY <1>0, <3>1, <3>2 DEF TypeInv
    <3>5. queue[1].log \in Nat /\ queue[n + 1].log \in Nat /\ queue[1].log < queue[n + 1].log
      BY <1>0, <3>1, <3>4, EntryFact DEF Table
    <3>6. queue[n + 1].log # 0
      BY <3>5
    <3>7. fl'.min = LogOf(fl.n + 1)'
      BY <3>1, <3>3, <3>6 DEF LogOf
    <3> QED BY <2>1, <3>7 DEF TakenInv
  <2>2. CASE flushPc' # "number"
    <3>1. flushPc' \in {"none", "start"}
      BY <1>2, <2>2, NewFlush DEF FlushStart
    <3> QED BY <3>1 DEF TakenInv
  <2> QED BY <2>1, <2>2
<1>3. CASE Quiet /\ ~FlushStart /\ flushPc' \notin {"none", "start"}
  <2>1. queue' = queue
    BY <1>3, QuietFact
  <2>2. fl'.n = fl.n /\ fl'.min = fl.min /\ fl'.ok = fl.ok
    <3>1. fl' = fl \/ fl' = [fl EXCEPT !.num = nextFileNum]
      BY <1>3, NewFlush DEF Quiet, vars, flushVars, FlushNumber, FlushBuild, FlushDelete, FlushEnd,
         SyncLog, Close, DeleteFile, Flush, SwitchLog, Ack, Set
    <3>2. fl \in Flushes
      BY <1>0 DEF TypeInv
    <3> QED BY <3>1, <3>2 DEF Flushes
  <2>3. /\ flushPc' \in {"number", "build", "install"} => flushPc \in {"number", "build", "install"}
        /\ flushPc' \in {"delete", "release"} => flushPc \in {"delete", "release"}
    BY <1>3, NewFlush DEF Quiet, vars, flushVars, FlushNumber, FlushBuild, FlushDelete, FlushEnd,
       SyncLog, Close, DeleteFile, Flush, SwitchLog, Ack, Set
  <2>4. LogOf(fl.n + 1)' = LogOf(fl.n + 1)
    BY <2>1, <2>2 DEF LogOf
  <2> QED BY <1>0, <2>2, <2>3, <2>4 DEF TakenInv
<1>4. CASE FlushInstall
  BY <1>4, InstallOk DEF TakenInv
<1>5. CASE Ending \/ Open \/ ReplayWAL \/ Recovered \/ OpenDone
  <2>1. flushPc' = "none"
    <3>1. CASE Ending
      BY <3>1, EndTables DEF Forget
    <3>2. CASE ~Ending
      <4>1. status \in {"closed", "replay", "recovered"} /\ flushPc' = flushPc
        BY <1>5, <3>2 DEF Open, ReplayWAL, Recovered, OpenDone, flushVars
      <4> QED BY <1>0, <4>1 DEF QInv, ModeInv, Live
    <3> QED BY <3>1, <3>2
  <2> QED BY <2>1 DEF TakenInv
<1>6. ASSUME NEW c \in Clients, SwitchMem(c) \/ Apply(c) \/ Writes(c),
             flushPc' \notin {"none", "start"}
      PROVE  TakenInv'
  <2>1. flushPc' = flushPc /\ fl' = fl
    BY <1>6, WritesFact DEF SwitchMem, Apply, ScheduleFlush
  <2>2. CASE flushPc \in {"number", "build", "install"}
    <3>1. fl.n \in Nat /\ fl.n > 0 /\ fl.n < Len(queue) /\ Len(queue) \in Nat /\ DOMAIN queue = 1..Len(queue)
      BY <1>0, <2>2, NumTypes DEF QInv, FlushInv, TypeInv
    <3>2. fl.n + 1 \in DOMAIN queue
      BY <3>1
    <3>3. \A i \in DOMAIN queue : LogOf(i)' = LogOf(i)
      <4>1. CASE SwitchMem(c)
        BY <3>1, <4>1, SwitchTables
      <4>2. CASE Apply(c) \/ Writes(c)
        <5>1. Live
          BY <1>0, <2>2, FlushLive DEF Live
        <5>2. \A i \in DOMAIN queue : queue'[i].log = queue[i].log
          BY <1>0, <3>1, <4>2, WritesFact, ApplyShape DEF QInv
        <5>3. \A i \in DOMAIN queue : queue[i].log = 0 => i + 1 \in DOMAIN queue
          BY <3>1 DEF DInv, LoggedInv
        <5> QED BY <5>2, <5>3 DEF LogOf
      <4> QED BY <1>6, <4>1, <4>2
    <3>4. LogOf(fl.n + 1)' = LogOf(fl.n + 1)
      <4>1. \A i \in DOMAIN queue : i = fl.n + 1 => LogOf(i)' = LogOf(fl.n + 1)
        BY <3>3
      <4> QED BY <2>1, <3>2, <4>1
    <3> QED BY <1>0, <2>1, <2>2, <3>4 DEF TakenInv
  <2>3. CASE flushPc \notin {"number", "build", "install"}
    BY <1>0, <2>1, <2>3 DEF TakenInv
  <2> QED BY <2>2, <2>3
<1> QED BY <1>1, <1>2, <1>3, <1>4, <1>5, <1>6, DurKinds DEF Writes

\* The logs recovery reads have at least the records they had.
Grown ==
  \A f \in DOMAIN logs : f >= meta.min =>
    f \in DOMAIN logs' /\ \A p \in DOMAIN logs[f] : p \in DOMAIN logs'[f] /\ logs'[f][p] = logs[f][p]

\* So it is while the process runs.
LEMMA GrownFact ==
  ASSUME DInv, [Next]_vars, ~Ending
  PROVE  Grown
<1>1. CASE Quiet
  BY <1>1, QuietFact DEF Grown
<1>2. CASE FlushInstall \/ Open \/ ReplayWAL \/ Recovered \/ \E c \in Clients : Apply(c)
  <2>1. logs' = logs
    BY <1>2 DEF FlushInstall, Open, ReplayWAL, Recovered, Apply, diskVars
  <2> QED BY <2>1 DEF Grown
<1>3. CASE OpenDone
  <2>1. CurLog \in Nat /\ meta.min = CurLog /\ \A f \in DOMAIN logs : f < CurLog
    BY <1>3, OpenDoneFact
  <2>2. \A f \in DOMAIN logs : f \in Nat
    BY LogTypes DEF DInv, RInv
  <2> QED BY <2>1, <2>2 DEF Grown
<1>4. ASSUME NEW c \in Clients, SwitchMem(c) PROVE Grown
  BY <1>4, SwitchLogs DEF Grown
<1>5. ASSUME NEW c \in Clients, Writes(c) PROVE Grown
  <2>1. PICK r \in Record : Appended(r)
    BY <1>5, WritesFact
  <2>2. ASSUME NEW f \in DOMAIN logs
        PROVE  f \in DOMAIN logs' /\ \A p \in DOMAIN logs[f] : p \in DOMAIN logs'[f] /\ logs'[f][p] = logs[f][p]
    <3>1. CASE f = CurLog
      BY <2>1, <3>1 DEF Appended
    <3>2. CASE f # CurLog
      BY <2>1, <3>2 DEF Appended
    <3> QED BY <3>1, <3>2
  <2> QED BY <2>2 DEF Grown
<1> QED BY <1>1, <1>2, <1>3, <1>4, <1>5, DurKinds DEF Writes

\* Where the tables stay in place, they keep their logs.
LEMMA SamePlaces ==
  ASSUME DInv, Live, DOMAIN queue' = DOMAIN queue, \A i \in DOMAIN queue : queue'[i].log = queue[i].log
  PROVE  \A i \in DOMAIN queue : LogOf(i)' = LogOf(i)
<1>1. DOMAIN queue = 1..Len(queue) /\ Len(queue) \in Nat
  BY LogOfFact
<1>2. \A i \in DOMAIN queue : queue[i].log = 0 => i + 1 \in DOMAIN queue
  BY <1>1 DEF DInv, LoggedInv
<1> QED BY <1>2 DEF LogOf

\* What a table gets is in its log.
LEMMA LoggedFrame ==
  ASSUME DInv, Live, Len(queue') = Len(queue), DOMAIN queue' = DOMAIN queue, CurLog' = CurLog, meta' = meta,
         Grown,
         \A i \in DOMAIN queue : queue'[i].log = queue[i].log /\ queue'[i].mem = queue[i].mem,
         \A i \in DOMAIN queue, k \in Keys : queue'[i].data[k] # 0 =>
           \E p \in DOMAIN logs[LogOf(i)] : IsOf(logs[LogOf(i)][p], k, queue'[i].data[k])
  PROVE  LoggedInv'
<1>1. \A i \in DOMAIN queue : LogOf(i)' = LogOf(i)
  BY SamePlaces
<1>2. DOMAIN queue = 1..Len(queue) /\ Len(queue) \in Nat
      /\ \A i \in DOMAIN queue : LogOf(i) \in DOMAIN logs /\ LogOf(i) >= meta.min
  BY LogOfFact DEF DInv, LoggedInv
<1>3. \A i \in DOMAIN queue : /\ LogOf(i) \in DOMAIN logs'
                              /\ \A p \in DOMAIN logs[LogOf(i)] : /\ p \in DOMAIN logs'[LogOf(i)]
                                                                  /\ logs'[LogOf(i)][p] = logs[LogOf(i)][p]
  BY <1>2 DEF Grown
<1> SUFFICES ASSUME NEW i \in DOMAIN queue
             PROVE  /\ queue'[i].log = 0 => i < Len(queue') /\ queue'[i + 1].mem = 0 /\ queue'[i + 1].log # 0
                    /\ LogOf(i)' \in DOMAIN logs' /\ LogOf(i)' >= meta'.min
                    /\ i < Len(queue') => LogOf(i)' < CurLog'
                    /\ \A j \in DOMAIN queue' : i < j => LogOf(i)' <= LogOf(j)'
                    /\ \A k \in Keys : queue'[i].data[k] # 0 =>
                         \E p \in DOMAIN logs'[LogOf(i)'] : IsOf(logs'[LogOf(i)'][p], k, queue'[i].data[k])
  BY DEF LoggedInv, IsOf
<1>4. /\ queue[i].log = 0 => i < Len(queue) /\ queue[i + 1].mem = 0 /\ queue[i + 1].log # 0
      /\ i < Len(queue) => LogOf(i) < CurLog
      /\ \A j \in DOMAIN queue : i < j => LogOf(i) <= LogOf(j)
  BY DEF DInv, LoggedInv
<1>5. queue'[i].log = 0 => i < Len(queue') /\ queue'[i + 1].mem = 0 /\ queue'[i + 1].log # 0
  <2> SUFFICES ASSUME queue[i].log = 0 PROVE i < Len(queue') /\ queue'[i + 1].mem = 0 /\ queue'[i + 1].log # 0
    OBVIOUS
  <2>1. i + 1 \in DOMAIN queue
    BY <1>2, <1>4
  <2> QED BY <1>4, <2>1
<1>6. \A j \in DOMAIN queue' : i < j => LogOf(i)' <= LogOf(j)'
  BY <1>1, <1>4
<1>7. ASSUME NEW k \in Keys, queue'[i].data[k] # 0
      PROVE  \E p \in DOMAIN logs'[LogOf(i)'] : IsOf(logs'[LogOf(i)'][p], k, queue'[i].data[k])
  <2>1. PICK p \in DOMAIN logs[LogOf(i)] : IsOf(logs[LogOf(i)][p], k, queue'[i].data[k])
    BY <1>7
  <2>2. p \in DOMAIN logs'[LogOf(i)] /\ logs'[LogOf(i)][p] = logs[LogOf(i)][p]
    BY <1>3
  <2> QED BY <1>1, <2>1, <2>2
<1> QED BY <1>1, <1>2, <1>3, <1>4, <1>5, <1>6, <1>7

\* flush1 merges what it takes over the array table; the rest of the queue moves up.
LEMMA MergedFact ==
  ASSUME DInv, RInv', FlushInstall
  PROVE  /\ At(meta.at)' = At(arr)'
         /\ \A k \in Keys :
              /\ At(arr)[k] \in Nat /\ At(arr)'[k] \in Nat /\ At(arr)[k] <= At(arr)'[k]
              /\ \A i \in 1..fl.n : queue[i].data[k] <= At(arr)'[k]
              /\ \/ At(arr)'[k] = At(arr)[k]
                 \/ \E i \in 1..fl.n : queue[i].data[k] = At(arr)'[k] /\ queue[i].data[k] # 0
         /\ Len(queue') = Len(queue) - fl.n /\ Len(queue') \in Nat /\ Len(queue') > 0
         /\ DOMAIN queue' = 1..Len(queue')
         /\ \A i \in DOMAIN queue' : /\ i + fl.n \in DOMAIN queue /\ queue'[i] = queue[i + fl.n]
                                     /\ LogOf(i)' = LogOf(i + fl.n)
<1>0. RInv /\ QInv /\ Live /\ MetaOk(fl.min) /\ fl.n \in Nat /\ fl.n > 0 /\ fl.n < Len(queue) /\ Len(queue) \in Nat
      /\ flushPc = "install"
  BY InstallOk DEF DInv, RInv
<1>1. meta'.at = fl.num /\ arr' = fl.num
  BY InstallOk
<1>2. At(meta.at)' = At(arr)'
  BY <1>1 DEF At
<1>3. DOMAIN queue = 1..Len(queue)
  BY <1>0, LogOfFact
<1>4. queue' = SubSeq(queue, fl.n + 1, Len(queue)) /\ queue \in Seq(Table)
  BY <1>0 DEF FlushInstall, QInv, TypeInv
<1>5. Len(queue') = Len(queue) - fl.n
  BY <1>0, <1>4
<1>6. queue' # queue
  BY <1>0, <1>5
<1>7. /\ Len(queue') > 0 /\ Len(queue') \in Nat
      /\ DOMAIN queue' = 1..Len(queue')
      /\ \A i \in DOMAIN queue' : i + fl.n \in DOMAIN queue /\ queue'[i] = queue[i + fl.n]
      /\ At(arr)' = Merge(SubSeq(queue, 1, fl.n), At(arr))
  BY <1>0, <1>6, InstallFact
<1>8. \A i \in DOMAIN queue' : LogOf(i)' = LogOf(i + fl.n)
  <2> TAKE i \in DOMAIN queue'
  <2>1. i \in Nat /\ i + fl.n \in DOMAIN queue /\ queue'[i] = queue[i + fl.n]
    BY <1>7
  <2>2. CASE queue[i + fl.n].log # 0
    BY <2>1, <2>2 DEF LogOf
  <2>3. CASE queue[i + fl.n].log = 0
    <3>1. i + fl.n < Len(queue)
      BY <2>1, <2>3 DEF DInv, LoggedInv
    <3>2. i + 1 \in DOMAIN queue' /\ (i + 1) + fl.n = (i + fl.n) + 1
      <4>1. fl.n \in Nat /\ Len(queue) \in Nat /\ i \in 1..(Len(queue) - fl.n)
        BY <1>0, <1>5, <1>7
      <4>2. i + 1 \in 1..(Len(queue) - fl.n) /\ (i + 1) + fl.n = (i + fl.n) + 1
        BY <3>1, <4>1
      <4> QED BY <1>5, <1>7, <4>2
    <3>3. queue'[i + 1] = queue[(i + fl.n) + 1]
      BY <1>7, <3>2
    <3> QED BY <2>1, <2>3, <3>3 DEF LogOf
  <2> QED BY <2>2, <2>3
<1> DEFINE a == Merge(SubSeq(queue, 1, fl.n), At(arr))
<1>9. /\ a \in Data
      /\ \A k \in Keys :
              \/ a[k] = At(arr)[k] /\ \A i \in 1..fl.n : queue[i].data[k] = 0
              \/ /\ a[k] # 0
                 /\ \E i \in 1..fl.n : queue[i].data[k] = a[k]
                 /\ \A i \in 1..fl.n : queue[i].data[k] <= a[k]
  BY <1>0, FlushedFact
<1> HIDE DEF a
<1>10. At(arr)' = a
  BY <1>7 DEF a
<1>11. ASSUME NEW k \in Keys
       PROVE  /\ At(arr)[k] \in Nat /\ a[k] \in Nat /\ At(arr)[k] <= a[k]
              /\ \A i \in 1..fl.n : queue[i].data[k] <= a[k]
              /\ \/ a[k] = At(arr)[k]
                 \/ \E i \in 1..fl.n : queue[i].data[k] = a[k] /\ queue[i].data[k] # 0
  <2>1. At(arr)[k] \in Nat /\ a[k] \in Nat
    BY <1>0, <1>9, DataFact DEF Data
  <2>2. CASE a[k] = At(arr)[k] /\ \A i \in 1..fl.n : queue[i].data[k] = 0
    BY <2>1, <2>2
  <2>3. CASE a[k] # 0 /\ (\E i \in 1..fl.n : queue[i].data[k] = a[k]) /\ \A i \in 1..fl.n : queue[i].data[k] <= a[k]
    <3>1. PICK i \in 1..fl.n : queue[i].data[k] = a[k]
      BY <2>3
    <3>2. i \in DOMAIN queue
      BY <1>0, <1>3
    <3>3. At(arr)[k] < queue[i].data[k]
      BY <1>0, <2>3, <3>1, <3>2 DEF RInv, OrderInv
    <3> QED BY <2>1, <2>3, <3>1, <3>3
  <2> QED BY <1>9, <2>2, <2>3
<1> QED BY <1>2, <1>5, <1>7, <1>8, <1>10, <1>11

\* Tables are in their logs (makeRoomForWrite, commitWrite, commitApply).
LEMMA LoggedStep ==
  ASSUME DInv, RInv', [Next]_vars
  PROVE  LoggedInv'
<1>0. QInv /\ RInv /\ meta.min \in Nat /\ \A f \in DOMAIN logs : f \in Nat
  BY NumTypes, LogTypes DEF DInv, RInv
<1>1. CASE (Quiet /\ Live) \/ \E c \in Clients : Writes(c)
  <2>1. /\ Live /\ Len(queue') = Len(queue) /\ DOMAIN queue' = DOMAIN queue /\ CurLog' = CurLog /\ meta' = meta
        /\ \A i \in DOMAIN queue : /\ queue'[i].log = queue[i].log /\ queue'[i].mem = queue[i].mem
                                   /\ queue'[i].data = queue[i].data
    <3>1. CASE Quiet /\ Live
      BY <3>1, QuietFact DEF CurLog
    <3>2. CASE \E c \in Clients : Writes(c)
      BY <3>2, WritesFact DEF Live
    <3> QED BY <1>1, <3>1, <3>2
  <2>2. Grown
    <3>1. ~Ending
      BY <2>1, <1>1, EndTables, QuietFact, WritesFact DEF Forget, Live
    <3> QED BY <3>1, GrownFact
  <2>3. \A i \in DOMAIN queue, k \in Keys : queue[i].data[k] # 0 =>
           \E p \in DOMAIN logs[LogOf(i)] : IsOf(logs[LogOf(i)][p], k, queue[i].data[k])
    BY DEF DInv, LoggedInv
  <2> QED BY <2>1, <2>2, <2>3, LoggedFrame
<1>2. CASE (Quiet /\ ~Live) \/ Ending \/ Open \/ ReplayWAL \/ Recovered
  <2>1. queue' = <<>>
    <3>1. CASE Ending
      BY <3>1, EndTables DEF Forget
    <3>2. CASE ~Ending
      <4>1. ~Live /\ queue' = queue
        BY <1>2, <3>2, QuietFact DEF Open, ReplayWAL, Recovered, Live
      <4> QED BY <1>0, <4>1 DEF QInv, ModeInv
    <3> QED BY <3>1, <3>2
  <2> QED BY <2>1 DEF LoggedInv
<1>3. CASE OpenDone
  <2>1. /\ CurLog' = CurLog /\ CurLog \in Nat /\ CurLog > 0 /\ meta.min = CurLog /\ meta' = meta
        /\ CurLog \in DOMAIN logs'
        /\ Len(queue') = 1 /\ DOMAIN queue' = {1} /\ queue'[1].log = CurLog
        /\ \A k \in Keys : queue'[1].data[k] = 0
        /\ LogOf(1)' = CurLog
    BY <1>3, OpenDoneFact
  <2> QED BY <2>1 DEF LoggedInv
<1>4. ASSUME NEW c \in Clients, Apply(c) PROVE LoggedInv'
  <2>1. /\ UNCHANGED <<meta, logs, status, logQueue>> /\ CurLog' = CurLog /\ pc[c] = "apply"
    BY <1>4 DEF Apply, diskVars, logVars, CurLog
  <2>2. Live
    BY <1>0, <2>1, BusyFact DEF Live
  <2>3. Len(queue') = Len(queue) /\ DOMAIN queue' = DOMAIN queue
        /\ \A i \in DOMAIN queue : queue'[i].log = queue[i].log /\ queue'[i].mem = queue[i].mem
    BY <1>0, <1>4, ApplyShape, DataFact DEF QInv, TypeInv
  <2>4. PICK t \in DOMAIN queue :
              /\ queue[t].mem = op[c].mem
              /\ \A i \in DOMAIN queue, j \in Keys :
                   queue'[i].data[j] = IF i = t /\ j = op[c].key /\ op[c].seq > queue[t].data[j]
                                       THEN op[c].seq ELSE queue[i].data[j]
    BY <1>0, <1>4, ApplyData
  <2>5. \E p \in DOMAIN logs[LogOf(t)] : IsOf(logs[LogOf(t)][p], op[c].key, op[c].seq)
    BY <2>1, <2>4 DEF DInv, AckInv, Written
  <2>6. \A i \in DOMAIN queue, k \in Keys : queue[i].data[k] # 0 =>
           \E p \in DOMAIN logs[LogOf(i)] : IsOf(logs[LogOf(i)][p], k, queue[i].data[k])
    BY DEF DInv, LoggedInv
  <2>7. \A i \in DOMAIN queue, k \in Keys : queue'[i].data[k] # 0 =>
           \E p \in DOMAIN logs[LogOf(i)] : IsOf(logs[LogOf(i)][p], k, queue'[i].data[k])
    <3> TAKE i \in DOMAIN queue, k \in Keys
    <3>1. CASE i = t /\ k = op[c].key /\ op[c].seq > queue[t].data[k]
      BY <2>4, <2>5, <3>1
    <3>2. CASE ~(i = t /\ k = op[c].key /\ op[c].seq > queue[t].data[k])
      <4>1. queue'[i].data[k] = queue[i].data[k]
        BY <2>4, <3>2
      <4> QED BY <2>6, <4>1
    <3> QED BY <3>1, <3>2
  <2>8. Grown
    BY <2>1 DEF Grown
  <2> QED BY <2>1, <2>2, <2>3, <2>7, <2>8, LoggedFrame
<1>5. CASE FlushInstall
  <2>1. /\ Live /\ logs' = logs /\ CurLog' = CurLog /\ meta'.min = fl.min /\ fl.min = LogOf(fl.n + 1)
        /\ fl.n \in Nat /\ fl.n < Len(queue) /\ Len(queue) \in Nat
    BY <1>5, InstallOk
  <2>2. /\ Len(queue') = Len(queue) - fl.n /\ DOMAIN queue' = 1..Len(queue')
        /\ \A i \in DOMAIN queue' : /\ i + fl.n \in DOMAIN queue /\ queue'[i] = queue[i + fl.n]
                                    /\ LogOf(i)' = LogOf(i + fl.n)
    BY <1>5, MergedFact
  <2>3. \A i \in DOMAIN queue : LogOf(i) \in Nat
    BY <2>1, LogOfFact
  <2>4. DOMAIN queue = 1..Len(queue)
    BY <2>1, LogOfFact
  <2> SUFFICES ASSUME NEW i \in DOMAIN queue'
               PROVE  /\ queue'[i].log = 0 => i < Len(queue') /\ queue'[i + 1].mem = 0 /\ queue'[i + 1].log # 0
                      /\ LogOf(i)' \in DOMAIN logs' /\ LogOf(i)' >= meta'.min
                      /\ i < Len(queue') => LogOf(i)' < CurLog'
                      /\ \A j \in DOMAIN queue' : i < j => LogOf(i)' <= LogOf(j)'
                      /\ \A k \in Keys : queue'[i].data[k] # 0 =>
                           \E p \in DOMAIN logs'[LogOf(i)'] : IsOf(logs'[LogOf(i)'][p], k, queue'[i].data[k])
    BY DEF LoggedInv, IsOf
  <2> DEFINE h == i + fl.n
  <2>5. i \in Nat /\ i > 0 /\ h \in DOMAIN queue /\ queue'[i] = queue[h] /\ LogOf(i)' = LogOf(h)
    BY <2>2
  <2>6. /\ queue[h].log = 0 => h < Len(queue) /\ queue[h + 1].mem = 0 /\ queue[h + 1].log # 0
        /\ LogOf(h) \in DOMAIN logs
        /\ h < Len(queue) => LogOf(h) < CurLog
        /\ \A j \in DOMAIN queue : h < j => LogOf(h) <= LogOf(j)
        /\ \A k \in Keys : queue[h].data[k] # 0 =>
             \E p \in DOMAIN logs[LogOf(h)] : IsOf(logs[LogOf(h)][p], k, queue[h].data[k])
    BY <2>5 DEF DInv, LoggedInv
  <2>7. LogOf(h) >= fl.min
    <3>1. fl.n + 1 \in DOMAIN queue /\ (h = fl.n + 1 \/ fl.n + 1 < h)
      BY <2>1, <2>4, <2>5
    <3>2. fl.n + 1 < h => LogOf(fl.n + 1) <= LogOf(h)
      BY <2>5, <3>1 DEF DInv, LoggedInv
    <3> QED BY <2>1, <2>3, <2>5, <3>1, <3>2
  <2>8. i < Len(queue') => h < Len(queue)
    BY <2>1, <2>2, <2>5
  <2>9. queue[h].log = 0 => i < Len(queue') /\ queue'[i + 1] = queue[h + 1]
    <3> SUFFICES ASSUME queue[h].log = 0 PROVE i < Len(queue') /\ queue'[i + 1] = queue[h + 1]
      OBVIOUS
    <3>1. h < Len(queue)
      BY <2>6
    <3>2. i + 1 \in DOMAIN queue' /\ (i + 1) + fl.n = h + 1 /\ i < Len(queue')
      BY <2>1, <2>2, <2>5, <3>1
    <3> QED BY <2>2, <3>2
  <2>10. \A j \in DOMAIN queue' : i < j => LogOf(h) <= LogOf(j)'
    <3> TAKE j \in DOMAIN queue'
    <3>1. j + fl.n \in DOMAIN queue /\ LogOf(j)' = LogOf(j + fl.n) /\ j \in Nat
      BY <2>2
    <3>2. i < j => h < j + fl.n
      BY <2>1, <2>5, <3>1
    <3> QED BY <2>6, <3>1, <3>2
  <2> HIDE DEF h
  <2> QED BY <2>1, <2>5, <2>6, <2>7, <2>8, <2>9, <2>10
<1>6. ASSUME NEW c \in Clients, SwitchMem(c) PROVE LoggedInv'
  <2> DEFINE n == Len(queue)
             m == Len(queue')
             large == op[c].kind = "large"
             new == op[c].new
  <2>1. /\ status = "open" /\ new \in Nat /\ new > CurLog /\ new >= meta.min
        /\ new \in DOMAIN logs' /\ CurLog' = new /\ meta' = meta
        /\ \A f \in DOMAIN logs : f >= meta.min => f \in DOMAIN logs' /\ logs'[f] = logs[f]
    BY <1>6, SwitchLogs
  <2>2. /\ n \in Nat /\ n > 0 /\ DOMAIN queue = 1..n /\ m \in Nat /\ DOMAIN queue' = 1..m
        /\ m = (IF large THEN n + 2 ELSE n + 1)
        /\ \A i \in 1..n : /\ queue'[i].data = queue[i].data
                           /\ LogOf(i)' = LogOf(i)
                           /\ queue'[i].log = 0 => queue'[i + 1].mem = 0 /\ queue'[i + 1].log # 0
        /\ large => /\ \A i \in 1..m : i = n + 1 => LogOf(i)' = CurLog
                    /\ queue'[n + 1].log # 0
                    /\ op[c].key \in Keys
                    /\ queue'[n + 1].data[op[c].key] = op[c].seq
                    /\ \A k \in Keys : k # op[c].key => queue'[n + 1].data[k] = 0
        /\ queue'[m].log = new /\ queue'[m].log # 0 /\ \A i \in 1..m : i = m => LogOf(i)' = new
        /\ \A k \in Keys : queue'[m].data[k] = 0
    BY <1>6, SwitchTables
  <2>3. Live /\ CurLog \in Nat /\ CurLog \in DOMAIN logs /\ meta.min <= CurLog
        /\ \A i \in 1..n : LogOf(i) \in Nat /\ LogOf(i) \in DOMAIN logs /\ meta.min <= LogOf(i) /\ LogOf(i) <= CurLog
    <3>1. Live
      BY <2>1 DEF Live
    <3>2. meta.min <= CurLog
      BY <2>1 DEF DInv, FilesInv, Up
    <3> QED BY <2>2, <3>1, <3>2, LogOfFact
  <2>4. large => \E p \in DOMAIN logs[CurLog] : IsOf(logs[CurLog][p], op[c].key, op[c].seq)
    <3>1. large => Logging(c)
      BY <1>6, SwitchHands DEF Logging, Making
    <3> QED BY <3>1 DEF DInv, AckInv
  <2> HIDE DEF n, m, large, new
  <2>5. ASSUME NEW i \in 1..m
        PROVE  i \in 1..n \/ (large /\ i = n + 1 /\ i < m) \/ (i = m /\ i > n)
    <3>1. i \in 1..n \/ i > n
      BY <2>2
    <3>2. CASE large
      BY <2>2, <3>1, <3>2
    <3>3. CASE ~large
      BY <2>2, <3>1, <3>3
    <3> QED BY <3>2, <3>3
  <2>6. ASSUME NEW i \in 1..m
        PROVE  LogOf(i)' \in Nat /\ LogOf(i)' \in DOMAIN logs' /\ LogOf(i)' >= meta.min
               /\ (i < m => LogOf(i)' < new) /\ LogOf(i)' <= new
    <3>1. CASE i \in 1..n
      BY <2>1, <2>2, <2>3, <3>1
    <3>2. CASE large /\ i = n + 1 /\ i < m
      BY <2>1, <2>2, <2>3, <3>2
    <3>3. CASE i = m
      BY <2>1, <2>2, <2>3, <3>3
    <3> QED BY <2>5, <3>1, <3>2, <3>3
  <2>7. ASSUME NEW i \in 1..m, NEW j \in 1..m, i < j
        PROVE  LogOf(i)' <= LogOf(j)'
    <3>1. CASE j = m
      BY <2>1, <2>2, <2>6, <2>7, <3>1
    <3>2. CASE j # m /\ large /\ j = n + 1
      <4>1. i \in 1..n /\ LogOf(j)' = CurLog
        BY <2>2, <2>7, <3>2
      <4> QED BY <2>2, <2>3, <4>1
    <3>3. CASE j \in 1..n
      <4>1. i \in 1..n
        BY <2>2, <2>7, <3>3
      <4>2. LogOf(i) <= LogOf(j)
        BY <2>2, <2>7, <3>3, <4>1 DEF DInv, LoggedInv
      <4> QED BY <2>2, <3>3, <4>1, <4>2
    <3> QED BY <2>5, <3>1, <3>2, <3>3
  <2>8. ASSUME NEW i \in 1..m, queue'[i].log = 0
        PROVE  i < m /\ queue'[i + 1].mem = 0 /\ queue'[i + 1].log # 0
    <3>1. i \in 1..n
      BY <2>2, <2>5, <2>8
    <3> QED BY <2>2, <2>8, <3>1
  <2>9. ASSUME NEW i \in 1..m, NEW k \in Keys, queue'[i].data[k] # 0
        PROVE  \E p \in DOMAIN logs'[LogOf(i)'] : IsOf(logs'[LogOf(i)'][p], k, queue'[i].data[k])
    <3>1. CASE i \in 1..n
      <4>1. PICK p \in DOMAIN logs[LogOf(i)] : IsOf(logs[LogOf(i)][p], k, queue[i].data[k])
        BY <2>2, <2>9, <3>1 DEF DInv, LoggedInv
      <4>2. logs'[LogOf(i)] = logs[LogOf(i)] /\ LogOf(i)' = LogOf(i) /\ queue'[i].data = queue[i].data
        BY <2>1, <2>2, <2>3, <3>1
      <4> QED BY <4>1, <4>2
    <3>2. CASE large /\ i = n + 1 /\ i < m
      <4>1. k = op[c].key /\ queue'[i].data[k] = op[c].seq /\ LogOf(i)' = CurLog /\ logs'[CurLog] = logs[CurLog]
        BY <2>1, <2>2, <2>3, <2>9, <3>2
      <4> QED BY <2>4, <3>2, <4>1
    <3>3. CASE i = m
      BY <2>2, <2>9, <3>3
    <3> QED BY <2>5, <3>1, <3>2, <3>3
  <2>10. /\ DOMAIN queue' = 1..m /\ CurLog' = new /\ meta' = meta
    BY <2>1, <2>2
  <2> QED BY <2>6, <2>7, <2>8, <2>9, <2>10 DEF LoggedInv, IsOf, m
<1> QED BY <1>1, <1>2, <1>3, <1>4, <1>5, <1>6, DurKinds DEF Writes

\* What is held stays held while the tables stay and no client drops what it has.
LEMMA HeldFrame ==
  ASSUME DInv, NEW f, NEW r \in Record, HeldBy(f, r), At(arr)' = At(arr),
         \A i \in DOMAIN queue :
           /\ i \in DOMAIN queue' /\ LogOf(i)' = LogOf(i) /\ queue'[i].mem = queue[i].mem
           /\ \A k \in Keys : queue'[i].data[k] \in Nat /\ queue[i].data[k] <= queue'[i].data[k],
         \A d \in Clients : pc[d] = "apply" =>
           \/ pc'[d] = "apply" /\ op'[d] = op[d]
           \/ \A i \in DOMAIN queue : queue[i].mem = op[d].mem => queue'[i].data[op[d].key] >= op[d].seq,
         \A d \in Clients : Logging(d) =>
           \/ Logging(d)' /\ op'[d].key = op[d].key /\ op'[d].seq = op[d].seq /\ CurLog' = CurLog
           \/ \E i \in DOMAIN queue' : LogOf(i)' = CurLog /\ queue'[i].data[op[d].key] >= op[d].seq
  PROVE  HeldBy(f, r)'
<1>0. r.key \in Keys /\ r.seq \in Nat
  BY DEF Record
<1>1. CASE r.seq <= At(arr)[r.key]
  BY <1>1 DEF HeldBy
<1>2. CASE \E i \in DOMAIN queue : LogOf(i) = f /\ queue[i].data[r.key] >= r.seq
  <2>1. PICK i \in DOMAIN queue : LogOf(i) = f /\ queue[i].data[r.key] >= r.seq
    BY <1>2
  <2>2. queue[i].data[r.key] \in Nat
    BY <1>0, DataFact DEF DInv
  <2>3. queue'[i].data[r.key] >= r.seq
    BY <1>0, <2>1, <2>2
  <2> QED BY <2>1, <2>3 DEF HeldBy
<1>3. CASE \E c \in Clients : /\ pc[c] = "apply" /\ IsOf(r, op[c].key, op[c].seq)
                              /\ \E i \in DOMAIN queue : queue[i].mem = op[c].mem /\ LogOf(i) = f
  <2>1. PICK c \in Clients : /\ pc[c] = "apply" /\ IsOf(r, op[c].key, op[c].seq)
                             /\ \E i \in DOMAIN queue : queue[i].mem = op[c].mem /\ LogOf(i) = f
    BY <1>3
  <2>2. PICK i \in DOMAIN queue : queue[i].mem = op[c].mem /\ LogOf(i) = f
    BY <2>1
  <2>3. CASE pc'[c] = "apply" /\ op'[c] = op[c]
    BY <2>1, <2>2, <2>3 DEF HeldBy, IsOf
  <2>4. CASE queue'[i].data[op[c].key] >= op[c].seq
    BY <2>1, <2>2, <2>4 DEF HeldBy, IsOf
  <2> QED BY <2>1, <2>2, <2>3, <2>4
<1>4. CASE \E c \in Clients : Logging(c) /\ IsOf(r, op[c].key, op[c].seq) /\ f = CurLog
  <2>1. PICK c \in Clients : Logging(c) /\ IsOf(r, op[c].key, op[c].seq) /\ f = CurLog
    BY <1>4
  <2>2. CASE Logging(c)' /\ op'[c].key = op[c].key /\ op'[c].seq = op[c].seq /\ CurLog' = CurLog
    BY <2>1, <2>2 DEF HeldBy, IsOf
  <2>3. CASE \E i \in DOMAIN queue' : LogOf(i)' = CurLog /\ queue'[i].data[op[c].key] >= op[c].seq
    BY <2>1, <2>3 DEF HeldBy, IsOf
  <2> QED BY <2>1, <2>2, <2>3
<1> QED BY <1>1, <1>2, <1>3, <1>4 DEF HeldBy

\* What a client logs or applies is held as before.
LEMMA HeldOn ==
  ASSUME DInv, Live, NEW f, NEW r \in Record, HeldBy(f, r),
         Quiet \/ \E c \in Clients : Writes(c) \/ SwitchMem(c) \/ Apply(c)
  PROVE  HeldBy(f, r)'
<1>0. RInv /\ QInv
  BY DEF DInv, RInv
<1>1. /\ DOMAIN queue = 1..Len(queue) /\ Len(queue) \in Nat
      /\ \A i \in DOMAIN queue : \A k \in Keys : queue[i].data[k] \in Nat
  BY <1>0, DataFact
<1>2. CASE Quiet
  <2>1. UNCHANGED <<queue, logQueue>> /\ At(arr)' = At(arr)
    BY <1>2, QuietFact
  <2>2. CurLog' = CurLog /\ \A i \in DOMAIN queue : LogOf(i)' = LogOf(i)
    BY <2>1 DEF CurLog, LogOf
  <2>3. SameHands
    BY <1>2, QuietHands
  <2>4. \A i \in DOMAIN queue : \A k \in Keys : queue[i].data[k] <= queue'[i].data[k]
    BY <1>1, <2>1
  <2>5. \A d \in Clients : pc[d] = "apply" => pc'[d] = "apply" /\ op'[d] = op[d]
    BY <2>3 DEF SameHands
  <2>6. \A d \in Clients : Logging(d) => Logging(d)' /\ op'[d].key = op[d].key /\ op'[d].seq = op[d].seq
    BY <2>3 DEF SameHands
  <2> QED BY <1>1, <2>1, <2>2, <2>4, <2>5, <2>6, HeldFrame
<1>3. ASSUME NEW c \in Clients, Writes(c) PROVE HeldBy(f, r)'
  <2>1. /\ CurLog' = CurLog /\ At(arr)' = At(arr) /\ DOMAIN queue' = DOMAIN queue
        /\ \A i \in DOMAIN queue : /\ queue'[i].log = queue[i].log /\ queue'[i].mem = queue[i].mem
                                   /\ queue'[i].data = queue[i].data
    BY <1>3, WritesFact
  <2>2. \A i \in DOMAIN queue : LogOf(i)' = LogOf(i)
    BY <2>1, SamePlaces
  <2>3. \A d \in Clients : ~Logging(d)
    BY <1>3, PrepareLogs, SetLarge DEF Writes, Logging
  <2>4. \A d \in Clients : pc[d] = "apply" => pc'[d] = "apply" /\ op'[d] = op[d]
    <3>1. pc[c] # "apply" /\ \A d \in Clients : d # c => pc'[d] = pc[d] /\ op'[d] = op[d]
      BY <1>3, PrepareLogs, SetLarge DEF Writes
    <3> QED BY <3>1
  <2>5. \A i \in DOMAIN queue : \A k \in Keys : queue'[i].data[k] \in Nat /\ queue[i].data[k] <= queue'[i].data[k]
    BY <1>1, <2>1
  <2> QED BY <2>1, <2>2, <2>3, <2>4, <2>5, HeldFrame
<1>4. ASSUME NEW c \in Clients, SwitchMem(c) PROVE HeldBy(f, r)'
  <2>1. At(arr)' = At(arr) /\ op' = op
    BY <1>4, SwitchLogs
  <2>2. LET n == Len(queue)
            m == Len(queue')
            large == op[c].kind = "large" IN
        /\ n \in Nat /\ n > 0 /\ m \in Nat /\ DOMAIN queue' = 1..m
        /\ m = (IF large THEN n + 2 ELSE n + 1)
        /\ \A i \in 1..n : /\ queue'[i].data = queue[i].data /\ queue'[i].mem = queue[i].mem
                           /\ LogOf(i)' = LogOf(i)
        /\ large => /\ \A i \in 1..m : i = n + 1 => LogOf(i)' = CurLog
                    /\ op[c].seq \in Nat
                    /\ queue'[n + 1].data[op[c].key] = op[c].seq
    BY <1>4, SwitchTables
  <2>3. \A i \in DOMAIN queue :
           /\ i \in DOMAIN queue' /\ LogOf(i)' = LogOf(i) /\ queue'[i].mem = queue[i].mem
           /\ \A k \in Keys : queue'[i].data[k] \in Nat /\ queue[i].data[k] <= queue'[i].data[k]
    BY <1>1, <2>2
  <2>4. \A d \in Clients : pc[d] = "apply" => pc'[d] = "apply" /\ op'[d] = op[d]
    BY <1>4, <2>1, SwitchHands
  <2>5. \A d \in Clients : Logging(d) =>
          \E i \in DOMAIN queue' : LogOf(i)' = CurLog /\ queue'[i].data[op[d].key] >= op[d].seq
    <3> SUFFICES ASSUME NEW d \in Clients, Logging(d)
                 PROVE  \E i \in DOMAIN queue' : LogOf(i)' = CurLog /\ queue'[i].data[op[d].key] >= op[d].seq
      OBVIOUS
    <3>1. d = c /\ op[c].kind = "large"
      BY <1>4, SwitchHands
    <3>2. PICK i \in DOMAIN queue' : i = Len(queue) + 1
      BY <2>2, <3>1
    <3>3. LogOf(i)' = CurLog /\ queue'[i].data[op[c].key] = op[c].seq /\ op[c].seq \in Nat
      BY <2>2, <3>1, <3>2
    <3> QED BY <3>1, <3>3
  <2> QED BY <2>1, <2>3, <2>4, <2>5, HeldFrame
<1>5. ASSUME NEW c \in Clients, Apply(c) PROVE HeldBy(f, r)'
  <2>1. /\ UNCHANGED <<logQueue, op>> /\ CurLog' = CurLog /\ pc[c] = "apply"
        /\ pc' = [pc EXCEPT ![c] = "ack"] /\ pc \in [Clients -> ClientPcs]
    BY <1>0, <1>5 DEF Apply, logVars, CurLog, QInv, TypeInv
  <2>2. /\ DOMAIN queue' = DOMAIN queue
        /\ \A i \in DOMAIN queue : queue'[i].log = queue[i].log /\ queue'[i].mem = queue[i].mem
    BY <1>0, <1>1, <1>5, ApplyShape, ApplyData DEF QInv
  <2>3. \A i \in DOMAIN queue : LogOf(i)' = LogOf(i)
    BY <2>2, SamePlaces
  <2>4. PICK t \in DOMAIN queue :
              /\ queue[t].mem = op[c].mem
              /\ \A i \in DOMAIN queue : i # t => queue'[i] = queue[i] /\ queue[i].mem # op[c].mem
              /\ \A i \in DOMAIN queue, j \in Keys :
                   queue'[i].data[j] = IF i = t /\ j = op[c].key /\ op[c].seq > queue[t].data[j]
                                       THEN op[c].seq ELSE queue[i].data[j]
    BY <1>0, <1>5, ApplyData
  <2>5. op[c].key \in Keys /\ op[c].seq \in Nat /\ At(arr)' = At(arr)
    BY <1>0, <1>5, ApplyData
  <2>6. \A i \in DOMAIN queue : \A k \in Keys : queue'[i].data[k] \in Nat /\ queue[i].data[k] <= queue'[i].data[k]
    BY <1>1, <2>4, <2>5
  <2>7. queue'[t].data[op[c].key] >= op[c].seq
    BY <1>1, <2>4, <2>5
  <2>8. \A d \in Clients : pc[d] = "apply" =>
           \/ pc'[d] = "apply" /\ op'[d] = op[d]
           \/ \A i \in DOMAIN queue : queue[i].mem = op[d].mem => queue'[i].data[op[d].key] >= op[d].seq
    BY <2>1, <2>4, <2>7
  <2>9. \A d \in Clients : Logging(d) => Logging(d)' /\ op'[d] = op[d]
    BY <2>1 DEF Logging, Making
  <2> QED BY <2>1, <2>2, <2>3, <2>5, <2>6, <2>8, <2>9, HeldFrame
<1> QED BY <1>2, <1>3, <1>4, <1>5

\* And flush1 keeps what it does not merge.
LEMMA HeldInstall ==
  ASSUME DInv, RInv', FlushInstall, NEW f \in Nat, NEW r \in Record, HeldBy(f, r)
  PROVE  /\ HeldBy(f, r)'
         /\ f < fl.min => r.seq <= At(arr)'[r.key]
<1>0. r.key \in Keys /\ r.seq \in Nat /\ QInv /\ RInv
  BY DEF Record, DInv, RInv
<1>1. /\ Live /\ CurLog' = CurLog /\ fl.min = LogOf(fl.n + 1) /\ fl.min \in Nat /\ fl.min <= CurLog
      /\ fl.n \in Nat /\ fl.n < Len(queue) /\ Len(queue) \in Nat /\ UNCHANGED <<pc, op>>
      /\ flushPc = "install"
  BY InstallOk
<1>2. /\ At(arr)[r.key] \in Nat /\ At(arr)'[r.key] \in Nat /\ At(arr)[r.key] <= At(arr)'[r.key]
      /\ \A i \in 1..fl.n : queue[i].data[r.key] <= At(arr)'[r.key]
      /\ Len(queue') = Len(queue) - fl.n
      /\ DOMAIN queue' = 1..Len(queue')
      /\ \A i \in DOMAIN queue' : /\ i + fl.n \in DOMAIN queue /\ queue'[i] = queue[i + fl.n]
                                  /\ LogOf(i)' = LogOf(i + fl.n)
  BY <1>0, MergedFact
<1>3. /\ DOMAIN queue = 1..Len(queue) /\ CurLog \in Nat
      /\ \A i \in DOMAIN queue : LogOf(i) \in Nat
  BY <1>1, LogOfFact
<1>4. ASSUME NEW i \in DOMAIN queue, i > fl.n
      PROVE  fl.min <= LogOf(i) /\ \E h \in DOMAIN queue' : queue'[h] = queue[i] /\ LogOf(h)' = LogOf(i)
  <2>1. fl.n + 1 \in DOMAIN queue /\ (i = fl.n + 1 \/ fl.n + 1 < i)
    BY <1>1, <1>3, <1>4
  <2>2. fl.n + 1 < i => LogOf(fl.n + 1) <= LogOf(i)
    BY <2>1 DEF DInv, LoggedInv
  <2>3. fl.min <= LogOf(i)
    BY <1>1, <1>3, <2>1, <2>2
  <2>4. PICK h \in DOMAIN queue' : i = h + fl.n
    <3>1. i - fl.n \in DOMAIN queue' /\ i = (i - fl.n) + fl.n
      BY <1>1, <1>2, <1>3, <1>4
    <3> QED BY <3>1
  <2> QED BY <1>2, <2>3, <2>4
<1>5. CASE r.seq <= At(arr)[r.key]
  <2>1. r.seq <= At(arr)'[r.key]
    BY <1>0, <1>2, <1>5
  <2> QED BY <2>1 DEF HeldBy
<1>6. ASSUME NEW i \in DOMAIN queue, LogOf(i) = f, queue[i].data[r.key] >= r.seq
      PROVE  HeldBy(f, r)' /\ (f < fl.min => r.seq <= At(arr)'[r.key])
  <2>0. queue[i].data[r.key] \in Nat
    BY <1>0, DataFact
  <2>1. CASE i <= fl.n
    <3>1. i \in 1..fl.n
      BY <1>1, <1>3, <2>1
    <3>2. r.seq <= At(arr)'[r.key]
      BY <1>0, <1>2, <1>6, <2>0, <3>1
    <3> QED BY <3>2 DEF HeldBy
  <2>2. CASE i > fl.n
    <3>1. fl.min <= f /\ \E h \in DOMAIN queue' : queue'[h] = queue[i] /\ LogOf(h)' = f
      BY <1>4, <1>6, <2>2
    <3>2. ~(f < fl.min)
      BY <1>1, <3>1
    <3> QED BY <1>6, <3>1, <3>2 DEF HeldBy
  <2> QED BY <1>1, <1>3, <2>1, <2>2
<1>7. ASSUME NEW c \in Clients, pc[c] = "apply", IsOf(r, op[c].key, op[c].seq),
             NEW i \in DOMAIN queue, queue[i].mem = op[c].mem, LogOf(i) = f
      PROVE  HeldBy(f, r)' /\ (f < fl.min => r.seq <= At(arr)'[r.key])
  <2>1. i > fl.n
    BY <1>0, <1>1, <1>7, WrittenFact
  <2>2. fl.min <= f /\ \E h \in DOMAIN queue' : queue'[h] = queue[i] /\ LogOf(h)' = f
    BY <1>4, <1>7, <2>1
  <2>3. ~(f < fl.min)
    BY <1>1, <2>2
  <2> QED BY <1>1, <1>7, <2>2, <2>3 DEF HeldBy, IsOf
<1>8. ASSUME NEW c \in Clients, Logging(c), IsOf(r, op[c].key, op[c].seq), f = CurLog
      PROVE  HeldBy(f, r)' /\ (f < fl.min => r.seq <= At(arr)'[r.key])
  <2>1. ~(f < fl.min)
    BY <1>1, <1>3, <1>8
  <2>2. Logging(c)'
    BY <1>1, <1>8 DEF Logging, Making
  <2> QED BY <1>1, <1>8, <2>1, <2>2 DEF HeldBy, IsOf
<1>9. r.seq <= At(arr)[r.key] => r.seq <= At(arr)'[r.key]
  BY <1>0, <1>2
<1> QED BY <1>5, <1>6, <1>7, <1>8, <1>9 DEF HeldBy

\* What recovery would read, readers see or will see (commitWrite, flush1).
LEMMA KeptStep ==
  ASSUME DInv, RInv', [Next]_vars
  PROVE  KeptInv'
<1>0. QInv /\ RInv /\ KeptInv /\ LoggedInv
  BY DEF DInv, RInv
<1> SUFFICES ASSUME Live', NEW f \in DOMAIN logs', f >= meta'.min, NEW p \in DOMAIN logs'[f],
                    NEW r, r = logs'[f][p]
             PROVE  HeldBy(f, r)'
  BY DEF KeptInv, HeldBy
<1>1. \A g \in DOMAIN logs : g \in Nat /\ \A i \in DOMAIN logs[g] : logs[g][i] \in Record
  BY <1>0, LogTypes
<1>2. CASE \A c \in Clients : ~Writes(c)
  <2>1. f \in DOMAIN logs /\ f >= meta.min /\ p \in DOMAIN logs[f] /\ r = logs[f][p]
    BY <1>2, ReadableFact
  <2>2. r \in Record /\ f \in Nat
    BY <1>1, <2>1
  <2>3. CASE Live
    <3>1. HeldBy(f, r)
      BY <1>0, <2>1, <2>3 DEF KeptInv
    <3>2. CASE FlushInstall
      BY <2>2, <3>1, <3>2, HeldInstall
    <3>3. CASE Quiet \/ \E c \in Clients : SwitchMem(c) \/ Apply(c)
      BY <2>2, <2>3, <3>1, <3>3, HeldOn
    <3>4. ~Ending /\ ~Open /\ ~ReplayWAL /\ ~Recovered /\ ~OpenDone
      BY <2>3, EndTables DEF Forget, Live, Open, ReplayWAL, Recovered, OpenDone
    <3> QED BY <1>2, <3>2, <3>3, <3>4, DurKinds DEF Writes
  <2>4. CASE ~Live
    <3>1. ~Quiet
      BY <2>4, QuietFact DEF Live
    <3>2. OpenDone
      <4>1. ~Ending /\ ~Open /\ ~ReplayWAL /\ ~Recovered /\ ~FlushInstall
        BY <2>4, EndTables, InstallOk DEF Forget, Live, Open, ReplayWAL, Recovered
      <4>2. \A c \in Clients : ~SwitchMem(c) /\ ~Apply(c)
        BY <1>0, <2>4, BusyFact DEF SwitchMem, Apply, Live
      <4> QED BY <1>2, <3>1, <4>1, <4>2, DurKinds DEF Writes
    <3>3. logs'[f] = <<>>
      BY <3>2, OpenDoneFact
    <3> QED BY <3>3
  <2> QED BY <2>3, <2>4
<1>3. ASSUME NEW c \in Clients, Writes(c) PROVE HeldBy(f, r)'
  <2>1. /\ meta' = meta /\ status = "open" /\ CurLog' = CurLog /\ DOMAIN queue' = DOMAIN queue
        /\ \A i \in DOMAIN queue : queue'[i].log = queue[i].log /\ queue'[i].mem = queue[i].mem
    BY <1>3, WritesFact
  <2>2. Live
    BY <2>1 DEF Live
  <2>3. PICK s \in Record : /\ Appended(s)
                            /\ \/ Prepare(c) /\ s.key = op[c].key /\ s.seq = op[c].seq
                               \/ Logging(c)' /\ s.key = op'[c].key /\ s.seq = op'[c].seq
    BY <1>3, PrepareLogs, SetLarge DEF Writes
  <2>4. CASE f \in DOMAIN logs /\ p \in DOMAIN logs[f] /\ r = logs[f][p]
    <3>1. HeldBy(f, r) /\ r \in Record
      BY <1>0, <1>1, <2>1, <2>2, <2>4 DEF KeptInv
    <3> QED BY <1>3, <2>2, <3>1, HeldOn
  <2>5. CASE f = CurLog /\ r = s
    <3>1. CASE Logging(c)' /\ s.key = op'[c].key /\ s.seq = op'[c].seq
      BY <2>1, <2>5, <3>1 DEF HeldBy, IsOf
    <3>2. CASE Prepare(c) /\ s.key = op[c].key /\ s.seq = op[c].seq
      <4>1. /\ pc'[c] = "apply" /\ op'[c].key = op[c].key /\ op'[c].seq = op[c].seq
            /\ op'[c].mem = queue[Len(queue)].mem
        BY <3>2, PrepareLogs
      <4>2. Len(queue) \in DOMAIN queue /\ LogOf(Len(queue)) = CurLog
        BY <2>2, LogOfFact
      <4>3. \A i \in DOMAIN queue : LogOf(i)' = LogOf(i)
        BY <2>1, <2>2, SamePlaces
      <4>4. PICK i \in DOMAIN queue : i = Len(queue)
        BY <4>2
      <4>5. i \in DOMAIN queue' /\ queue'[i].mem = op'[c].mem /\ LogOf(i)' = CurLog
        BY <2>1, <4>1, <4>2, <4>3, <4>4
      <4> QED BY <2>5, <3>2, <4>1, <4>5 DEF HeldBy, IsOf
    <3> QED BY <2>3, <3>1, <3>2
  <2> QED BY <2>3, <2>4, <2>5 DEF Appended
<1> QED BY <1>2, <1>3

\* A record stays where its client has it.
LEMMA WrittenOn ==
  ASSUME DInv, Grown, NEW d \in Clients, NEW f \in DOMAIN logs, f >= meta.min, NEW p \in DOMAIN logs[f],
         Written(d, f, p), op'[d] = op[d], place'[d] = place[d],
         CurLog' = CurLog \/ f # CurLog'
  PROVE  f \in DOMAIN logs' /\ p \in DOMAIN logs'[f] /\ Written(d, f, p)'
BY DEF Grown, Written, IsOf

\* While a client applies its batch, no other step touches what it holds.
LEMMA ApplyingOn ==
  ASSUME DInv, RInv', [Next]_vars, NEW c \in Clients, pc'[c] = "apply", ~Prepare(c),
         NEW i \in DOMAIN queue', queue'[i].mem = op'[c].mem, NEW g, g = LogOf(i)'
  PROVE  /\ pc[c] = "apply" /\ op'[c] = op[c] /\ place'[c] = place[c] /\ Grown
         /\ CurLog' = CurLog \/ g # CurLog'
         /\ \E h \in DOMAIN queue : queue[h].mem = op[c].mem /\ LogOf(h) = g
<1>0. QInv /\ RInv
  BY DEF DInv, RInv
<1>1. ~Ending
  BY EndTables DEF Forget
<1>2. Grown
  BY <1>1, GrownFact
<1>3. CASE Quiet
  <2>1. UNCHANGED <<queue, logQueue>>
    BY <1>3, QuietFact
  <2>2. LogOf(i)' = LogOf(i) /\ CurLog' = CurLog
    BY <2>1 DEF LogOf, CurLog
  <2>3. pc[c] = "apply" /\ op'[c] = op[c] /\ place'[c] = place[c]
    BY <1>3, QuietHands DEF SameHands
  <2> QED BY <1>2, <2>1, <2>2, <2>3
<1>4. ASSUME NEW d \in Clients, Writes(d)
      PROVE  /\ pc[c] = "apply" /\ op'[c] = op[c] /\ place'[c] = place[c] /\ CurLog' = CurLog
             /\ \E h \in DOMAIN queue : queue[h].mem = op[c].mem /\ LogOf(h) = g
  <2>1. /\ status = "open" /\ CurLog' = CurLog /\ DOMAIN queue' = DOMAIN queue
        /\ \A h \in DOMAIN queue : queue'[h].log = queue[h].log /\ queue'[h].mem = queue[h].mem
    BY <1>4, WritesFact
  <2>2. \A h \in DOMAIN queue : LogOf(h)' = LogOf(h)
    BY <2>1, SamePlaces DEF Live
  <2>3. c # d /\ pc[c] = "apply" /\ op'[c] = op[c] /\ place'[c] = place[c]
    BY <1>4, PrepareLogs, SetLarge DEF Writes
  <2> QED BY <2>1, <2>2, <2>3
<1>5. ASSUME NEW d \in Clients, Apply(d)
      PROVE  /\ pc[c] = "apply" /\ op'[c] = op[c] /\ place'[c] = place[c] /\ CurLog' = CurLog
             /\ \E h \in DOMAIN queue : queue[h].mem = op[c].mem /\ LogOf(h) = g
  <2>1. /\ UNCHANGED <<logQueue, op, place>> /\ CurLog' = CurLog /\ pc[d] = "apply"
        /\ pc' = [pc EXCEPT ![d] = "ack"] /\ pc \in [Clients -> ClientPcs]
    BY <1>0, <1>5 DEF Apply, logVars, CurLog, QInv, TypeInv
  <2>2. Live
    BY <1>0, <2>1, BusyFact DEF Live
  <2>3. /\ DOMAIN queue' = DOMAIN queue
        /\ \A h \in DOMAIN queue : queue'[h].log = queue[h].log /\ queue'[h].mem = queue[h].mem
    BY <1>0, <1>5, DataFact, ApplyShape, ApplyData DEF QInv
  <2>4. \A h \in DOMAIN queue : LogOf(h)' = LogOf(h)
    BY <2>2, <2>3, SamePlaces
  <2> QED BY <2>1, <2>3, <2>4
<1>6. ASSUME NEW d \in Clients, SwitchMem(d)
      PROVE  /\ pc[c] = "apply" /\ op'[c] = op[c] /\ place'[c] = place[c] /\ g # CurLog'
             /\ \E h \in DOMAIN queue : queue[h].mem = op[c].mem /\ LogOf(h) = g
  <2>1. pc[c] = "apply" /\ UNCHANGED <<op, place>>
    BY <1>6, SwitchHands, SwitchLogs
  <2>2. /\ Len(queue) \in Nat /\ Len(queue) > 0 /\ DOMAIN queue = 1..Len(queue) /\ Len(queue') \in Nat
        /\ DOMAIN queue' = 1..Len(queue')
        /\ \A h \in 1..Len(queue) : queue'[h].mem = queue[h].mem /\ LogOf(h)' = LogOf(h)
        /\ \A h \in 1..Len(queue') : h > Len(queue) =>
             queue'[h].mem = 0 \/ queue'[h].mem = queue[Len(queue)].mem + 1
    BY <1>6, SwitchTables
  <2>3. op[c].mem \in Nat /\ op[c].mem > 0
    BY <1>0, <2>1, OpFact
  <2>4. PICK j \in DOMAIN queue : queue[j].mem = op[c].mem
    BY <1>0, <2>1 DEF QInv, OpInv, InQueue
  <2>5. op[c].mem <= queue[Len(queue)].mem /\ queue[Len(queue)].mem \in Nat
    <3>1. \A h \in DOMAIN queue : queue[h].mem \in Nat
      BY <1>0, EntryFact DEF QInv
    <3>2. queue[Len(queue)].mem > 0
      BY <1>0, <2>2 DEF QInv, IdsInv, Mutable
    <3>3. j < Len(queue) => queue[j].mem < queue[Len(queue)].mem
      BY <1>0, <2>2, <2>3, <2>4, <3>2 DEF QInv, IdsInv
    <3> QED BY <2>2, <2>3, <2>4, <3>1, <3>3
  <2>6. i \in DOMAIN queue
    <3>1. ~(i > Len(queue))
      BY <2>1, <2>2, <2>3, <2>5
    <3> QED BY <2>2, <3>1
  <2>7. status = "open" /\ CurLog' > CurLog
    BY <1>6, SwitchLogs
  <2>8. LogOf(i) <= CurLog /\ LogOf(i) \in Nat /\ CurLog \in Nat
    BY <2>6, <2>7, LogOfFact DEF Live
  <2>9. g = LogOf(i) /\ g # CurLog'
    BY <2>2, <2>6, <2>7, <2>8
  <2> QED BY <2>1, <2>2, <2>6, <2>9
<1>7. CASE FlushInstall
  <2>1. CurLog' = CurLog /\ UNCHANGED <<pc, op, place>>
    BY <1>7, InstallOk
  <2>2. i + fl.n \in DOMAIN queue /\ queue'[i] = queue[i + fl.n] /\ LogOf(i)' = LogOf(i + fl.n)
    BY <1>7, MergedFact
  <2> QED BY <1>2, <2>1, <2>2
<1>8. ~Open /\ ~ReplayWAL /\ ~Recovered /\ ~OpenDone
  <2>1. Open \/ ReplayWAL \/ Recovered \/ OpenDone => pc' = pc /\ status # "open"
    BY DEF Open, ReplayWAL, Recovered, OpenDone, clientVars
  <2> QED BY <1>0, <2>1, BusyFact
<1> QED BY <1>1, <1>2, <1>3, <1>4, <1>5, <1>6, <1>7, <1>8, DurKinds DEF Writes

\* A batch on its way is in the log of its memtable (commitWrite).
LEMMA AckApplyStep ==
  ASSUME DInv, RInv', [Next]_vars, NEW c \in Clients, pc'[c] = "apply",
         NEW i \in DOMAIN queue', queue'[i].mem = op'[c].mem, NEW g, g = LogOf(i)'
  PROVE  \E p \in DOMAIN logs'[g] : Written(c, g, p)'
<1>0. QInv /\ RInv
  BY DEF DInv, RInv
<1>1. CASE ~Prepare(c)
  <2>1. /\ pc[c] = "apply" /\ op'[c] = op[c] /\ place'[c] = place[c] /\ Grown
        /\ CurLog' = CurLog \/ g # CurLog'
        /\ \E h \in DOMAIN queue : queue[h].mem = op[c].mem /\ LogOf(h) = g
    BY <1>1, ApplyingOn
  <2>2. PICK h \in DOMAIN queue : queue[h].mem = op[c].mem /\ LogOf(h) = g
    BY <2>1
  <2>3. PICK p \in DOMAIN logs[g] : Written(c, g, p)
    BY <2>1, <2>2 DEF DInv, AckInv
  <2>4. g \in DOMAIN logs /\ g >= meta.min
    BY <2>2 DEF DInv, LoggedInv
  <2> QED BY <2>1, <2>3, <2>4, WrittenOn
<1>2. CASE Prepare(c)
  <2>1. PICK r \in Record : Appended(r) /\ r.key = op[c].key /\ r.seq = op[c].seq
    BY <1>2, PrepareLogs
  <2>2. /\ status = "open"
        /\ op'[c].key = op[c].key /\ op'[c].seq = op[c].seq /\ op'[c].sync = op[c].sync
        /\ op'[c].mem = queue[Len(queue)].mem
        /\ op[c].sync => place'[c] = <<CurLog, Len(logs[CurLog]) + 1>>
        /\ DOMAIN queue' = DOMAIN queue
        /\ \A h \in DOMAIN queue : queue'[h].log = queue[h].log /\ queue'[h].mem = queue[h].mem
    BY <1>2, PrepareLogs
  <2>3. /\ Len(queue) \in Nat /\ Len(queue) > 0 /\ DOMAIN queue = 1..Len(queue)
        /\ LogOf(Len(queue)) = CurLog /\ CurLog \in DOMAIN logs
    BY <2>2, LogOfFact DEF Live
  <2>4. i = Len(queue)
    <3>1. queue[i].mem = queue[Len(queue)].mem /\ queue[Len(queue)].mem > 0 /\ queue[i].mem \in Nat
      BY <1>0, <2>2, <2>3, EntryFact DEF QInv, IdsInv, Mutable
    <3>2. ~(i < Len(queue))
      BY <1>0, <2>2, <2>3, <3>1 DEF QInv, IdsInv
    <3> QED BY <2>2, <2>3, <3>2
  <2>5. g = CurLog
    BY <2>2, <2>3, <2>4, SamePlaces DEF Live
  <2>6. CurLog' = CurLog
    BY <1>2, WritesFact DEF Writes
  <2>7. /\ Len(logs[CurLog]) + 1 \in DOMAIN logs'[CurLog] /\ logs'[CurLog][Len(logs[CurLog]) + 1] = r
    BY <1>0, <2>1, <2>3, LogTypes DEF Appended
  <2>8. PICK p \in DOMAIN logs'[CurLog] : p = Len(logs[CurLog]) + 1
    BY <2>7
  <2>9. Written(c, g, p)'
    BY <2>1, <2>2, <2>5, <2>6, <2>7, <2>8 DEF Written, IsOf
  <2> QED BY <2>5, <2>8, <2>9
<1> QED BY <1>1, <1>2

\* While the database is open, the newest write applied of a key only gets newer.
LEMMA LatestGrows ==
  ASSUME DInv, [Next]_vars, Live, ~Ending
  PROVE  \A k \in Keys : latest[k] \in Nat /\ latest'[k] \in Nat /\ latest[k] <= latest'[k]
<1>0. QInv /\ RInv /\ latest \in Data /\ \A k \in Keys : latest[k] \in Nat
  BY DataFact DEF DInv, RInv
<1>1. CASE latest' = latest
  BY <1>0, <1>1
<1>2. ASSUME NEW c \in Clients, latest' = Upd(latest, op[c].key, op[c].seq), op[c].key \in Keys
      PROVE  \A k \in Keys : latest'[k] \in Nat /\ latest[k] <= latest'[k]
  <2>1. op[c].seq \in Nat
    BY <1>0, OpFact
  <2>2. /\ latest'[op[c].key] = (IF op[c].seq > latest[op[c].key] THEN op[c].seq ELSE latest[op[c].key])
        /\ \A j \in Keys : j # op[c].key => latest'[j] = latest[j]
    BY <1>0, <1>2, <2>1, UpdFact
  <2> QED BY <1>0, <1>2, <2>1, <2>2
<1>3. \/ latest' = latest
      \/ \E c \in Clients : latest' = Upd(latest, op[c].key, op[c].seq) /\ op[c].key \in Keys
  <2>1. CASE Quiet \/ FlushInstall \/ \E c \in Clients : Writes(c)
    BY <2>1, QuietFact, InstallOk, WritesFact
  <2>2. ASSUME NEW c \in Clients, SwitchMem(c)
        PROVE  latest' = latest \/ (latest' = Upd(latest, op[c].key, op[c].seq) /\ op[c].key \in Keys)
    BY <2>2, SwitchHands, SwitchTables
  <2>3. ASSUME NEW c \in Clients, Apply(c)
        PROVE  latest' = Upd(latest, op[c].key, op[c].seq) /\ op[c].key \in Keys
    BY <1>0, <2>3, ApplyData DEF Apply
  <2>4. ~Open /\ ~ReplayWAL /\ ~Recovered /\ ~OpenDone
    BY DEF Live, Open, ReplayWAL, Recovered, OpenDone
  <2> QED BY <2>1, <2>2, <2>3, <2>4, DurKinds DEF Writes
<1> QED BY <1>0, <1>1, <1>2, <1>3

\* What is in the array table or a log stays in one of them, but for a kill.
LEMMA SomewhereOn ==
  ASSUME DInv, RInv', [Next]_vars, Live, ~Ending, NEW c \in Clients, op'[c] = op[c], place'[c] = place[c],
         op[c].key \in Keys, op[c].seq \in Nat,
         \/ op[c].seq <= At(arr)[op[c].key]
         \/ \E f \in DOMAIN logs : f >= meta.min /\ \E p \in DOMAIN logs[f] : Written(c, f, p)
  PROVE  \/ op'[c].seq <= At(arr)'[op'[c].key]
         \/ \E f \in DOMAIN logs' : f >= meta'.min /\ \E p \in DOMAIN logs'[f] : Written(c, f, p)'
<1>0. QInv /\ RInv /\ Grown /\ ~Open /\ ~ReplayWAL /\ ~Recovered /\ ~OpenDone
  BY GrownFact DEF DInv, RInv, Live, Open, ReplayWAL, Recovered, OpenDone
<1>1. CASE FlushInstall
  <2>1. /\ UNCHANGED logs /\ CurLog' = CurLog /\ meta'.min = fl.min /\ fl.min \in Nat
    BY <1>1, InstallOk
  <2>2. At(arr)[op[c].key] \in Nat /\ At(arr)'[op[c].key] \in Nat /\ At(arr)[op[c].key] <= At(arr)'[op[c].key]
    BY <1>1, MergedFact
  <2>3. CASE op[c].seq <= At(arr)[op[c].key]
    BY <2>2, <2>3
  <2>4. ASSUME NEW f \in DOMAIN logs, f >= meta.min, NEW p \in DOMAIN logs[f], Written(c, f, p)
        PROVE  \/ op[c].seq <= At(arr)'[op[c].key]
               \/ \E g \in DOMAIN logs' : g >= meta'.min /\ \E q \in DOMAIN logs'[g] : Written(c, g, q)'
    <3>0. f \in Nat /\ logs[f][p] \in Record
      BY <1>0, LogTypes
    <3>1. CASE f >= fl.min
      BY <1>0, <2>1, <2>4, <3>1, WrittenOn
    <3>2. CASE f < fl.min
      <4>1. HeldBy(f, logs[f][p])
        BY <2>4 DEF DInv, KeptInv
      <4>2. \A r \in Record : HeldBy(f, r) => r.seq <= At(arr)'[r.key]
        BY <1>1, <3>0, <3>2, HeldInstall
      <4>3. logs[f][p].seq <= At(arr)'[logs[f][p].key]
        BY <3>0, <4>1, <4>2
      <4> QED BY <2>4, <4>3 DEF Written, IsOf
    <3> QED BY <2>1, <3>0, <3>1, <3>2
  <2> QED BY <2>3, <2>4
<1>2. CASE Quiet \/ \E d \in Clients : Writes(d) \/ SwitchMem(d) \/ Apply(d)
  <2>1. meta' = meta /\ At(arr)' = At(arr)
    <3>1. CASE Quiet \/ \E d \in Clients : Writes(d) \/ SwitchMem(d)
      BY <3>1, QuietFact, WritesFact, SwitchLogs
    <3>2. ASSUME NEW d \in Clients, Apply(d) PROVE meta' = meta /\ At(arr)' = At(arr)
      BY <1>0, <3>2, ApplyData DEF Apply, diskVars
    <3> QED BY <1>2, <3>1, <3>2
  <2>2. \A f \in DOMAIN logs : CurLog' = CurLog \/ f # CurLog'
    <3>1. CASE Quiet \/ \E d \in Clients : Writes(d) \/ Apply(d)
      <4>1. logQueue' = logQueue
        BY <3>1, QuietFact, WritesFact DEF Apply, logVars
      <4> QED BY <4>1 DEF CurLog
    <3>2. ASSUME NEW d \in Clients, SwitchMem(d) PROVE \A f \in DOMAIN logs : f # CurLog'
      BY <3>2, SwitchLogs
    <3> QED BY <1>2, <3>1, <3>2
  <2>3. CASE op[c].seq <= At(arr)[op[c].key]
    BY <2>1, <2>3
  <2>4. ASSUME NEW f \in DOMAIN logs, f >= meta.min, NEW p \in DOMAIN logs[f], Written(c, f, p)
        PROVE  \E g \in DOMAIN logs' : g >= meta'.min /\ \E q \in DOMAIN logs'[g] : Written(c, g, q)'
    <3>1. f \in DOMAIN logs' /\ p \in DOMAIN logs'[f] /\ Written(c, f, p)'
      BY <1>0, <2>2, <2>4, WrittenOn
    <3> QED BY <2>1, <2>4, <3>1
  <2> QED BY <2>3, <2>4
<1> QED BY <1>0, <1>1, <1>2, DurKinds DEF Writes

\* A write about to be acknowledged is applied, and on its way to the disk (Commit).
LEMMA AckAckStep ==
  ASSUME DInv, RInv', [Next]_vars, NEW c \in Clients, pc'[c] = "ack"
  PROVE  /\ op'[c].key \in Keys /\ op'[c].seq <= latest'[op'[c].key]
         /\ \/ op'[c].seq <= At(arr)'[op'[c].key]
            \/ \E f \in DOMAIN logs' : f >= meta'.min /\ \E p \in DOMAIN logs'[f] : Written(c, f, p)'
<1>0. QInv /\ RInv /\ op[c].seq \in Nat
  BY OpFact DEF DInv, RInv
<1>1. ~Ending
  BY EndTables DEF Forget
<1>2. ~Open /\ ~ReplayWAL /\ ~Recovered /\ ~OpenDone
  <2>1. Open \/ ReplayWAL \/ Recovered \/ OpenDone => pc' = pc /\ status # "open"
    BY DEF Open, ReplayWAL, Recovered, OpenDone, clientVars
  <2> QED BY <1>0, <2>1, BusyFact
<1>3. /\ op'[c] = op[c] /\ place'[c] = place[c] /\ pc[c] # "idle"
      /\ pc[c] = "ack" \/ Apply(c) \/ SwitchMem(c)
  <2>1. CASE Quiet
    BY <2>1, QuietHands DEF SameHands
  <2>2. ASSUME NEW d \in Clients, Writes(d) PROVE pc[c] = "ack" /\ op'[c] = op[c] /\ place'[c] = place[c]
    BY <2>2, PrepareLogs, SetLarge DEF Writes
  <2>3. ASSUME NEW d \in Clients, SwitchMem(d)
        PROVE  op'[c] = op[c] /\ place'[c] = place[c] /\ pc[c] # "idle" /\ (pc[c] = "ack" \/ d = c)
    BY <2>3, SwitchHands, SwitchLogs
  <2>4. ASSUME NEW d \in Clients, Apply(d)
        PROVE  op'[c] = op[c] /\ place'[c] = place[c] /\ pc[c] # "idle" /\ (pc[c] = "ack" \/ d = c)
    BY <1>0, <2>4 DEF Apply, QInv, TypeInv
  <2>5. CASE FlushInstall
    BY <2>5, InstallOk
  <2> QED BY <1>1, <1>2, <2>1, <2>2, <2>3, <2>4, <2>5, DurKinds DEF Writes
<1>4. Live
  BY <1>0, <1>3, BusyFact DEF Live
<1>5. \A k \in Keys : latest[k] \in Nat /\ latest'[k] \in Nat /\ latest[k] <= latest'[k]
  BY <1>1, <1>4, LatestGrows
<1>6. CASE pc[c] = "ack"
  <2>1. /\ op[c].key \in Keys /\ op[c].seq <= latest[op[c].key]
        /\ \/ op[c].seq <= At(arr)[op[c].key]
           \/ \E f \in DOMAIN logs : f >= meta.min /\ \E p \in DOMAIN logs[f] : Written(c, f, p)
    BY <1>6 DEF DInv, AckInv
  <2>2. op[c].seq <= latest'[op[c].key]
    BY <1>0, <1>5, <2>1
  <2> QED BY <1>0, <1>1, <1>3, <1>4, <2>1, <2>2, SomewhereOn
<1>7. CASE Apply(c)
  <2>1. pc[c] = "apply" /\ latest' = Upd(latest, op[c].key, op[c].seq)
    BY <1>7 DEF Apply
  <2>2. op[c].key \in Keys
    BY <1>0, <1>7, ApplyData
  <2>3. PICK i \in DOMAIN queue : queue[i].mem = op[c].mem
    BY <1>0, <2>1 DEF QInv, OpInv, InQueue
  <2>4. LogOf(i) \in DOMAIN logs /\ LogOf(i) >= meta.min
    BY DEF DInv, LoggedInv
  <2>5. \E p \in DOMAIN logs[LogOf(i)] : Written(c, LogOf(i), p)
    BY <2>1, <2>3 DEF DInv, AckInv
  <2>6. op[c].seq <= latest'[op[c].key]
    <3>1. latest \in Data /\ latest[op[c].key] \in Nat
      BY <1>0, <2>2, DataFact
    <3> QED BY <1>0, <2>1, <2>2, <3>1, UpdFact
  <2> QED BY <1>0, <1>1, <1>3, <1>4, <2>2, <2>4, <2>5, <2>6, SomewhereOn
<1>8. CASE SwitchMem(c) /\ pc[c] # "ack"
  <2>1. op[c].kind = "large" /\ Logging(c) /\ latest' = Upd(latest, op[c].key, op[c].seq)
    BY <1>8, SwitchHands
  <2>2. op[c].key \in Keys
    BY <1>8, <2>1, SwitchTables
  <2>3. op[c].seq <= latest'[op[c].key]
    <3>1. latest \in Data /\ latest[op[c].key] \in Nat
      BY <1>0, <2>2, DataFact
    <3> QED BY <1>0, <2>1, <2>2, <3>1, UpdFact
  <2>4. PICK p \in DOMAIN logs[CurLog] : IsOf(logs[CurLog][p], op[c].key, op[c].seq)
    BY <2>1 DEF DInv, AckInv
  <2>5. CurLog \in DOMAIN logs /\ CurLog >= meta.min
    BY <1>4 DEF DInv, FilesInv, Up, Live
  <2>6. CurLog \in DOMAIN logs' /\ logs'[CurLog] = logs[CurLog] /\ meta' = meta /\ CurLog # CurLog'
    BY <1>8, <2>5, SwitchLogs
  <2>7. PICK f \in DOMAIN logs' : f = CurLog
    BY <2>6
  <2>8. p \in DOMAIN logs'[f] /\ Written(c, f, p)'
    BY <1>3, <2>4, <2>6, <2>7 DEF Written, IsOf
  <2> QED BY <1>3, <2>2, <2>3, <2>5, <2>6, <2>7, <2>8
<1> QED BY <1>3, <1>6, <1>7, <1>8

\* A large batch that waits for its memtable is in the current log (commitWrite).
LEMMA AckLogStep ==
  ASSUME DInv, RInv', [Next]_vars, NEW c \in Clients, Logging(c)'
  PROVE  \E p \in DOMAIN logs'[CurLog'] : IsOf(logs'[CurLog'][p], op'[c].key, op'[c].seq)
<1>0. QInv /\ RInv
  BY DEF DInv, RInv
<1>1. pc'[c] \in {"room", "switch"}
  BY DEF Logging, Making
<1>2. ~Ending
  BY <1>1, EndTables DEF Forget
<1>3. ~Open /\ ~ReplayWAL /\ ~Recovered /\ ~OpenDone
  <2>1. Open \/ ReplayWAL \/ Recovered \/ OpenDone => pc' = pc /\ status # "open"
    BY DEF Open, ReplayWAL, Recovered, OpenDone, clientVars
  <2> QED BY <1>0, <1>1, <2>1, BusyFact
<1>4. ASSUME Logging(c), op'[c].key = op[c].key, op'[c].seq = op[c].seq, CurLog' = CurLog
      PROVE  \E p \in DOMAIN logs'[CurLog'] : IsOf(logs'[CurLog'][p], op'[c].key, op'[c].seq)
  <2>1. PICK p \in DOMAIN logs[CurLog] : IsOf(logs[CurLog][p], op[c].key, op[c].seq)
    BY <1>4 DEF DInv, AckInv
  <2>2. Live
    BY <1>0, <1>4, BusyFact DEF Live, Logging, Making
  <2>3. CurLog \in DOMAIN logs /\ CurLog >= meta.min
    BY <2>2 DEF DInv, FilesInv, Up, Live
  <2>4. p \in DOMAIN logs'[CurLog] /\ logs'[CurLog][p] = logs[CurLog][p]
    BY <1>2, <2>1, <2>3, GrownFact DEF Grown
  <2> QED BY <1>4, <2>1, <2>4
<1>5. CASE Quiet
  <2>1. CurLog' = CurLog
    BY <1>5, QuietFact DEF CurLog
  <2>2. Logging(c) /\ op'[c].key = op[c].key /\ op'[c].seq = op[c].seq
    BY <1>5, QuietHands DEF SameHands
  <2> QED BY <1>4, <2>1, <2>2
<1>6. CASE FlushInstall
  <2>1. UNCHANGED <<pc, op>> /\ CurLog' = CurLog
    BY <1>6, InstallOk
  <2> QED BY <1>4, <2>1 DEF Logging, Making
<1>7. ASSUME NEW d \in Clients, Apply(d)
      PROVE  \E p \in DOMAIN logs'[CurLog'] : IsOf(logs'[CurLog'][p], op'[c].key, op'[c].seq)
  <2>1. UNCHANGED <<op, logQueue>> /\ pc' = [pc EXCEPT ![d] = "ack"] /\ pc \in [Clients -> ClientPcs]
    BY <1>0, <1>7 DEF Apply, logVars, QInv, TypeInv
  <2>2. pc'[c] = pc[c] /\ CurLog' = CurLog
    BY <1>1, <2>1 DEF CurLog
  <2> QED BY <1>4, <2>1, <2>2 DEF Logging, Making
<1>8. ASSUME NEW d \in Clients, SwitchMem(d) \/ Prepare(d) PROVE FALSE
  BY <1>8, SwitchHands, PrepareLogs DEF Logging
<1>9. ASSUME NEW d \in Clients, NEW k \in Keys, Set(d, k), op'[d].kind # "small"
      PROVE  \E p \in DOMAIN logs'[CurLog'] : IsOf(logs'[CurLog'][p], op'[c].key, op'[c].seq)
  <2>1. PICK r \in Record : Appended(r) /\ r.key = op'[d].key /\ r.seq = op'[d].seq
    BY <1>9, SetLarge
  <2>2. /\ logQueue' = logQueue /\ \A e \in Clients : ~Making(e)
        /\ \A e \in Clients : e # d => pc'[e] = pc[e] /\ op'[e] = op[e]
    BY <1>9, SetLarge
  <2>3. d = c
    BY <2>2 DEF Logging, Making
  <2>4. CurLog' = CurLog
    BY <2>2 DEF CurLog
  <2>5. PICK p \in DOMAIN logs'[CurLog] : p = Len(logs[CurLog]) + 1
    BY <1>0, <2>1, LogTypes DEF Appended
  <2> QED BY <2>1, <2>3, <2>4, <2>5 DEF Appended, IsOf
<1> QED BY <1>2, <1>3, <1>5, <1>6, <1>7, <1>8, <1>9, DurKinds

\* Writes on their way, and those to acknowledge.
LEMMA AckStep ==
  ASSUME DInv, RInv', [Next]_vars
  PROVE  AckInv'
<1> SUFFICES ASSUME NEW c \in Clients
             PROVE  /\ pc'[c] = "apply" => \A i \in DOMAIN queue' : queue'[i].mem = op'[c].mem =>
                         \E p \in DOMAIN logs'[LogOf(i)'] : Written(c, LogOf(i), p)'
                    /\ pc'[c] = "ack" =>
                         /\ op'[c].key \in Keys /\ op'[c].seq <= latest'[op'[c].key]
                         /\ \/ op'[c].seq <= At(arr)'[op'[c].key]
                            \/ \E f \in DOMAIN logs' : f >= meta'.min /\ \E p \in DOMAIN logs'[f] : Written(c, f, p)'
                    /\ Logging(c)' =>
                         \E p \in DOMAIN logs'[CurLog'] : IsOf(logs'[CurLog'][p], op'[c].key, op'[c].seq)
  BY DEF AckInv, IsOf
<1>1. ASSUME pc'[c] = "apply", NEW i \in DOMAIN queue', queue'[i].mem = op'[c].mem
      PROVE  \E p \in DOMAIN logs'[LogOf(i)'] : Written(c, LogOf(i), p)'
  <2>1. PICK g : g = LogOf(i)'
    OBVIOUS
  <2>2. \E p \in DOMAIN logs'[g] : Written(c, g, p)'
    BY <1>1, <2>1, AckApplyStep
  <2> QED BY <2>1, <2>2 DEF Written
<1> QED BY <1>1, AckAckStep, AckLogStep

\* The types of the array tables.
LEMMA AtTypes ==
  ASSUME DInv, RInv'
  PROVE  \A k \in Keys : /\ At(arr)[k] \in Nat /\ At(meta.at)[k] \in Nat
                         /\ At(arr)'[k] \in Nat /\ At(meta.at)'[k] \in Nat
<1>1. \A k \in Keys : At(arr)[k] \in Nat /\ At(meta.at)[k] \in Nat
  BY AtFact DEF DInv, RInv, Data
<1>2. \A k \in Keys : At(arr)'[k] \in Nat /\ At(meta.at)'[k] \in Nat
  BY EmptyFact DEF RInv, AtsInv, At, Data
<1> QED BY <1>1, <1>2

\* A log that stays the same is not behind an older table.
LEMMA NotBehindOlder ==
  ASSUME QInv, NEW f \in DOMAIN logs, logs'[f] = logs[f], NEW a, NEW b, NotBehind(f, a),
         \A k \in Keys : a[k] \in Nat /\ b[k] \in Nat /\ b[k] <= a[k]
  PROVE  \A i \in DOMAIN logs'[f] : \E j \in DOMAIN logs'[f] :
           logs'[f][j].key = logs'[f][i].key /\ b[logs'[f][i].key] <= logs'[f][j].seq
<1> SUFFICES ASSUME NEW i \in DOMAIN logs[f]
             PROVE  \E j \in DOMAIN logs[f] :
                      logs[f][j].key = logs[f][i].key /\ b[logs[f][i].key] <= logs[f][j].seq
  OBVIOUS
<1>1. PICK j \in DOMAIN logs[f] : logs[f][j].key = logs[f][i].key /\ a[logs[f][i].key] <= logs[f][j].seq
  BY DEF NotBehind
<1>2. logs[f][i].key \in Keys /\ logs[f][j].seq \in Nat
  BY LogTypes
<1>3. b[logs[f][i].key] <= logs[f][j].seq
  BY <1>1, <1>2
<1> QED BY <1>1, <1>3

\* A new record is newer than both tables.
LEMMA StaleWrites ==
  ASSUME DInv, RInv', NEW c \in Clients, Writes(c)
  PROVE  StaleInv'
<1>0. QInv /\ \A f \in DOMAIN logs : DOMAIN logs[f] = 1..Len(logs[f]) /\ Len(logs[f]) \in Nat
  BY LogTypes DEF DInv, RInv
<1>1. PICK r \in Record : Appended(r)
  BY WritesFact
<1>2. /\ UNCHANGED <<meta, pending, status>> /\ status = "open" /\ CurLog' = CurLog
      /\ At(arr)' = At(arr) /\ At(meta.at)' = At(meta.at)
  BY WritesFact
<1>3. r.key \in Keys /\ r.seq \in Nat
  BY DEF Record
<1>4. \A k \in Keys : At(arr)[k] \in Nat /\ At(meta.at)[k] \in Nat /\ At(meta.at)[k] <= At(arr)[k]
  BY <1>2, AtTypes DEF DInv, ArrInv
<1>5. At(arr)[r.key] <= r.seq /\ At(meta.at)[r.key] <= r.seq
  BY <1>1, <1>3, <1>4 DEF Appended
<1>6. ASSUME NEW f \in DOMAIN logs', f >= meta'.min, NEW a, NotBehind(f, a), a[r.key] <= r.seq
      PROVE  \A i \in DOMAIN logs'[f] : \E j \in DOMAIN logs'[f] :
               logs'[f][j].key = logs'[f][i].key /\ a[logs'[f][i].key] <= logs'[f][j].seq
  <2>1. CASE f # CurLog
    BY <1>1, <1>6, <2>1 DEF Appended, NotBehind
  <2>2. CASE f = CurLog
    <3> SUFFICES ASSUME NEW i \in DOMAIN logs'[f]
                 PROVE  \E j \in DOMAIN logs'[f] :
                          logs'[f][j].key = logs'[f][i].key /\ a[logs'[f][i].key] <= logs'[f][j].seq
      OBVIOUS
    <3>1. CASE i \in DOMAIN logs[f]
      <4>1. PICK j \in DOMAIN logs[f] : logs[f][j].key = logs[f][i].key /\ a[logs[f][i].key] <= logs[f][j].seq
        BY <1>6, <3>1 DEF NotBehind
      <4> QED BY <1>1, <2>2, <3>1, <4>1 DEF Appended
    <3>2. CASE logs'[f][i] = r
      BY <1>6, <3>2
    <3> QED BY <1>1, <2>2, <3>1, <3>2 DEF Appended
  <2> QED BY <2>1, <2>2
<1>7. \A f \in DOMAIN logs' : f >= meta'.min => NotBehind(f, At(meta.at)) /\ NotBehind(f, At(arr))
  BY <1>1, <1>2 DEF DInv, StaleInv, Appended, Up
<1>8. \A f \in DOMAIN logs' : f >= meta'.min => \A i \in DOMAIN logs'[f] : \E j \in DOMAIN logs'[f] :
        logs'[f][j].key = logs'[f][i].key /\ At(meta.at)[logs'[f][i].key] <= logs'[f][j].seq
  BY <1>5, <1>6, <1>7
<1>9. \A f \in DOMAIN logs' : f >= meta'.min => \A i \in DOMAIN logs'[f] : \E j \in DOMAIN logs'[f] :
        logs'[f][j].key = logs'[f][i].key /\ At(arr)[logs'[f][i].key] <= logs'[f][j].seq
  BY <1>5, <1>6, <1>7
<1>10. \A i \in DOMAIN logs'[CurLog] : At(arr)[logs'[CurLog][i].key] <= logs'[CurLog][i].seq
  <2>1. \A i \in DOMAIN logs[CurLog] : At(arr)[logs[CurLog][i].key] <= logs[CurLog][i].seq
    BY <1>2 DEF DInv, StaleInv, Live
  <2> QED BY <1>1, <1>5, <2>1 DEF Appended
<1> QED BY <1>2, <1>8, <1>9, <1>10 DEF StaleInv, NotBehind

\* A flush merges nothing that is newer than a log it leaves.
LEMMA StaleInstall ==
  ASSUME DInv, RInv', FlushInstall
  PROVE  StaleInv'
<1>0. QInv /\ RInv
  BY DEF DInv, RInv
<1>1. /\ Live /\ UNCHANGED <<logs, status, pending>> /\ CurLog' = CurLog /\ meta'.min = fl.min
      /\ fl.min = LogOf(fl.n + 1) /\ fl.min \in Nat /\ meta.min <= fl.min /\ meta.min \in Nat
      /\ fl.n \in Nat /\ fl.n < Len(queue) /\ Len(queue) \in Nat
  BY <1>0, InstallOk, NumTypes
<1>2. /\ At(meta.at)' = At(arr)'
      /\ \A k \in Keys :
           /\ At(arr)[k] \in Nat /\ At(arr)'[k] \in Nat
           /\ \/ At(arr)'[k] = At(arr)[k]
              \/ \E i \in 1..fl.n : queue[i].data[k] = At(arr)'[k] /\ queue[i].data[k] # 0
  BY MergedFact
<1>3. /\ DOMAIN queue = 1..Len(queue) /\ CurLog \in Nat /\ CurLog \in DOMAIN logs
      /\ \A i \in DOMAIN queue : LogOf(i) \in Nat /\ LogOf(i) \in DOMAIN logs /\ meta.min <= LogOf(i)
  BY <1>1, LogOfFact
<1>4. \A f \in DOMAIN logs : f \in Nat /\ \A p \in DOMAIN logs[f] : logs[f][p].key \in Keys /\ logs[f][p].seq \in Nat
  BY <1>0, LogTypes
\* A record of a flushed table is in an earlier log, or in this one.
<1>5. ASSUME NEW t \in 1..fl.n, NEW k \in Keys, queue[t].data[k] # 0
      PROVE  LogOf(t) \in DOMAIN logs /\ meta.min <= LogOf(t) /\ LogOf(t) <= fl.min /\ LogOf(t) < CurLog
             /\ \E p \in DOMAIN logs[LogOf(t)] : IsOf(logs[LogOf(t)][p], k, queue[t].data[k])
  <2>1. t \in DOMAIN queue /\ t < Len(queue) /\ fl.n + 1 \in DOMAIN queue /\ t < fl.n + 1
    BY <1>1, <1>3
  <2> QED BY <1>1, <1>3, <1>5, <2>1 DEF DInv, LoggedInv
<1>6. ASSUME NEW f \in DOMAIN logs, f >= fl.min, NEW i \in DOMAIN logs[f]
      PROVE  \E j \in DOMAIN logs[f] : logs[f][j].key = logs[f][i].key /\ At(arr)'[logs[f][i].key] <= logs[f][j].seq
  <2> DEFINE k == logs[f][i].key
  <2>1. k \in Keys /\ f \in Nat /\ logs[f][i].seq \in Nat
    BY <1>4
  <2>2. CASE At(arr)'[k] = At(arr)[k]
    <3>1. NotBehind(f, At(arr))
      <4>1. f >= meta.min
        BY <1>1, <1>6, <2>1
      <4> QED BY <1>1, <4>1 DEF DInv, StaleInv, Up, Live
    <3> QED BY <2>2, <3>1 DEF NotBehind
  <2>3. ASSUME NEW t \in 1..fl.n, queue[t].data[k] = At(arr)'[k], queue[t].data[k] # 0
        PROVE  \E j \in DOMAIN logs[f] : logs[f][j].key = k /\ At(arr)'[k] <= logs[f][j].seq
    <3>1. /\ LogOf(t) \in DOMAIN logs /\ meta.min <= LogOf(t) /\ LogOf(t) <= fl.min /\ LogOf(t) \in Nat
          /\ \E p \in DOMAIN logs[LogOf(t)] : IsOf(logs[LogOf(t)][p], k, queue[t].data[k])
      BY <1>4, <1>5, <2>1, <2>3
    <3>2. PICK p \in DOMAIN logs[LogOf(t)] : IsOf(logs[LogOf(t)][p], k, queue[t].data[k])
      BY <3>1
    <3>3. At(arr)'[k] \in Nat
      BY <1>2, <2>1
    <3>4. CASE LogOf(t) = f
      BY <2>3, <3>2, <3>3, <3>4 DEF IsOf
    <3>5. CASE LogOf(t) < f
      <4>1. logs[LogOf(t)][p].seq < logs[f][i].seq
        BY <3>1, <3>2, <3>5 DEF DInv, SeriesInv
      <4>2. At(arr)'[k] <= logs[f][i].seq
        BY <2>1, <2>3, <3>2, <3>3, <4>1 DEF IsOf
      <4> QED BY <4>2
    <3> QED BY <1>1, <1>6, <2>1, <3>1, <3>4, <3>5
  <2> QED BY <1>2, <2>1, <2>2, <2>3
<1>7. ASSUME NEW i \in DOMAIN logs[CurLog]
      PROVE  At(arr)'[logs[CurLog][i].key] <= logs[CurLog][i].seq
  <2> DEFINE k == logs[CurLog][i].key
  <2>1. k \in Keys /\ logs[CurLog][i].seq \in Nat
    BY <1>3, <1>4
  <2>2. CASE At(arr)'[k] = At(arr)[k]
    BY <1>1, <2>2 DEF DInv, StaleInv
  <2>3. ASSUME NEW t \in 1..fl.n, queue[t].data[k] = At(arr)'[k], queue[t].data[k] # 0
        PROVE  At(arr)'[k] <= logs[CurLog][i].seq
    <3>1. /\ LogOf(t) \in DOMAIN logs /\ meta.min <= LogOf(t) /\ LogOf(t) < CurLog
          /\ \E p \in DOMAIN logs[LogOf(t)] : IsOf(logs[LogOf(t)][p], k, queue[t].data[k])
      BY <1>5, <2>1, <2>3
    <3>2. PICK p \in DOMAIN logs[LogOf(t)] : IsOf(logs[LogOf(t)][p], k, queue[t].data[k])
      BY <3>1
    <3>3. logs[LogOf(t)][p].seq < logs[CurLog][i].seq
      BY <1>3, <3>1, <3>2 DEF DInv, SeriesInv
    <3>4. At(arr)'[k] \in Nat
      BY <1>2, <2>1
    <3> QED BY <2>1, <2>3, <3>2, <3>3, <3>4 DEF IsOf
  <2> QED BY <1>2, <2>1, <2>2, <2>3
<1>8. status' # "replay"
  BY <1>1 DEF Live
<1> QED BY <1>1, <1>2, <1>6, <1>7, <1>8 DEF StaleInv, NotBehind

\* A kill, a clean close or a failed open.
LEMMA StaleEnd ==
  ASSUME DInv, RInv', Ending
  PROVE  StaleInv'
<1>0. QInv /\ \A f \in DOMAIN logs : f \in Nat /\ \A p \in DOMAIN logs[f] :
                logs[f][p].key \in Keys /\ logs[f][p].seq \in Nat
  BY LogTypes DEF DInv, RInv
<1>1. status' = "closed"
  BY EndTables DEF Forget
<1>2. \A k \in Keys : /\ At(meta.at)[k] \in Nat /\ At(meta.at)'[k] \in Nat /\ At(arr)[k] \in Nat
                      /\ At(meta.at)'[k] <= At(meta.at)[k] /\ At(meta.at)[k] <= At(arr)[k]
  BY AtTypes, EndTables, EndLogs DEF DInv, ArrInv
<1>3. ASSUME NEW f \in DOMAIN logs', f >= meta'.min
      PROVE  \A i \in DOMAIN logs'[f] : \E j \in DOMAIN logs'[f] :
               logs'[f][j].key = logs'[f][i].key /\ At(meta.at)'[logs'[f][i].key] <= logs'[f][j].seq
  <2>1. /\ f \in DOMAIN logs /\ meta.min \in Nat /\ meta'.min \in Nat /\ meta.min <= meta'.min
        /\ \A p \in DOMAIN logs'[f] : p \in DOMAIN logs[f] /\ logs'[f][p] = logs[f][p]
        /\ ~(Live /\ f = CurLog) => logs'[f] = logs[f]
    BY EndLogs
  <2>2. f >= meta.min
    BY <1>0, <1>3, <2>1
  <2>3. CASE ~(Live /\ f = CurLog)
    <3>1. NotBehind(f, At(meta.at)) /\ logs'[f] = logs[f]
      BY <2>1, <2>2, <2>3 DEF DInv, StaleInv
    <3>2. PICK a, b : a = At(meta.at) /\ b = At(meta.at)'
      OBVIOUS
    <3>3. NotBehind(f, a) /\ \A k \in Keys : a[k] \in Nat /\ b[k] \in Nat /\ b[k] <= a[k]
      BY <1>2, <3>1, <3>2
    <3> QED BY <1>0, <2>1, <3>1, <3>2, <3>3, NotBehindOlder
  <2>4. CASE Live /\ f = CurLog
    <3> SUFFICES ASSUME NEW i \in DOMAIN logs'[f]
                 PROVE  At(meta.at)'[logs'[f][i].key] <= logs'[f][i].seq
      OBVIOUS
    <3>1. i \in DOMAIN logs[f] /\ logs'[f][i] = logs[f][i] /\ logs[f][i].key \in Keys /\ logs[f][i].seq \in Nat
      BY <1>0, <2>1
    <3>2. At(arr)[logs[f][i].key] <= logs[f][i].seq
      BY <2>4, <3>1 DEF DInv, StaleInv
    <3> QED BY <1>2, <3>1, <3>2
  <2> QED BY <2>3, <2>4
<1> QED BY <1>1, <1>3 DEF StaleInv, NotBehind, Up, Live

\* What replayWAL merges is older than the logs still to replay.
LEMMA StaleReplay ==
  ASSUME DInv, RInv', ReplayWAL
  PROVE  StaleInv'
<1>0. QInv /\ \A f \in DOMAIN logs : f \in Nat /\ \A p \in DOMAIN logs[f] :
                logs[f][p].key \in Keys /\ logs[f][p].seq \in Nat
  BY LogTypes DEF DInv, RInv
<1>1. PICK f \in pending :
           /\ f \in DOMAIN logs /\ f >= meta.min /\ \A g \in pending : f <= g
           /\ pending' = pending \ {f}
           /\ UNCHANGED <<meta, logs, status>>
           /\ status = "replay"
           /\ \A k \in Keys :
                /\ At(arr)[k] \in Nat /\ At(arr)'[k] \in Nat
                /\ \/ At(arr)'[k] = At(arr)[k]
                   \/ \E i \in DOMAIN logs[f] : logs[f][i].key = k /\ logs[f][i].seq = At(arr)'[k]
           /\ At(meta.at)' = At(meta.at)
  BY ReplayFact
<1>2. ASSUME NEW g \in pending', NEW i \in DOMAIN logs[g]
      PROVE  \E j \in DOMAIN logs[g] : logs[g][j].key = logs[g][i].key /\ At(arr)'[logs[g][i].key] <= logs[g][j].seq
  <2> DEFINE k == logs[g][i].key
  <2>1. g \in pending /\ g \in DOMAIN logs /\ f < g
    <3>1. g \in pending /\ g \in DOMAIN logs /\ f <= g /\ f # g
      BY <1>0, <1>1 DEF QInv, DiskInv
    <3> QED BY <1>0, <1>1, <3>1
  <2>2. k \in Keys /\ logs[g][i].seq \in Nat
    BY <1>0, <2>1
  <2>3. CASE At(arr)'[k] = At(arr)[k]
    <3>1. NotBehind(g, At(arr))
      BY <1>1, <2>1 DEF DInv, StaleInv
    <3> QED BY <2>3, <3>1 DEF NotBehind
  <2>4. ASSUME NEW p \in DOMAIN logs[f], logs[f][p].seq = At(arr)'[k]
        PROVE  At(arr)'[k] <= logs[g][i].seq
    <3>1. logs[f][p].seq < logs[g][i].seq
      BY <1>1, <2>1 DEF DInv, SeriesInv
    <3>2. logs[f][p].seq \in Nat
      BY <1>0, <1>1
    <3> QED BY <2>2, <2>4, <3>1, <3>2
  <2> QED BY <1>1, <2>2, <2>3, <2>4
<1>3. \A g \in DOMAIN logs : g >= meta.min => NotBehind(g, At(meta.at))
  BY DEF DInv, StaleInv
<1> QED BY <1>1, <1>2, <1>3 DEF StaleInv, NotBehind, Up, Live

\* No log recovery reads would bring an older write back (replayWAL, flush1).
LEMMA StaleStep ==
  ASSUME DInv, RInv', [Next]_vars
  PROVE  StaleInv'
<1>0. QInv /\ RInv /\ StaleInv
  BY DEF DInv, RInv
<1>1. \A k \in Keys : /\ At(arr)[k] \in Nat /\ At(meta.at)[k] \in Nat
                      /\ At(arr)'[k] \in Nat /\ At(meta.at)'[k] \in Nat
  BY AtTypes
<1>2. CASE Quiet
  <2>1. /\ UNCHANGED <<meta, logQueue, pending>> /\ At(arr)' = At(arr) /\ CurLog' = CurLog
        /\ status' = status \/ (status = "open" /\ status' = "closing")
        /\ \A f \in DOMAIN logs' : f \in DOMAIN logs /\ logs'[f] = logs[f]
        /\ \A f \in DOMAIN logs : f >= meta.min => f \in DOMAIN logs'
    BY <1>2, QuietFact DEF CurLog
  <2>2. \A k \in Keys : At(meta.at)'[k] <= At(meta.at)[k]
    BY <1>2, QuietTables, <2>1
  <2>3. ASSUME NEW f \in DOMAIN logs', f >= meta'.min
        PROVE  \A i \in DOMAIN logs'[f] : \E j \in DOMAIN logs'[f] :
                 logs'[f][j].key = logs'[f][i].key /\ At(meta.at)'[logs'[f][i].key] <= logs'[f][j].seq
    <3>1. f \in DOMAIN logs /\ logs'[f] = logs[f] /\ NotBehind(f, At(meta.at))
      BY <1>0, <2>1, <2>3 DEF StaleInv
    <3>2. PICK a, b : a = At(meta.at) /\ b = At(meta.at)'
      OBVIOUS
    <3>3. NotBehind(f, a) /\ \A k \in Keys : a[k] \in Nat /\ b[k] \in Nat /\ b[k] <= a[k]
      BY <1>1, <2>2, <3>1, <3>2
    <3> QED BY <1>0, <3>1, <3>2, <3>3, NotBehindOlder
  <2>4. status' = "replay" => \A f \in pending' : f \in DOMAIN logs' /\ NotBehind(f, At(arr))
    <3>1. pending \subseteq DOMAIN logs /\ (status = "replay" => \A f \in pending : f >= meta.min)
      BY <1>0 DEF RInv, LogInv, QInv, DiskInv
    <3> QED BY <1>0, <2>1, <3>1 DEF StaleInv
  <2>5. Up' => Up /\ \A f \in DOMAIN logs' : f >= meta'.min => NotBehind(f, At(arr))
    BY <1>0, <2>1 DEF StaleInv, Up
  <2>6. Live' => /\ CurLog \in DOMAIN logs'
                 /\ \A i \in DOMAIN logs[CurLog] : At(arr)[logs[CurLog][i].key] <= logs[CurLog][i].seq
    <3>1. Live' => Live
      BY <2>1 DEF Live
    <3>2. Live => CurLog \in DOMAIN logs /\ CurLog >= meta.min
      BY DEF DInv, FilesInv, Up, Live
    <3> QED BY <1>0, <2>1, <3>1, <3>2 DEF StaleInv
  <2>7. status' = "replay" => \A f \in pending' : NotBehind(f, At(arr))'
    BY <2>1, <2>4 DEF NotBehind
  <2>8. Up' => \A f \in DOMAIN logs' : f >= meta'.min => NotBehind(f, At(arr))'
    BY <2>1, <2>5 DEF NotBehind
  <2>9. \A f \in DOMAIN logs' : f >= meta'.min => NotBehind(f, At(meta.at))'
    BY <2>3 DEF NotBehind
  <2>10. Live' => \A i \in DOMAIN logs'[CurLog] : At(arr)[logs'[CurLog][i].key] <= logs'[CurLog][i].seq
    BY <2>1, <2>6
  <2> QED BY <2>1, <2>7, <2>8, <2>9, <2>10 DEF StaleInv
<1>3. ASSUME NEW c \in Clients, Apply(c) PROVE StaleInv'
  <2>1. /\ UNCHANGED <<meta, logs, ats, arr, status, pending, logQueue>>
    BY <1>3 DEF Apply, diskVars, logVars
  <2>2. At(arr)' = At(arr) /\ At(meta.at)' = At(meta.at) /\ CurLog' = CurLog
    BY <2>1 DEF At, CurLog
  <2> QED BY <1>0, <2>1, <2>2 DEF StaleInv, NotBehind, Up, Live
<1>4. ASSUME NEW c \in Clients, SwitchMem(c) PROVE StaleInv'
  <2>1. /\ UNCHANGED <<meta, arr, ats, status, pending>> /\ At(arr)' = At(arr) /\ CurLog' = op[c].new
        /\ logs'[op[c].new] = <<>> /\ status = "open"
        /\ \A f \in DOMAIN logs' : f = op[c].new \/ (f \in DOMAIN logs /\ logs'[f] = logs[f])
    BY <1>4, SwitchLogs
  <2>2. At(meta.at)' = At(meta.at)
    BY <2>1 DEF At
  <2>3. \A f \in DOMAIN logs : f >= meta.min => NotBehind(f, At(meta.at)) /\ NotBehind(f, At(arr))
    BY <1>0, <2>1 DEF StaleInv, Up
  <2>4. ASSUME NEW f \in DOMAIN logs', f >= meta'.min
        PROVE  NotBehind(f, At(arr))' /\ NotBehind(f, At(meta.at))'
    <3>1. CASE logs'[f] = <<>>
      BY <3>1 DEF NotBehind
    <3>2. CASE f \in DOMAIN logs /\ logs'[f] = logs[f]
      <4>1. meta' = meta
        BY <2>1
      <4>2. NotBehind(f, At(meta.at)) /\ NotBehind(f, At(arr))
        BY <2>3, <2>4, <3>2, <4>1
      <4>3. At(arr)' = At(arr)
        BY <2>1
      <4> QED BY <2>2, <3>2, <4>2, <4>3 DEF NotBehind
    <3> QED BY <2>1, <3>1, <3>2
  <2>6. logs'[CurLog'] = <<>> /\ status' # "replay"
    BY <2>1
  <2> QED BY <2>4, <2>6 DEF StaleInv
<1>5. CASE Open
  <2>1. /\ status' = "replay" /\ UNCHANGED <<meta, logs>> /\ pending' = {f \in DOMAIN logs : f >= meta.min}
        /\ At(arr)' = At(meta.at) /\ At(meta.at)' = At(meta.at)
    BY <1>5, OpenFact
  <2> QED BY <1>0, <2>1 DEF StaleInv, NotBehind, Up, Live
<1>6. CASE Recovered
  <2>1. /\ status' = "recovered" /\ UNCHANGED logs /\ meta'.min = nextFileNum /\ nextFileNum \in Nat
        /\ \A f \in DOMAIN logs : f \in Nat /\ f < nextFileNum
    BY <1>6, RecoveredFact
  <2>2. \A f \in DOMAIN logs' : ~(f >= meta'.min)
    BY <2>1
  <2> QED BY <2>1, <2>2 DEF StaleInv, Live
<1>7. CASE OpenDone
  <2>1. /\ status' = "open" /\ CurLog' = CurLog /\ logs'[CurLog] = <<>> /\ meta' = meta
        /\ \A f \in DOMAIN logs' : f >= meta.min => f = CurLog
    BY <1>7, OpenDoneFact
  <2> QED BY <2>1 DEF StaleInv, NotBehind
<1> QED BY <1>2, <1>3, <1>4, <1>5, <1>6, <1>7, StaleWrites, StaleInstall, StaleEnd, StaleReplay, DurKinds
       DEF Writes

\* What is on disk stays there while the database is in use.
LEMMA DiskOn ==
  ASSUME DInv, [Next]_vars, NEW k \in Keys, NEW s \in Nat, OnDisk(k, s), Up,
         Quiet \/ \E c \in Clients : Writes(c) \/ SwitchMem(c) \/ Apply(c)
  PROVE  OnDisk(k, s)'
<1>0. QInv /\ RInv
  BY DEF DInv, RInv
<1>1. PICK f \in DOMAIN logs : f >= meta.min /\ \E p \in DOMAIN logs[f] :
        logs[f][p].key = k /\ logs[f][p].seq >= s /\ (Live /\ f = CurLog => p <= synced)
  BY DEF OnDisk
<1>2. PICK p \in DOMAIN logs[f] :
        logs[f][p].key = k /\ logs[f][p].seq >= s /\ (Live /\ f = CurLog => p <= synced)
  BY <1>1
<1>3. /\ meta' = meta
      /\ Live' /\ f = CurLog' => p <= synced'
  <2>1. CASE Quiet
    <3>1. /\ UNCHANGED <<meta, logQueue>> /\ synced \in Nat /\ synced' \in Nat /\ synced <= synced'
          /\ status' = status \/ (status = "open" /\ status' = "closing")
      BY <2>1, QuietFact
    <3>2. CurLog' = CurLog /\ (Live' => Live) /\ p \in Nat
      BY <1>0, <3>1, LogTypes DEF CurLog, Live
    <3> QED BY <1>2, <3>1, <3>2
  <2>2. ASSUME NEW c \in Clients, Writes(c) PROVE meta' = meta /\ (Live' /\ f = CurLog' => p <= synced')
    <3>1. UNCHANGED <<meta, synced, status>> /\ CurLog' = CurLog
      BY <2>2, WritesFact
    <3> QED BY <1>2, <3>1 DEF Live
  <2>3. ASSUME NEW c \in Clients, SwitchMem(c) PROVE meta' = meta /\ f # CurLog'
    BY <2>3, SwitchLogs
  <2>4. ASSUME NEW c \in Clients, Apply(c) PROVE meta' = meta /\ (Live' /\ f = CurLog' => p <= synced')
    <3>1. UNCHANGED <<meta, synced, status, logQueue>>
      BY <2>4 DEF Apply, diskVars, logVars
    <3> QED BY <1>2, <3>1 DEF Live, CurLog
  <2> QED BY <2>1, <2>2, <2>3, <2>4
<1>4. ~Ending
  <2>1. Ending => status' = "closed"
    BY EndTables DEF Forget
  <2>2. ~(status' = "closed")
    BY QuietFact, WritesFact, SwitchLogs DEF Up, Apply
  <2> QED BY <2>1, <2>2
<1>5. f \in DOMAIN logs' /\ p \in DOMAIN logs'[f] /\ logs'[f][p] = logs[f][p]
  BY <1>1, <1>2, <1>4, GrownFact DEF Grown
<1> QED BY <1>1, <1>2, <1>3, <1>5 DEF OnDisk

\* The array table is not newer than what was applied.
LEMMA ArrOlder ==
  ASSUME DInv, Live
  PROVE  \A k \in Keys : At(arr)[k] \in Nat /\ latest[k] \in Nat /\ At(arr)[k] <= latest[k]
<1>0. RInv
  BY DEF DInv
<1> SUFFICES ASSUME NEW k \in Keys PROVE At(arr)[k] \in Nat /\ latest[k] \in Nat /\ At(arr)[k] <= latest[k]
  OBVIOUS
<1>1. At(arr)[k] \in Nat /\ latest[k] \in Nat /\ \A i \in DOMAIN queue : queue[i].data[k] \in Nat
  BY <1>0, DataFact
<1>2. Top(queue, At(arr), k, latest[k])
  BY <1>0 DEF RInv, LatestInv
<1>3. \A i \in DOMAIN queue : queue[i].data[k] = 0 \/ At(arr)[k] < queue[i].data[k]
  BY <1>0 DEF RInv, OrderInv
<1> QED BY <1>1, <1>2, <1>3 DEF Top

\* What a quiet step adds to what has to survive is applied, and on disk.
LEMMA QuietFloor ==
  ASSUME DInv, Quiet, NEW k \in Keys
  PROVE  /\ floor[k] \in Nat /\ floor'[k] \in Nat
         /\ \/ floor'[k] = floor[k]
            \/ /\ Live /\ floor'[k] <= latest[k]
               /\ floor'[k] <= At(arr)[k] \/ OnDisk(k, floor'[k])
<1>0. QInv /\ RInv /\ floor \in Data /\ floor[k] \in Nat
  BY DEF DInv, RInv, KindInv, Data
<1>1. CASE floor' = floor
  BY <1>0, <1>1
<1>2. CASE FlushEnd
  <2>1. floor'[k] = floor[k] \/ floor'[k] = At(arr)[k]
    BY <1>2, EndFloor
  <2>2. Live
    BY <1>0, <1>2, FlushLive DEF FlushEnd, Live
  <2>3. At(arr)[k] \in Nat /\ latest[k] \in Nat /\ At(arr)[k] <= latest[k]
    BY <2>2, ArrOlder
  <2> QED BY <1>0, <2>1, <2>2, <2>3
<1>3. ASSUME NEW c \in Clients, Ack(c)
      PROVE  /\ floor'[k] \in Nat
             /\ \/ floor'[k] = floor[k]
                \/ /\ Live /\ floor'[k] <= latest[k]
                   /\ floor'[k] <= At(arr)[k] \/ OnDisk(k, floor'[k])
  <2>1. /\ pc[c] = "ack" /\ (place[c][1] = CurLog => place[c][2] <= synced)
        /\ floor' = IF op[c].sync THEN Upd(floor, op[c].key, op[c].seq) ELSE floor
    BY <1>3 DEF Ack
  <2>2. /\ op[c].key \in Keys /\ op[c].seq <= latest[op[c].key] /\ op[c].seq \in Nat
        /\ \/ op[c].seq <= At(arr)[op[c].key]
           \/ \E f \in DOMAIN logs : f >= meta.min /\ \E p \in DOMAIN logs[f] : Written(c, f, p)
    BY <1>0, <2>1, OpFact DEF DInv, AckInv
  <2>3. Live
    BY <1>0, <2>1, BusyFact DEF Live
  <2>u. LET u == Upd(floor, op[c].key, op[c].seq) IN
        /\ u[op[c].key] = IF op[c].seq > floor[op[c].key] THEN op[c].seq ELSE floor[op[c].key]
        /\ \A j \in Keys : j # op[c].key => u[j] = floor[j]
    BY <1>0, <2>2, UpdFact
  <2>4. CASE ~op[c].sync \/ k # op[c].key
    <3>1. floor'[k] = floor[k]
      BY <2>1, <2>4, <2>u
    <3> QED BY <1>0, <3>1
  <2>5. CASE op[c].sync /\ k = op[c].key
    <3>1. floor'[k] \in Nat /\ (floor'[k] = floor[k] \/ floor'[k] = op[c].seq)
      BY <1>0, <2>1, <2>2, <2>5, <2>u
    <3>2. CASE floor'[k] = op[c].seq
      <4>1. ASSUME NEW f \in DOMAIN logs, f >= meta.min, NEW p \in DOMAIN logs[f], Written(c, f, p)
            PROVE  OnDisk(k, op[c].seq)
        <5>1. logs[f][p].key = k /\ logs[f][p].seq = op[c].seq /\ (f = CurLog => place[c] = <<f, p>>)
          BY <2>5, <4>1 DEF Written, IsOf
        <5>2. f = CurLog => p <= synced
          BY <2>1, <5>1
        <5>3. logs[f][p].seq >= op[c].seq
          BY <2>2, <5>1
        <5> QED BY <4>1, <5>1, <5>2, <5>3 DEF OnDisk
      <4> QED BY <2>2, <2>3, <2>5, <3>1, <3>2, <4>1
    <3> QED BY <3>1, <3>2
  <2> QED BY <2>4, <2>5
<1> QED
  BY <1>0, <1>1, <1>2, <1>3 DEF Quiet, vars, histVars, FlushStart, FlushNumber, FlushBuild, FlushDelete,
     SyncLog, Close, DeleteFile, Flush, SwitchLog, Set

\* Steps of an open database but flush1's.
LEMMA FloorOn ==
  ASSUME DInv, RInv', [Next]_vars, Up,
         Quiet \/ \E c \in Clients : Writes(c) \/ SwitchMem(c) \/ Apply(c)
  PROVE  FloorInv'
<1>0. QInv /\ RInv /\ \A k \in Keys : floor[k] \in Nat
  BY DEF DInv, RInv, KindInv, Data
<1>1. /\ At(arr)' = At(arr)
      /\ Up' /\ (Live' <=> Live)
  <2>1. CASE Quiet
    BY <2>1, QuietFact DEF Up, Live
  <2>2. CASE \E c \in Clients : Writes(c) \/ SwitchMem(c)
    BY <2>2, WritesFact, SwitchLogs DEF Up, Live
  <2>3. ASSUME NEW c \in Clients, Apply(c) PROVE At(arr)' = At(arr) /\ status' = status
    BY <1>0, <2>3, ApplyData DEF Apply
  <2> QED BY <2>1, <2>2, <2>3 DEF Up, Live
<1>2. ASSUME NEW k \in Keys
      PROVE  /\ floor'[k] \in Nat
             /\ floor'[k] <= At(arr)[k] \/ OnDisk(k, floor'[k])
             /\ Live => floor'[k] <= latest[k]
  <2>1. floor[k] <= At(arr)[k] \/ OnDisk(k, floor[k])
    BY DEF DInv, FloorInv
  <2>2. Live => floor[k] <= latest[k]
    BY DEF DInv, FloorInv
  <2>3. CASE Quiet
    BY <1>0, <2>1, <2>2, <2>3, QuietFloor
  <2>4. CASE floor' = floor
    BY <1>0, <2>1, <2>2, <2>4
  <2> QED BY <2>3, <2>4, WritesFact, SwitchLogs DEF Apply
<1>3. ~Ending
  BY <1>1, EndTables DEF Forget, Up
<1>4. ASSUME NEW k \in Keys, NEW s, s = floor'[k]
      PROVE  (s <= At(arr)'[k] \/ OnDisk(k, s)') /\ (Live' => s <= latest'[k])
  <2>1. s \in Nat /\ (s <= At(arr)[k] \/ OnDisk(k, s)) /\ (Live => s <= latest[k])
    BY <1>2, <1>4
  <2>2. OnDisk(k, s) => OnDisk(k, s)'
    BY <2>1, DiskOn
  <2>3. Live => s <= latest'[k]
    <3>1. Live => latest[k] \in Nat /\ latest'[k] \in Nat /\ latest[k] <= latest'[k]
      BY <1>3, LatestGrows
    <3> QED BY <2>1, <3>1
  <2> QED BY <1>1, <2>1, <2>2, <2>3
<1>5. \A k \in Keys : floor'[k] <= At(arr)'[k] \/ OnDisk(k, floor[k])'
  <2> TAKE k \in Keys
  <2>1. PICK s : s = floor'[k]
    OBVIOUS
  <2>2. s <= At(arr)'[k] \/ OnDisk(k, s)'
    BY <1>4, <2>1
  <2> QED BY <2>1, <2>2 DEF OnDisk
<1>6. Live' => \A k \in Keys : floor'[k] <= latest'[k]
  BY <1>4
<1> QED BY <1>1, <1>5, <1>6 DEF FloorInv, Up

\* flush1 forgets no log whose writes are not in the new array table.
LEMMA FloorInstall ==
  ASSUME DInv, RInv', FlushInstall
  PROVE  FloorInv'
<1>0. QInv /\ \A k \in Keys : floor[k] \in Nat
  BY DEF DInv, RInv, KindInv, Data
<1>1. /\ Live /\ UNCHANGED <<logs, status, synced, floor, latest>> /\ CurLog' = CurLog
      /\ meta'.min = fl.min /\ fl.min \in Nat
  BY InstallOk
<1>2. \A k \in Keys : At(arr)[k] \in Nat /\ At(arr)'[k] \in Nat /\ At(arr)[k] <= At(arr)'[k]
  BY MergedFact
<1>3. ASSUME NEW k \in Keys, NEW s, s = floor[k]
      PROVE  s <= At(arr)'[k] \/ OnDisk(k, s)'
  <2>1. s \in Nat /\ (s <= At(arr)[k] \/ OnDisk(k, s))
    BY <1>0, <1>1, <1>3 DEF DInv, FloorInv, Up, Live
  <2>2. CASE s <= At(arr)[k]
    BY <1>2, <2>1, <2>2
  <2>3. ASSUME NEW f \in DOMAIN logs, f >= meta.min, NEW p \in DOMAIN logs[f],
               logs[f][p].key = k, logs[f][p].seq >= s, Live /\ f = CurLog => p <= synced
        PROVE  s <= At(arr)'[k] \/ OnDisk(k, s)'
    <3>0. f \in Nat /\ logs[f][p] \in Record /\ logs[f][p].seq \in Nat
      BY <1>0, LogTypes
    <3>1. CASE f >= fl.min
      BY <1>1, <2>3, <3>1 DEF OnDisk, Live
    <3>2. CASE f < fl.min
      <4>1. HeldBy(f, logs[f][p])
        BY <1>1, <2>3 DEF DInv, KeptInv
      <4>2. \A r \in Record : HeldBy(f, r) => r.seq <= At(arr)'[r.key]
        BY <3>0, <3>2, HeldInstall
      <4>3. logs[f][p].seq <= At(arr)'[k]
        BY <2>3, <3>0, <4>1, <4>2
      <4> QED BY <1>2, <2>1, <2>3, <3>0, <4>3
    <3> QED BY <1>1, <3>0, <3>1, <3>2
  <2> QED BY <2>1, <2>2, <2>3 DEF OnDisk
<1>4. \A k \in Keys : floor'[k] <= At(arr)'[k] \/ OnDisk(k, floor[k])'
  <2> TAKE k \in Keys
  <2>1. PICK s : s = floor[k]
    OBVIOUS
  <2>2. s <= At(arr)'[k] \/ OnDisk(k, s)'
    BY <1>3, <2>1
  <2> QED BY <1>1, <2>1, <2>2 DEF OnDisk
<1>5. \A k \in Keys : floor[k] <= latest[k]
  BY <1>1 DEF DInv, FloorInv
<1> QED BY <1>1, <1>4, <1>5 DEF FloorInv, Live

\* Every log still to replay is read again.
LEMMA FloorReplay ==
  ASSUME DInv, RInv', ReplayWAL
  PROVE  FloorInv'
<1>0. QInv /\ \A k \in Keys : floor[k] \in Nat
  BY DEF DInv, RInv, KindInv, Data
<1>1. PICK f \in pending :
           /\ f \in DOMAIN logs
           /\ pending' = pending \ {f}
           /\ UNCHANGED <<logs, floor, status>>
           /\ status = "replay"
           /\ \A k \in Keys :
                /\ At(arr)[k] \in Nat /\ At(arr)'[k] \in Nat
                /\ \A i \in DOMAIN logs[f] : logs[f][i].key = k => logs[f][i].seq <= At(arr)'[k]
                /\ \/ At(arr)'[k] = At(arr)[k]
                   \/ \E i \in DOMAIN logs[f] : logs[f][i].key = k /\ logs[f][i].seq = At(arr)'[k]
  BY ReplayFact
<1>2. \A g \in DOMAIN logs : \A p \in DOMAIN logs[g] : logs[g][p].seq \in Nat
  BY <1>0, LogTypes
<1>3. \A k \in Keys : At(arr)[k] <= At(arr)'[k]
  <2> TAKE k \in Keys
  <2>1. CASE At(arr)'[k] = At(arr)[k]
    BY <1>1, <2>1
  <2>2. ASSUME NEW i \in DOMAIN logs[f], logs[f][i].key = k
        PROVE  At(arr)[k] <= At(arr)'[k]
    <3>1. PICK j \in DOMAIN logs[f] : logs[f][j].key = k /\ At(arr)[k] <= logs[f][j].seq
      BY <1>1, <2>2 DEF DInv, StaleInv, NotBehind
    <3> QED BY <1>1, <1>2, <3>1
  <2> QED BY <1>1, <2>1, <2>2
<1>4. ASSUME NEW k \in Keys
      PROVE  \/ floor[k] <= At(arr)'[k]
             \/ \E g \in pending' : \E i \in DOMAIN logs[g] : logs[g][i].key = k /\ logs[g][i].seq >= floor[k]
  <2>1. \/ floor[k] <= At(arr)[k]
        \/ \E g \in pending : \E i \in DOMAIN logs[g] : logs[g][i].key = k /\ logs[g][i].seq >= floor[k]
    BY <1>1 DEF DInv, FloorInv
  <2>2. CASE floor[k] <= At(arr)[k]
    BY <1>0, <1>1, <1>3, <2>2
  <2>3. ASSUME NEW i \in DOMAIN logs[f], logs[f][i].key = k, logs[f][i].seq >= floor[k]
        PROVE  floor[k] <= At(arr)'[k]
    BY <1>0, <1>1, <1>2, <2>3
  <2> QED BY <1>1, <2>1, <2>2, <2>3
<1> QED BY <1>1, <1>4 DEF FloorInv, Up, Live

\* An opened database has to bring back what it is held to.
LEMMA FloorOpen ==
  ASSUME DInv, RInv', Open
  PROVE  FloorInv'
<1>0. QInv /\ \A k \in Keys : floor[k] \in Nat
  BY DEF DInv, RInv, KindInv, Data
<1>1. /\ status = "closed" /\ status' = "replay" /\ UNCHANGED logs
      /\ pending' = {f \in DOMAIN logs : f >= meta.min} /\ At(arr)' = At(meta.at)
  BY OpenFact
<1>2. logQueue = <<>> /\ ~Live
  BY <1>1 DEF DInv, FilesInv, Up, Live
<1>3. \A f \in DOMAIN logs : DOMAIN logs[f] = 1..Len(logs[f]) /\ \A p \in DOMAIN logs[f] : logs[f][p].seq \in Nat
  BY <1>0, LogTypes
<1>4. ASSUME NEW k \in Keys
      PROVE  \/ floor'[k] <= At(meta.at)[k]
             \/ \E f \in pending' : \E i \in DOMAIN logs[f] : logs[f][i].key = k /\ logs[f][i].seq >= floor'[k]
  <2>1. CASE lapse = {}
    <3>1. floor'[k] = floor[k]
      BY <2>1, OpenFloor
    <3>2. floor[k] <= At(meta.at)[k] \/ OnDisk(k, floor[k])
      BY <1>1, <2>1 DEF DInv, FloorInv
    <3> QED BY <1>1, <3>1, <3>2 DEF OnDisk
  <2>2. CASE lapse # {}
    <3>1. floor'[k] <= Survives(k) /\ floor'[k] \in Nat
      BY <2>2, OpenFloor DEF Data
    <3>2. CASE Survives(k) = At(meta.at)[k]
      BY <3>1, <3>2
    <3>3. ASSUME NEW y \in Recoverable, y.key = k, y.seq = Survives(k)
          PROVE  \E f \in pending' : \E i \in DOMAIN logs[f] : logs[f][i].key = k /\ logs[f][i].seq >= floor'[k]
      <4>1. PICK f \in {g \in DOMAIN logs : g >= meta.min} : y \in {logs[f][i] : i \in 1..Len(logs[f])}
        BY <1>2 DEF Recoverable
      <4>2. PICK i \in DOMAIN logs[f] : logs[f][i] = y
        BY <1>3, <4>1
      <4>3. logs[f][i].key = k /\ logs[f][i].seq >= floor'[k]
        BY <1>3, <3>1, <3>3, <4>1, <4>2
      <4> QED BY <1>1, <4>1, <4>3
    <3> QED BY <3>2, <3>3, SurvivesFact
  <2> QED BY <2>1, <2>2
<1> QED BY <1>1, <1>4 DEF FloorInv, Up, Live

\* What a kill, a clean close or a failed open leaves.
LEMMA FloorEnd ==
  ASSUME DInv, RInv', Ending
  PROVE  FloorInv'
<1>0. QInv /\ RInv /\ \A k \in Keys : floor[k] \in Nat
  BY DEF DInv, RInv, KindInv, Data
<1>1. status' = "closed" /\ trash' = {}
  BY EndTables DEF Forget
<1> SUFFICES ASSUME lapse' = {}
             PROVE  \A k \in Keys : floor'[k] <= At(meta.at)'[k] \/ OnDisk(k, floor[k])'
  BY <1>1 DEF FloorInv, Up, Live
<1>2. lapse = {} /\ ~CrashInMetaEdit /\ \A k \in Keys : At(meta.at)'[k] = At(arr)[k]
  BY EndTables
<1>3. meta' = meta
  BY <1>2 DEF Ending, CloseDone, Crash, OpenFails, diskVars
<1>4. /\ status # "closed"
      /\ \A f \in DOMAIN logs : f >= meta.min =>
              /\ f \in DOMAIN logs'
              /\ \A p \in DOMAIN logs[f] : (Live /\ f = CurLog => p <= synced) => p \in DOMAIN logs'[f]
      /\ \A f \in DOMAIN logs' : \A p \in DOMAIN logs'[f] : logs'[f][p] = logs[f][p]
      /\ CloseDone => \A f \in DOMAIN logs' : logs'[f] = logs[f]
  BY EndLogs
<1>5. ASSUME NEW k \in Keys, NEW s, NEW f \in DOMAIN logs, f >= meta.min, NEW p \in DOMAIN logs[f],
             logs[f][p].key = k, logs[f][p].seq >= s, Live /\ f = CurLog => p <= synced \/ CloseDone
      PROVE  OnDisk(k, s)'
  <2>1. f \in DOMAIN logs' /\ p \in DOMAIN logs'[f] /\ logs'[f][p] = logs[f][p]
    BY <1>4, <1>5
  <2>2. ~(Live')
    BY <1>1 DEF Live
  <2> QED BY <1>3, <1>5, <2>1, <2>2 DEF OnDisk
<1>6. ASSUME NEW k \in Keys, NEW s, s = floor'[k]
      PROVE  s <= At(arr)[k] \/ OnDisk(k, s)'
  <2>1. CASE CloseDone
    <3>1. Live /\ s = latest[k] /\ latest[k] \in Nat
      BY <1>6, <2>1, CloseFloor
    <3>2. Top(queue, At(arr), k, latest[k]) /\ At(arr)[k] \in Nat
      BY <1>0, <3>1, DataFact DEF RInv, LatestInv
    <3>3. CASE latest[k] = At(arr)[k]
      BY <3>1, <3>2, <3>3
    <3>4. ASSUME NEW i \in DOMAIN queue, queue[i].data[k] = latest[k], latest[k] # 0
          PROVE  OnDisk(k, s)'
      <4>1. PICK p \in DOMAIN logs[LogOf(i)] : IsOf(logs[LogOf(i)][p], k, queue[i].data[k])
        BY <3>4 DEF DInv, LoggedInv
      <4>2. LogOf(i) \in DOMAIN logs /\ LogOf(i) >= meta.min
        BY DEF DInv, LoggedInv
      <4>3. logs[LogOf(i)][p].key = k /\ logs[LogOf(i)][p].seq >= s
        BY <3>1, <3>4, <4>1 DEF IsOf
      <4> QED BY <1>5, <2>1, <4>1, <4>2, <4>3
    <3> QED BY <3>2, <3>3, <3>4 DEF Top
  <2>2. CASE ~CloseDone
    <3>1. s = floor[k]
      BY <1>2, <1>6, <2>2 DEF Ending, Crash, OpenFails, histVars
    <3>2. CASE Up
      <4>1. s <= At(arr)[k] \/ OnDisk(k, s)
        BY <3>1, <3>2 DEF DInv, FloorInv
      <4> QED BY <1>5, <4>1 DEF OnDisk
    <3>3. CASE status = "replay"
      <4>1. \/ s <= At(arr)[k]
            \/ \E f \in pending : \E i \in DOMAIN logs[f] : logs[f][i].key = k /\ logs[f][i].seq >= s
        BY <3>1, <3>3 DEF DInv, FloorInv
      <4>2. \A f \in pending : f \in DOMAIN logs /\ f >= meta.min
        BY <1>0, <3>3 DEF RInv, LogInv, QInv, DiskInv
      <4>3. ~Live
        BY <3>3 DEF Live
      <4> QED BY <1>5, <4>1, <4>2, <4>3
    <3> QED BY <1>0, <1>4, <3>2, <3>3 DEF Up, QInv, TypeInv, Statuses
  <2> QED BY <2>1, <2>2
<1> TAKE k \in Keys
<1>7. PICK s : s = floor'[k]
  OBVIOUS
<1>8. s <= At(arr)[k] \/ OnDisk(k, s)'
  BY <1>6, <1>7
<1> QED BY <1>2, <1>7, <1>8 DEF OnDisk

\* What has to survive is where recovery finds it.
LEMMA FloorStep ==
  ASSUME DInv, RInv', [Next]_vars
  PROVE  FloorInv'
<1>0. QInv /\ RInv /\ FloorInv /\ \A k \in Keys : floor[k] \in Nat
  BY DEF DInv, RInv, KindInv, Data
<1>1. CASE (Quiet /\ Up) \/ \E c \in Clients : Writes(c) \/ SwitchMem(c) \/ Apply(c)
  <2>1. Up
    <3>1. \A c \in Clients : Writes(c) \/ SwitchMem(c) \/ Apply(c) => status = "open"
      BY <1>0, WritesFact, SwitchLogs, BusyFact DEF Apply
    <3> QED BY <1>1, <3>1 DEF Up
  <2> QED BY <1>1, <2>1, FloorOn
<1>2. CASE Quiet /\ status = "replay"
  <2>1. /\ UNCHANGED <<meta, pending>> /\ status' = status /\ At(arr)' = At(arr)
        /\ \A f \in DOMAIN logs' : f \in DOMAIN logs /\ logs'[f] = logs[f]
        /\ \A f \in DOMAIN logs : f >= meta.min => f \in DOMAIN logs'
    BY <1>2, QuietFact
  <2>2. \A f \in pending : f \in DOMAIN logs /\ f >= meta.min
    BY <1>0, <1>2 DEF RInv, LogInv, QInv, DiskInv
  <2>3. \A k \in Keys : floor'[k] = floor[k]
    BY <1>2, QuietFloor DEF Live
  <2>4. \A f \in pending : logs'[f] = logs[f]
    BY <2>1, <2>2
  <2>5. \A k \in Keys : \/ floor[k] <= At(arr)[k]
                        \/ \E f \in pending : \E i \in DOMAIN logs[f] : logs[f][i].key = k /\ logs[f][i].seq >= floor[k]
    BY <1>0, <1>2 DEF FloorInv
  <2>6. \A k \in Keys : \/ floor'[k] <= At(arr)'[k]
                        \/ \E f \in pending' : \E i \in DOMAIN logs'[f] : logs'[f][i].key = k /\ logs'[f][i].seq >= floor'[k]
    BY <2>1, <2>3, <2>4, <2>5
  <2> QED BY <1>2, <2>1, <2>6 DEF FloorInv, Up, Live
<1>3. CASE Quiet /\ status = "closed"
  <2>1. flushPc = "none" /\ trash = {} /\ \A c \in Clients : pc[c] = "idle"
    BY <1>0, <1>3 DEF FloorInv, QInv, ModeInv, Live
  <2>2. UNCHANGED vars
    BY <1>3, <2>1 DEF Quiet, FlushStart, FlushNumber, FlushBuild, FlushDelete, FlushEnd, SyncLog, Close,
       DeleteFile, Flush, SwitchLog, Ack, Set
  <2>3. UNCHANGED <<status, floor, meta, arr, ats, logs, lapse, trash, pending, latest, synced, logQueue>>
    BY <2>2 DEF vars, diskVars, logVars, histVars
  <2> QED BY <1>0, <2>3 DEF FloorInv, Up, Live, OnDisk, CurLog, At
<1>4. CASE Recovered
  <2>1. /\ status = "replay" /\ status' = "recovered" /\ pending = {} /\ floor' = floor /\ At(arr)' = At(arr)
    BY <1>4, RecoveredFact
  <2>2. \A k \in Keys : floor[k] <= At(arr)[k]
    BY <1>0, <2>1 DEF FloorInv
  <2> QED BY <2>1, <2>2 DEF FloorInv, Live
<1>5. CASE OpenDone
  <2>1. /\ status = "recovered" /\ status' = "open" /\ CurLog \in Nat /\ meta.min = CurLog
        /\ \A f \in DOMAIN logs : f < CurLog
        /\ floor' = floor /\ At(arr)' = At(arr) /\ latest' = At(arr)
    BY <1>5, OpenDoneFact
  <2>2. \A f \in DOMAIN logs : ~(f >= meta.min)
    BY <1>0, <2>1, LogTypes
  <2>3. \A k \in Keys : floor[k] <= At(arr)[k]
    BY <1>0, <2>1, <2>2 DEF FloorInv, Up, OnDisk
  <2> QED BY <2>1, <2>3 DEF FloorInv
<1>6. Quiet => Up \/ status = "replay" \/ status = "closed"
  BY <1>0 DEF Up, QInv, TypeInv, Statuses
<1> QED BY <1>1, <1>2, <1>3, <1>4, <1>5, <1>6, FloorInstall, FloorReplay, FloorOpen, FloorEnd, DurKinds
       DEF Writes

\* The first state.
LEMMA DInit == Init => DInv
<1> SUFFICES ASSUME Init PROVE DInv
  OBVIOUS
<1>1. RInv
  BY RInit
<1>2. /\ status = "closed" /\ logs = <<>> /\ ats = <<>> /\ queue = <<>> /\ logQueue = <<>> /\ trash = {}
      /\ recycler = [logs |-> <<>>, max |-> 0, min |-> 0] /\ synced = 0 /\ pending = {}
      /\ flushPc = "none" /\ floor = Empty /\ latest = Empty /\ arr = 0
      /\ \A c \in Clients : pc[c] = "idle"
      /\ meta = [min |-> 0, next |-> 0, last |-> 0, at |-> 0]
      /\ place = [c \in Clients |-> NoPlace]
  BY DEF Init
<1>3. DOMAIN logs = {} /\ DOMAIN ats = {} /\ DOMAIN queue = {} /\ DOMAIN logQueue = {}
      /\ ~Live /\ ~Up
  BY <1>2 DEF Live, Up
<1>4. KindInv
  <2>1. place \in [Clients -> Nat \X Nat]
    BY <1>2 DEF NoPlace
  <2>2. floor \in Data
    BY <1>2, EmptyFact
  <2>3. recycler \in Recyclers
    BY <1>2 DEF Recyclers
  <2> QED BY <1>2, <1>3, <2>1, <2>2, <2>3 DEF KindInv
<1>5. FilesInv /\ GoneInv /\ SeriesInv /\ LoggedInv /\ KeptInv /\ TakenInv
  BY <1>2, <1>3 DEF FilesInv, GoneInv, SeriesInv, LoggedInv, KeptInv, TakenInv
<1>6. StaleInv /\ ArrInv
  BY <1>2, <1>3 DEF StaleInv, ArrInv
<1>7. AckInv
  BY <1>2 DEF AckInv, Logging, Making
<1>8. FloorInv
  <2>1. \A k \in Keys : floor[k] <= At(meta.at)[k]
    BY <1>2, <1>3, EmptyFact DEF At
  <2> QED BY <1>2, <1>3, <2>1 DEF FloorInv
<1> QED BY <1>1, <1>4, <1>5, <1>6, <1>7, <1>8 DEF DInv

\* Every step that keeps the file numbers going up.
LEMMA DStep == DInv /\ [Next]_vars /\ NumbersKept => DInv'
<1> SUFFICES ASSUME DInv, [Next]_vars, NumbersKept PROVE DInv'
  OBVIOUS
<1>1. RInv'
  BY RStep DEF DInv
<1> QED BY <1>1, KindStep, FilesStep, GoneStep, SeriesStep, StaleStep, ArrStep, LoggedStep, KeptStep, AckStep,
           FloorStep, TakenStep DEF DInv

\* What the invariant says of the properties.
LEMMA DMeans == DInv => Durable /\ ReopenReads
<1> SUFFICES ASSUME DInv, NEW k \in Keys
             PROVE  /\ lapse = {} => floor[k] <= Survives(k)
                    /\ status = "open" => floor[k] <= Get(k)
  BY DEF Durable, ReopenReads
<1>0. QInv /\ RInv /\ floor[k] \in Nat /\ At(meta.at)[k] \in Nat
  BY AtFact DEF DInv, RInv, KindInv, Data
<1>1. /\ Survives(k) \in Nat
      /\ \A y \in Recoverable : y.key = k => y.seq <= Survives(k)
      /\ \/ Survives(k) = At(meta.at)[k]
         \/ \E y \in Recoverable : y.key = k /\ y.seq = Survives(k)
  BY SurvivesFact
<1>2. \A f \in DOMAIN logs : /\ DOMAIN logs[f] = 1..Len(logs[f]) /\ Len(logs[f]) \in Nat
                             /\ \A p \in DOMAIN logs[f] : logs[f][p].key \in Keys /\ logs[f][p].seq \in Nat
  BY <1>0, LogTypes
\* A record on disk is recoverable.
<1>3. ASSUME NEW f \in DOMAIN logs, f >= meta.min, NEW p \in DOMAIN logs[f],
             logQueue # <<>> /\ f = CurLog => p <= synced
      PROVE  logs[f][p] \in Recoverable
  <2>1. p \in 1..(IF logQueue # <<>> /\ f = CurLog THEN synced ELSE Len(logs[f]))
    BY <1>2, <1>3 DEF DInv, KindInv
  <2> QED BY <1>3, <2>1 DEF Recoverable
<1>4. ASSUME NEW f \in DOMAIN logs, f >= meta.min, NEW p \in DOMAIN logs[f], logs[f][p].key = k,
             logs[f][p].seq >= floor[k], Live /\ f = CurLog => p <= synced
      PROVE  floor[k] <= Survives(k)
  <2>1. logQueue # <<>> /\ f = CurLog => Live
    <3> SUFFICES ASSUME logQueue # <<>>, f = CurLog, ~Live PROVE FALSE
      OBVIOUS
    <3>1. status = "recovered"
      BY DEF DInv, FilesInv, Up, Live
    <3>2. f < CurLog
      BY <3>1 DEF DInv, FilesInv
    <3> QED BY <1>0, <3>2, LogTypes
  <2>2. logs[f][p] \in Recoverable
    BY <1>3, <1>4, <2>1
  <2> QED BY <1>0, <1>1, <1>2, <1>4, <2>2
\* The recorded array table is not newer than what recovery reads.
<1>5. At(meta.at)[k] <= Survives(k)
  <2>1. CASE Survives(k) = At(meta.at)[k]
    BY <1>0, <2>1
  <2>2. ASSUME NEW y \in Recoverable, y.key = k
        PROVE  At(meta.at)[k] <= Survives(k)
    <3>1. PICK f \in {g \in DOMAIN logs : g >= meta.min} :
            y \in {logs[f][i] : i \in 1..(IF logQueue # <<>> /\ f = CurLog THEN synced ELSE Len(logs[f]))}
      BY DEF Recoverable
    <3>2. PICK i \in 1..(IF logQueue # <<>> /\ f = CurLog THEN synced ELSE Len(logs[f])) : y = logs[f][i]
      BY <3>1
    <3>3. CASE logQueue # <<>> /\ f = CurLog
      <4>1. Live
        <5> SUFFICES ASSUME ~Live PROVE FALSE
          OBVIOUS
        <5>1. status = "recovered"
          BY <3>3 DEF DInv, FilesInv, Up, Live
        <5>2. f < CurLog /\ f \in Nat
          BY <1>0, <3>1, <5>1, LogTypes DEF DInv, FilesInv
        <5> QED BY <3>3, <5>2
      <4>2. synced <= Len(logs[CurLog]) /\ synced \in Nat
        BY <4>1 DEF DInv, FilesInv, KindInv
      <4>3. i \in DOMAIN logs[CurLog]
        BY <1>2, <3>1, <3>2, <3>3, <4>2
      <4>4. At(arr)[k] <= y.seq
        BY <2>2, <3>2, <3>3, <4>1, <4>3 DEF DInv, StaleInv
      <4>5. At(meta.at)[k] <= At(arr)[k] /\ At(arr)[k] \in Nat
        BY <1>0, <4>1, DataFact DEF DInv, ArrInv, Live
      <4>6. y.seq <= Survives(k) /\ y.seq \in Nat
        BY <1>1, <1>2, <2>2, <3>1, <3>2, <3>3, <4>3
      <4> QED BY <1>0, <1>1, <4>4, <4>5, <4>6
    <3>4. CASE ~(logQueue # <<>> /\ f = CurLog)
      <4>1. i \in DOMAIN logs[f]
        BY <1>2, <3>1, <3>2, <3>4
      <4>2. PICK j \in DOMAIN logs[f] : logs[f][j].key = k /\ At(meta.at)[k] <= logs[f][j].seq
        BY <2>2, <3>1, <3>2, <4>1 DEF DInv, StaleInv, NotBehind
      <4>3. logs[f][j] \in Recoverable
        BY <1>3, <3>1, <3>4
      <4> QED BY <1>0, <1>1, <1>2, <3>1, <4>2, <4>3
    <3> QED BY <3>3, <3>4
  <2> QED BY <1>1, <2>1, <2>2
<1>6. ASSUME lapse = {} PROVE floor[k] <= Survives(k)
  <2>1. CASE floor[k] <= At(meta.at)[k]
    BY <1>0, <1>1, <1>5, <2>1
  <2>2. CASE OnDisk(k, floor[k])
    BY <1>4, <2>2 DEF OnDisk
  <2>3. CASE status = "closed"
    BY <1>6, <2>1, <2>2, <2>3 DEF DInv, FloorInv
  <2>4. CASE status # "closed"
    <3>1. At(meta.at) = At(arr)
      BY <1>6, <2>4, RecordedFact
    <3>2. CASE Up
      BY <2>1, <2>2, <3>1, <3>2 DEF DInv, FloorInv
    <3>3. CASE status = "replay"
      <4>1. \/ floor[k] <= At(arr)[k]
            \/ \E f \in pending : \E i \in DOMAIN logs[f] : logs[f][i].key = k /\ logs[f][i].seq >= floor[k]
        BY <3>3 DEF DInv, FloorInv
      <4>2. \A f \in pending : f \in DOMAIN logs /\ f >= meta.min
        BY <1>0, <3>3 DEF RInv, LogInv, QInv, DiskInv
      <4>3. ~Live
        BY <3>3 DEF Live
      <4> QED BY <1>4, <2>1, <3>1, <4>1, <4>2, <4>3
    <3> QED BY <1>0, <2>4, <3>2, <3>3 DEF Up, QInv, TypeInv, Statuses
  <2> QED BY <2>3, <2>4
<1>7. ASSUME status = "open" PROVE floor[k] <= Get(k)
  <2>1. floor[k] <= latest[k] /\ Top(queue, At(arr), k, latest[k])
    BY <1>0, <1>7 DEF DInv, FloorInv, Live, RInv, LatestInv
  <2>2. Get(k) = latest[k]
    BY <1>0, <2>1, GetFact DEF QInv
  <2> QED BY <2>1, <2>2
<1> QED BY <1>6, <1>7

\* A log recovery would read after the step is there, and as long as it was synced.
LEMMA LogsKeptStep ==
  ASSUME DInv, RInv', [Next]_vars, NEW f \in DOMAIN logs, f >= meta'.min
  PROVE  /\ f \in DOMAIN logs'
         /\ Len(logs'[f]) >= IF logQueue # <<>> /\ f = CurLog THEN synced ELSE Len(logs[f])
<1>0. /\ QInv /\ RInv /\ f \in Nat /\ Len(logs[f]) \in Nat /\ DOMAIN logs[f] = 1..Len(logs[f])
      /\ meta.min \in Nat /\ meta'.min \in Nat /\ synced \in Nat
  <2>1. QInv /\ RInv /\ QInv'
    BY DEF DInv, RInv
  <2>2. meta'.min \in Nat
    BY <2>1 DEF QInv, DiskInv, Metas
  <2> QED BY <2>1, <2>2, LogTypes, NumTypes DEF DInv, KindInv
<1>1. \A g \in DOMAIN logs' : Len(logs'[g]) \in Nat /\ DOMAIN logs'[g] = 1..Len(logs'[g])
  <2>1. \A g \in DOMAIN logs' : logs'[g] \in Seq(Record)
    BY DEF RInv, QInv, DiskInv
  <2> QED BY <2>1
<1>2. f >= meta.min
  <2>1. CASE Recovered
    BY <2>1, <1>0, RecoveredFact
  <2>2. CASE FlushInstall
    BY <2>2, <1>0, InstallOk
  <2>3. CASE Ending
    BY <2>3, <1>0, EndLogs
  <2>4. CASE ~Recovered /\ ~FlushInstall /\ ~Ending
    <3>1. meta' = meta
      BY <2>4, DurKinds, QuietFact, OpenFact, ReplayFact, OpenDoneFact, PrepareLogs, SwitchLogs, SetLarge
         DEF Apply, diskVars
    <3> QED BY <3>1
  <2> QED BY <2>1, <2>2, <2>3, <2>4
<1> DEFINE n == IF logQueue # <<>> /\ f = CurLog THEN synced ELSE Len(logs[f])
<1>3. n \in Nat /\ n <= Len(logs[f]) /\ (Live /\ f = CurLog => n <= synced)
  <2>1. CASE logQueue # <<>> /\ f = CurLog
    <3>1. Live
      <4> SUFFICES ASSUME ~Live PROVE FALSE
        OBVIOUS
      <4>1. status = "recovered"
        BY <2>1 DEF DInv, FilesInv, Up, Live
      <4>2. f < CurLog
        BY <4>1 DEF DInv, FilesInv
      <4> QED BY <1>0, <2>1, <4>2
    <3> QED BY <1>0, <2>1, <3>1 DEF DInv, FilesInv
  <2>2. CASE ~(logQueue # <<>> /\ f = CurLog)
    <3>1. ~(Live /\ f = CurLog)
      BY <2>2 DEF DInv, FilesInv, Up, Live
    <3> QED BY <1>0, <2>2, <3>1
  <2> QED BY <2>1, <2>2
<1> HIDE DEF n
<1>4. f \in DOMAIN logs' /\ (n > 0 => n \in DOMAIN logs'[f])
  <2>1. n > 0 => n \in DOMAIN logs[f]
    BY <1>0, <1>3
  <2>2. CASE Ending
    BY <1>2, <1>3, <2>1, <2>2, EndLogs
  <2>3. CASE ~Ending
    BY <1>2, <2>1, <2>3, GrownFact DEF Grown
  <2> QED BY <2>2, <2>3
<1>5. Len(logs'[f]) >= n
  BY <1>1, <1>3, <1>4
<1> QED BY <1>4, <1>5 DEF n

-----------------------------------------------------------------------------
(***************************************************************************)
(* With up to three memtables there is room for one log switch between the *)
(* load and the store of the flush's file number, and the numbers keep     *)
(* going up.                                                               *)
(***************************************************************************)

\* A batch never leads the queue, nor what a flush leaves, and a second switch would
\* find the queue full.
FewInv ==
  /\ Live => queue[1].mem # 0
  /\ flushPc \in {"number", "build", "install"} => queue[fl.n + 1].mem # 0
  /\ flushPc = "build" =>
       \/ nextFileNum = fl.num
       \/ nextFileNum = fl.num + 1 /\ \E c \in Clients : pc[c] = "switch"
       \/ /\ nextFileNum \in {fl.num, fl.num + 1}
          /\ \E i \in DOMAIN queue : 1 < i /\ i < Len(queue) /\ queue[i].mem # 0

\* A finite set without one of its members.
LEMMA OneOut ==
  ASSUME NEW S, IsFiniteSet(S), NEW x \in S
  PROVE  IsFiniteSet(S \ {x}) /\ Cardinality(S \ {x}) = Cardinality(S) - 1
BY FS_RemoveElement

\* Three memtables stall a writer (makeRoomForWrite).
LEMMA ThreeStall ==
  ASSUME StopWrites <= 3, TypeInv, NEW i \in DOMAIN queue, 1 < i, i < Len(queue),
         queue[1].mem # 0, queue[i].mem # 0, queue[Len(queue)].mem # 0
  PROVE  Stalled
<1> DEFINE n == Len(queue)
           batches == {j \in DOMAIN queue : queue[j].mem = 0}
           rest == (((1..n) \ {1}) \ {i}) \ {n}
<1>1. n \in Nat /\ DOMAIN queue = 1..n /\ i \in Nat /\ n >= 3
  BY DEF TypeInv
<1>2. IsFiniteSet(1..n) /\ Cardinality(1..n) = n
  BY <1>1, FS_Interval
<1>3. IsFiniteSet((1..n) \ {1}) /\ Cardinality((1..n) \ {1}) = n - 1
  <2>1. 1 \in 1..n
    BY <1>1
  <2> HIDE DEF n
  <2> QED BY <1>2, <2>1, OneOut
<1>4. i \in (1..n) \ {1}
  BY <1>1
<1>5. IsFiniteSet(((1..n) \ {1}) \ {i}) /\ Cardinality(((1..n) \ {1}) \ {i}) = (n - 1) - 1
  BY <1>3, <1>4, OneOut, Zenon
<1>6. n \in ((1..n) \ {1}) \ {i}
  BY <1>1
<1>7. IsFiniteSet(rest) /\ Cardinality(rest) = ((n - 1) - 1) - 1
  BY <1>5, <1>6, OneOut, Zenon
<1>8. batches \subseteq rest
  BY <1>1
<1>9. Cardinality(batches) \in Nat /\ Cardinality(batches) <= n - 3
  <2>1. IsFiniteSet(batches) /\ Cardinality(batches) <= Cardinality(rest)
    BY <1>7, <1>8, FS_Subset
  <2>2. Cardinality(batches) \in Nat
    BY <2>1, FS_CardinalityType
  <2> QED BY <1>1, <1>7, <2>1, <2>2
<1>10. 2 * n - Cardinality(batches) >= 2 * StopWrites
  <2>1. StopWrites \in Nat
    BY SizesAssumption
  <2> HIDE DEF batches, n
  <2> QED BY <1>1, <1>9, <2>1
<1> QED BY <1>10 DEF Stalled

\* Then the flush's number is not stored over a later one (runFlush).
LEMMA FewKeep ==
  ASSUME QInv, FewInv
  PROVE  NumbersKept
<1> SUFFICES ASSUME FlushBuild PROVE nextFileNum' >= nextFileNum
  BY DEF NumbersKept
<1>1. nextFileNum \in Nat /\ fl.num \in Nat
  BY NumTypes
<1>2. flushPc = "build" /\ nextFileNum' \in {fl.num + 1, nextFileNum + 1}
  BY DEF FlushBuild
<1> QED BY <1>1, <1>2 DEF FewInv

\* Only the flush's own steps start or end its stages.
LEMMA StageFact ==
  ASSUME DInv, [Next]_vars, flushPc' \in {"number", "build", "install"}
  PROVE  \/ FlushStart \/ FlushNumber \/ FlushBuild
         \/ /\ flushPc' = flushPc /\ fl' = fl /\ ~Ending /\ ~FlushInstall /\ ~OpenDone /\ Live
            /\ \/ nextFileNum' = nextFileNum
               \/ \E c \in Clients : SwitchLog(c)
<1>0. QInv
  BY DEF DInv, RInv
<1> SUFFICES ASSUME ~FlushStart, ~FlushNumber, ~FlushBuild
             PROVE  /\ flushPc' = flushPc /\ fl' = fl /\ ~Ending /\ ~FlushInstall /\ ~OpenDone /\ Live
                    /\ \/ nextFileNum' = nextFileNum
                       \/ \E c \in Clients : SwitchLog(c)
  OBVIOUS
<1>1. ~Ending
  BY EndTables DEF Forget
<1>2. ~FlushInstall /\ ~FlushDelete /\ ~FlushEnd
  BY NewFlush DEF FlushInstall, FlushDelete, FlushEnd
<1>3. ASSUME NEW c \in Clients, SwitchMem(c) \/ Apply(c)
      PROVE  flushPc' = flushPc /\ fl' = fl /\ nextFileNum' = nextFileNum
  <2>1. fl' = fl /\ nextFileNum' = nextFileNum /\ \E q : flushPc' \in {flushPc, ScheduleFlush(flushPc, q)}
    BY <1>3 DEF SwitchMem, Apply
  <2>2. \A q : ScheduleFlush(flushPc, q) \in {flushPc, "start"}
    BY <1>0, ScheduleFact DEF QInv, TypeInv
  <2> QED BY <2>1, <2>2
<1>4. /\ flushPc' = flushPc /\ fl' = fl
      /\ nextFileNum' = nextFileNum \/ (\E c \in Clients : SwitchLog(c)) \/ Open \/ ReplayWAL \/ Recovered
  <2>1. CASE Quiet
    BY <1>2, <2>1 DEF Quiet, vars, flushVars, SyncLog, Close, DeleteFile, Flush, SwitchLog, Ack, Set
  <2>2. CASE \E c \in Clients : Writes(c)
    BY <2>2, WritesFact
  <2>3. CASE Open \/ ReplayWAL \/ Recovered \/ OpenDone
    BY <2>3 DEF Open, ReplayWAL, Recovered, OpenDone, flushVars
  <2> QED BY <1>1, <1>2, <1>3, <2>1, <2>2, <2>3, DurKinds DEF Writes
<1>5. Live
  BY <1>0, <1>4, FlushLive DEF Live
<1>6. ~Open /\ ~ReplayWAL /\ ~Recovered /\ ~OpenDone
  BY <1>5 DEF Live, Open, ReplayWAL, Recovered, OpenDone
<1> QED BY <1>1, <1>2, <1>4, <1>5, <1>6

\* The queue only grows, but for flush1.
LEMMA MemsOn ==
  ASSUME DInv, [Next]_vars, Live, ~Ending, ~FlushInstall
  PROVE  /\ Len(queue) \in Nat /\ Len(queue) > 0 /\ DOMAIN queue = 1..Len(queue)
         /\ Len(queue') \in Nat /\ Len(queue) <= Len(queue') /\ DOMAIN queue' = 1..Len(queue')
         /\ \A i \in DOMAIN queue : i \in DOMAIN queue' /\ queue'[i].mem = queue[i].mem
<1>0. /\ QInv /\ RInv /\ Len(queue) \in Nat /\ Len(queue) > 0 /\ DOMAIN queue = 1..Len(queue)
  BY LogOfFact DEF DInv, RInv
<1>1. CASE Quiet
  BY <1>0, <1>1, QuietFact
<1>2. ASSUME NEW c \in Clients, Writes(c)
      PROVE  /\ Len(queue') = Len(queue) /\ DOMAIN queue' = DOMAIN queue
             /\ \A i \in DOMAIN queue : queue'[i].mem = queue[i].mem
  BY <1>2, WritesFact
<1>3. ASSUME NEW c \in Clients, Apply(c)
      PROVE  /\ Len(queue') = Len(queue) /\ DOMAIN queue' = DOMAIN queue
             /\ \A i \in DOMAIN queue : queue'[i].mem = queue[i].mem
  BY <1>0, <1>3, ApplyShape, ApplyData DEF QInv
<1>4. ASSUME NEW c \in Clients, SwitchMem(c)
      PROVE  /\ Len(queue') \in Nat /\ Len(queue) <= Len(queue') /\ DOMAIN queue' = 1..Len(queue')
             /\ \A i \in 1..Len(queue) : queue'[i].mem = queue[i].mem
  <2>1. /\ Len(queue') \in Nat /\ DOMAIN queue' = 1..Len(queue')
        /\ Len(queue') = (IF op[c].kind = "large" THEN Len(queue) + 2 ELSE Len(queue) + 1)
        /\ \A i \in 1..Len(queue) : queue'[i].mem = queue[i].mem
    BY <1>4, SwitchTables
  <2> QED BY <1>0, <2>1
<1>5. ~Open /\ ~ReplayWAL /\ ~Recovered /\ ~OpenDone
  BY DEF Live, Open, ReplayWAL, Recovered, OpenDone
<1>6. CASE \E c \in Clients : Writes(c) \/ Apply(c)
  BY <1>0, <1>2, <1>3, <1>6
<1>7. CASE \E c \in Clients : SwitchMem(c)
  BY <1>0, <1>4, <1>7
<1> QED BY <1>1, <1>5, <1>6, <1>7, DurKinds DEF Writes

\* What flush1 stops at is a memtable: a batch has no writers.
LEMMA StopsAtMem ==
  ASSUME QInv, queue # <<>>
  PROVE  /\ Ready(queue) \in Nat /\ Ready(queue) + 1 \in DOMAIN queue
         /\ queue[Ready(queue) + 1].mem # 0
<1>1. queue \in Seq(Table) /\ Len(queue) \in Nat /\ Len(queue) > 0 /\ DOMAIN queue = 1..Len(queue)
  BY DEF QInv, TypeInv
<1> DEFINE stop == {i \in 1..Len(queue) : i = Len(queue) \/ queue[i].refs > 0}
<1>2. Ready(queue) \in Nat /\ Ready(queue) < Len(queue)
  BY <1>1, ReadyFact
<1>3. Ready(queue) + 1 \in stop
  <2>1. Len(queue) \in stop /\ stop \subseteq Nat
    BY <1>1
  <2>2. Min(stop) \in stop
    BY <2>1, MinFact
  <2>3. Min(stop) \in Nat
    BY <2>1, <2>2
  <2>4. Ready(queue) = Min(stop) - 1
    BY DEF Ready
  <2>5. Ready(queue) + 1 = Min(stop)
    BY <2>3, <2>4
  <2> QED BY <2>2, <2>5
<1> DEFINE j == Ready(queue) + 1
<1>4. j \in 1..Len(queue) /\ (j = Len(queue) \/ queue[j].refs > 0)
  BY <1>3
<1>5. queue[j].mem # 0
  <2> HIDE DEF j
  <2>1. CASE j = Len(queue)
    BY <1>1, <2>1 DEF QInv, IdsInv, Mutable
  <2>2. CASE j # Len(queue) /\ queue[j].mem = 0
    <3>1. Writers(0) = {}
      BY OpFact DEF Writers
    <3>2. queue[j].refs = Cardinality(Writers(0)) + 0
      BY <1>1, <1>4, <2>2 DEF QInv, RefsInv
    <3>3. Cardinality(Writers(0)) = 0
      BY <3>1, FS_EmptySet
    <3> QED BY <1>4, <2>2, <3>2, <3>3
  <2> QED BY <2>1, <2>2
<1> QED BY <1>1, <1>2, <1>4, <1>5

\* The bound holds in every state.
LEMMA FewStep ==
  ASSUME StopWrites <= 3, DInv, RInv', FewInv, [Next]_vars
  PROVE  FewInv'
<1>0. QInv /\ RInv /\ QInv'
  BY DEF DInv, RInv
<1>1. Live' => queue'[1].mem # 0
  <2> SUFFICES ASSUME Live' PROVE queue'[1].mem # 0
    OBVIOUS
  <2>0. queue' # <<>> /\ ~Ending
    BY <1>0, EndTables DEF QInv, ModeInv, Forget, Live
  <2>1. CASE FlushInstall
    <3>1. flushPc = "install"
      BY <2>1 DEF FlushInstall
    <3>2. Len(queue') \in Nat /\ Len(queue') > 0 /\ DOMAIN queue' = 1..Len(queue')
          /\ \A i \in DOMAIN queue' : queue'[i] = queue[i + fl.n]
      BY <2>1, MergedFact
    <3>3. queue'[1] = queue[1 + fl.n]
      <4>1. 1 \in DOMAIN queue'
        BY <3>2
      <4> QED BY <3>2, <4>1
    <3>4. 1 + fl.n = fl.n + 1
      BY <1>0, NumTypes
    <3> QED BY <3>1, <3>3, <3>4 DEF FewInv
  <2>2. CASE Live /\ ~FlushInstall
    <3>1. 1 \in DOMAIN queue /\ queue'[1].mem = queue[1].mem
      BY <2>0, <2>2, MemsOn
    <3> QED BY <2>2, <3>1 DEF FewInv
  <2>3. CASE ~Live /\ ~FlushInstall
    <3>1. queue = <<>> /\ \A c \in Clients : pc[c] = "idle"
      BY <1>0, <2>3 DEF QInv, ModeInv, Live
    <3>2. OpenDone
      <4>1. ~Quiet /\ ~Open /\ ~ReplayWAL /\ ~Recovered
        BY <2>0, <3>1, QuietFact DEF Open, ReplayWAL, Recovered
      <4>2. \A c \in Clients : ~Writes(c) /\ ~SwitchMem(c) /\ ~Apply(c)
        BY <2>3, <3>1, WritesFact DEF SwitchMem, Apply, Live
      <4> QED BY <2>0, <2>3, <4>1, <4>2, DurKinds DEF Writes
    <3> QED BY <3>2, OpenDoneFact
  <2> QED BY <2>1, <2>2, <2>3
<1>2. ASSUME flushPc' \in {"number", "build", "install"}
      PROVE  queue'[fl'.n + 1].mem # 0
  <2>1. CASE FlushStart
    <3>1. queue' = queue /\ fl'.n = Ready(queue) /\ flushPc = "start"
      BY <1>2, <2>1, NewFlush DEF FlushStart, NoFlush
    <3>2. queue # <<>>
      BY <1>0, <3>1, FlushLive DEF QInv, ModeInv, Live
    <3> QED BY <1>0, <3>1, <3>2, StopsAtMem
  <2>2. CASE FlushNumber \/ FlushBuild
    <3>1. queue' = queue /\ fl'.n = fl.n /\ flushPc \in {"number", "build"}
      BY <1>0, <2>2 DEF FlushNumber, FlushBuild, QInv, TypeInv, Flushes
    <3> QED BY <3>1 DEF FewInv
  <2>3. CASE flushPc' = flushPc /\ fl' = fl /\ ~Ending /\ ~FlushInstall /\ Live
    <3>1. fl.n + 1 \in DOMAIN queue
      BY <1>0, <1>2, <2>3, NumTypes, MemsOn DEF QInv, FlushInv
    <3>2. queue'[fl.n + 1].mem = queue[fl.n + 1].mem
      BY <2>3, <3>1, MemsOn
    <3> QED BY <1>2, <2>3, <3>2 DEF FewInv
  <2> QED BY <1>2, <2>1, <2>2, <2>3, StageFact
<1>3. ASSUME flushPc' = "build"
      PROVE  \/ nextFileNum' = fl'.num
             \/ nextFileNum' = fl'.num + 1 /\ \E c \in Clients : pc'[c] = "switch"
             \/ /\ nextFileNum' \in {fl'.num, fl'.num + 1}
                /\ \E i \in DOMAIN queue' : 1 < i /\ i < Len(queue') /\ queue'[i].mem # 0
  <2>1. CASE FlushNumber
    BY <1>0, <2>1 DEF FlushNumber, QInv, TypeInv, Flushes
  <2>2. ~FlushStart /\ ~FlushBuild
    BY <1>3, NewFlush DEF FlushStart, FlushBuild
  <2>3. CASE /\ flushPc' = flushPc /\ fl' = fl /\ ~Ending /\ ~FlushInstall /\ ~OpenDone /\ Live
             /\ \/ nextFileNum' = nextFileNum
                \/ \E c \in Clients : SwitchLog(c)
    <3>0. /\ Len(queue) \in Nat /\ Len(queue) > 0 /\ DOMAIN queue = 1..Len(queue)
          /\ Len(queue') \in Nat /\ Len(queue) <= Len(queue') /\ DOMAIN queue' = 1..Len(queue')
          /\ \A i \in DOMAIN queue : i \in DOMAIN queue' /\ queue'[i].mem = queue[i].mem
      BY <2>3, MemsOn
    <3>1. Len(queue) > 1
      BY <1>0, <1>3, <2>3, <3>0, NumTypes DEF QInv, FlushInv
    <3>2. queue[1].mem # 0 /\ queue[Len(queue)].mem # 0 /\ 1 \in DOMAIN queue /\ Len(queue) \in DOMAIN queue
      BY <1>0, <2>3, <3>0 DEF FewInv, QInv, IdsInv, Mutable
    <3>3. nextFileNum \in Nat /\ fl.num \in Nat
      BY <1>0, NumTypes
    <3>4. CASE \E i \in DOMAIN queue : 1 < i /\ i < Len(queue) /\ queue[i].mem # 0
      <4>1. PICK i \in DOMAIN queue : 1 < i /\ i < Len(queue) /\ queue[i].mem # 0
        BY <3>4
      <4>2. Stalled
        BY <1>0, <3>2, <4>1, ThreeStall DEF QInv
      <4>3. nextFileNum' = nextFileNum
        BY <2>3, <4>2 DEF SwitchLog
      <4>4. nextFileNum \in {fl.num, fl.num + 1}
        BY <1>3, <2>3 DEF FewInv
      <4>5. i \in DOMAIN queue' /\ i < Len(queue') /\ queue'[i].mem # 0
        BY <3>0, <4>1
      <4> QED BY <2>3, <4>1, <4>3, <4>4, <4>5
    <3>5. ASSUME NEW c \in Clients, SwitchMem(c)
          PROVE  /\ nextFileNum' \in {fl.num, fl.num + 1}
                 /\ \E i \in DOMAIN queue' : 1 < i /\ i < Len(queue') /\ queue'[i].mem # 0
      <4>1. nextFileNum' = nextFileNum /\ nextFileNum \in {fl.num, fl.num + 1}
        BY <1>3, <2>3, <3>5, SwitchLogs DEF FewInv
      <4>2. Len(queue) < Len(queue')
        <5>1. Len(queue') = IF op[c].kind = "large" THEN Len(queue) + 2 ELSE Len(queue) + 1
          BY <3>5, SwitchTables
        <5> QED BY <3>0, <5>1
      <4> QED BY <3>0, <3>1, <3>2, <4>1, <4>2
    <3>6. ASSUME NEW c \in Clients, SwitchLog(c), ~(\E i \in DOMAIN queue : 1 < i /\ i < Len(queue) /\ queue[i].mem # 0)
          PROVE  nextFileNum' = fl.num + 1 /\ pc'[c] = "switch"
      <4>1. pc[c] = "room" /\ nextFileNum' = nextFileNum + 1 /\ pc'[c] = "switch"
        BY <1>0, <3>6 DEF SwitchLog, QInv, TypeInv
      <4>2. \A d \in Clients : pc[d] # "switch"
        BY <1>0, <4>1 DEF QInv, ModeInv
      <4>3. nextFileNum = fl.num
        BY <1>3, <2>3, <3>6, <4>2 DEF FewInv
      <4> QED BY <4>1, <4>3
    <3>7. CASE nextFileNum' = nextFileNum /\ (\A c \in Clients : ~SwitchMem(c))
      <4>1. \A d \in Clients : pc[d] = "switch" => pc'[d] = "switch"
        <5> SUFFICES ASSUME NEW d \in Clients, pc[d] = "switch" PROVE pc'[d] = "switch"
          OBVIOUS
        <5>a. pc \in [Clients -> ClientPcs]
          BY <1>0 DEF QInv, TypeInv
        <5>1. CASE UNCHANGED pc
          BY <5>1
        <5>2. ASSUME NEW c \in Clients, pc' = [pc EXCEPT ![c] = pc'[c]], pc[c] # "switch" PROVE pc'[d] = "switch"
          BY <5>a, <5>2
        <5>3. ASSUME NEW c \in Clients, Prepare(c) \/ Apply(c) \/ Flush(c) \/ SwitchLog(c) \/ Ack(c)
                                        \/ \E k \in Keys : Set(c, k)
              PROVE  pc' = [pc EXCEPT ![c] = pc'[c]] /\ pc[c] # "switch"
          BY <5>a, <5>3 DEF Prepare, Apply, Flush, SwitchLog, Ack, Set
        <5>4. CASE FlushEnd
          BY <5>4 DEF FlushEnd
        <5>5. \/ UNCHANGED pc \/ FlushEnd
              \/ \E c \in Clients : Prepare(c) \/ Apply(c) \/ Flush(c) \/ SwitchLog(c) \/ Ack(c)
                                    \/ \E k \in Keys : Set(c, k)
          <6>1. ~Open /\ ~ReplayWAL /\ ~Recovered /\ ~OpenDone
            BY <2>3 DEF Live, Open, ReplayWAL, Recovered, OpenDone
          <6> QED BY <2>3, <3>7, <6>1, DurKinds DEF Quiet, vars, clientVars, FlushStart, FlushNumber, FlushBuild,
                     FlushDelete, SyncLog, Close, DeleteFile
        <5> QED BY <5>1, <5>2, <5>3, <5>4, <5>5
      <4>2. \/ nextFileNum = fl.num
            \/ nextFileNum = fl.num + 1 /\ \E c \in Clients : pc[c] = "switch"
            \/ \E i \in DOMAIN queue : 1 < i /\ i < Len(queue) /\ queue[i].mem # 0
        BY <1>3, <2>3 DEF FewInv
      <4> QED BY <2>3, <3>4, <3>7, <4>1, <4>2
    <3> QED BY <2>3, <3>4, <3>5, <3>6, <3>7
  <2> QED BY <1>3, <2>1, <2>2, <2>3, StageFact
<1> QED BY <1>1, <1>2, <1>3 DEF FewInv

-----------------------------------------------------------------------------

\* Until a number is undone the invariant holds.
UInv == undone \in BOOLEAN /\ (~undone => DInv)

\* Only the flush's unlocked store undoes one, and that is not forgotten.
LEMMA UndoneStep ==
  ASSUME [Next]_vars
  PROVE  undone' = undone \/ (FlushBuild /\ undone' = (undone \/ nextFileNum' < nextFileNum))
<1>1. CASE UNCHANGED vars
  BY <1>1 DEF vars, histVars
<1>2. ASSUME NEW c \in Clients, Client(c) \/ Flush(c) \/ \E k \in Keys : Set(c, k)
      PROVE  undone' = undone
  BY <1>2 DEF Client, Prepare, SwitchLog, SwitchMem, Apply, Ack, Flush, Set, histVars
<1>3. CASE Flusher
  BY <1>3 DEF Flusher, FlushStart, FlushNumber, FlushBuild, FlushInstall, FlushDelete, FlushEnd, histVars
<1>4. CASE Recovery
  BY <1>4 DEF Recovery, Open, ReplayWAL, OpenFails, Recovered, OpenDone, histVars
<1>5. CASE SyncLog \/ DeleteFile \/ Close \/ CloseDone \/ Crash \/ CrashInMetaEdit
  BY <1>5 DEF SyncLog, DeleteFile, Close, CloseDone, Crash, CrashInMetaEdit, histVars
<1> QED BY <1>1, <1>2, <1>3, <1>4, <1>5 DEF Next

\* A step that undoes no number keeps them.
LEMMA NotUndone ==
  ASSUME RInv, [Next]_vars, undone \in BOOLEAN, ~undone'
  PROVE  ~undone /\ NumbersKept
<1>1. CASE FlushBuild
  <2>1. undone' = (undone \/ nextFileNum' < nextFileNum)
    BY <1>1 DEF FlushBuild
  <2>2. nextFileNum \in Nat /\ fl.num \in Nat
    BY NumTypes DEF RInv
  <2>3. nextFileNum' \in {fl.num + 1, nextFileNum + 1}
    BY <1>1 DEF FlushBuild
  <2>4. ~undone /\ ~(nextFileNum' < nextFileNum)
    BY <2>1
  <2> QED BY <2>2, <2>3, <2>4 DEF NumbersKept
<1>2. CASE ~FlushBuild
  BY <1>2, UndoneStep DEF NumbersKept
<1> QED BY <1>1, <1>2

\* RInv holds whatever the numbers (PlainDBProofs), DInv until one is undone.
LEMMA UInvariant == Spec => [](RInv /\ UInv)
<1>1. Init => RInv /\ UInv
  BY DInit DEF UInv, DInv, Init
<1>2. RInv /\ UInv /\ [Next]_vars => (RInv /\ UInv)'
  <2> SUFFICES ASSUME RInv, UInv, [Next]_vars PROVE RInv' /\ UInv'
    OBVIOUS
  <2>1. RInv'
    BY RStep
  <2>2. undone' \in BOOLEAN
    BY UndoneStep DEF UInv
  <2>3. ASSUME ~undone' PROVE DInv'
    BY <2>3, NotUndone, DStep DEF UInv
  <2> QED BY <2>1, <2>2, <2>3 DEF UInv
<1> QED BY <1>1, <1>2, PTL DEF Spec

\* Durable, for any number of memtables, clients, keys, writes, flushes, kills and
\* closes: what a synced Commit, a Flush or a clean Close promised is readable by a new
\* process at any moment, until the flush's unlocked store undoes the number of a log.
THEOREM SyncedSurvives == Spec => []Durable
<1>1. UInv => Durable
  BY DMeans DEF UInv, Durable
<1> QED BY <1>1, UInvariant, PTL

\* ReopenReads: newPlainDB brings back what Close, Flush and the synced commits left,
\* with the same exception.
THEOREM ReopenedReadsBack == Spec => []ReopenReads
<1>1. UInv => ReopenReads
  BY DMeans DEF UInv, ReopenReads
<1> QED BY <1>1, UInvariant, PTL

\* LogsKept: neither the recycling of logs nor their deletion reaches one that recovery
\* would read, until a log gets a number that is in use.
THEOREM ReadableLogsStay == Spec => LogsKept
<1>1. (RInv /\ UInv) /\ (RInv /\ UInv)' /\ [Next]_vars =>
        [\A f \in DOMAIN logs :
           ~undone /\ f >= meta'.min =>
             /\ f \in DOMAIN logs'
             /\ Len(logs'[f]) >= IF logQueue # <<>> /\ f = CurLog THEN synced
                                                                 ELSE Len(logs[f])]_vars
  BY LogsKeptStep DEF UInv
<1> QED BY <1>1, UInvariant, PTL DEF Spec, LogsKept

\* When the exception can happen: not with up to three memtables.  One log switch fits
\* between the load and the store of the flush's file number, and the write stall of
\* makeRoomForWrite stops the second.
THEOREM NumbersStayUpToThree ==
  ASSUME StopWrites <= 3
  PROVE  Spec => []~undone
<1> DEFINE I == RInv /\ UInv /\ undone = FALSE /\ FewInv
<1>1. Init => I
  <2> SUFFICES ASSUME Init PROVE I
    OBVIOUS
  <2>1. ~Live /\ flushPc = "none" /\ undone = FALSE
    BY DEF Init, Live
  <2> QED BY <2>1, DInit DEF FewInv, UInv, DInv
<1>2. I /\ [Next]_vars => I'
  <2> SUFFICES ASSUME RInv, UInv, undone = FALSE, FewInv, [Next]_vars
               PROVE  RInv' /\ UInv' /\ undone' = FALSE /\ FewInv'
    OBVIOUS
  <2>0. DInv
    BY DEF UInv
  <2>1. NumbersKept
    BY FewKeep DEF RInv
  <2>2. DInv' /\ RInv'
    BY <2>0, <2>1, DStep, RStep
  <2>3. undone' = FALSE
    <3>1. FlushBuild => ~(nextFileNum' < nextFileNum)
      <4>1. nextFileNum \in Nat /\ fl.num \in Nat
        BY NumTypes DEF RInv
      <4>2. FlushBuild => nextFileNum' \in {fl.num + 1, nextFileNum + 1}
        BY DEF FlushBuild
      <4> QED BY <2>1, <4>1, <4>2 DEF NumbersKept
    <3> QED BY <3>1, UndoneStep
  <2>4. FewInv'
    BY <2>0, <2>2, FewStep
  <2> QED BY <2>2, <2>3, <2>4 DEF UInv
<1>3. I => ~undone
  OBVIOUS
<1> QED BY <1>1, <1>2, <1>3, PTL DEF Spec
=============================================================================
